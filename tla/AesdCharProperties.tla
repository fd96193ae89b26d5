------------------------- MODULE AesdCharProperties -------------------------
(***************************************************************************)
(* What the driver guarantees: its type invariant, who may be inside the   *)
(* device, who owns each block of the heap, and that it implements AesdLog. *)
(***************************************************************************)
EXTENDS AesdChar

(* The entries the buffer may hold: a block and the bytes behind it. *)
Entries == [buffptr : Blocks, size : Nat \ {0}]

Holding == {"alloc", "copy", "insert", "find", "search", "copy_to_user", "unlock"}

Labels ==
  {"no device", "closed", "open", "read_lock", "write_lock", "return"} \cup Holding

TypeOK ==
  /\ mutex \in Procs \cup {NoProc}
  /\ cb \in BuffersOf(Entries)
  /\ preserved \in [buffptr : Blocks \cup {NULL, ZERO_SIZE_PTR}, size : Nat]
  /\ heap \in [Blocks -> [cap : Nat, data : Seq(Byte)]]
  /\ f_pos \in [Procs -> Nat]
  /\ pc \in [Procs -> Labels]
  /\ search \in [Procs -> Searches]
  /\ ubuf \in [Procs -> Seq(Byte)]
  /\ reply \in [Procs -> Int \cup {NoReply}]

(* The mutex is held by exactly the process that is between its lock and   *)
(* its unlock, on every path through a call (main.c:94-129, 171-226).      *)
MutualExclusion == \A p \in Procs : pc[p] \in Holding <=> mutex = p

(* The offsets of the driver's buffer are consistent, so that a search may *)
(* stop at the first empty slot.                                           *)
BufferOK == OffsetsAgreeOn(cb, Entries)

Live == {i \in Slot : cb.entry[i] # NoEntry}

(* Every entry a read can find, and the one being assembled, owns an       *)
(* allocated block that holds its bytes, and no two share one: nothing in  *)
(* reach of a call has been freed by the eviction of main.c:213-216 or     *)
(* left behind by a krealloc.                                              *)
EntriesOwnBlocks ==
  /\ \A i \in Live :
       /\ cb.entry[i].buffptr \notin Unused
       /\ cb.entry[i].size = Len(heap[cb.entry[i].buffptr].data)
       /\ cb.entry[i].buffptr # preserved.buffptr
       /\ \A j \in Live : cb.entry[i].buffptr = cb.entry[j].buffptr => i = j
  /\ preserved.buffptr \in Blocks =>
       /\ preserved.buffptr \notin Unused
       /\ preserved.size = Len(heap[preserved.buffptr].data)

(* The block has room for the bytes copy_from_user is about to put behind  *)
(* those already there (main.c:182-204), and a read copies only bytes of   *)
(* the entry it found (main.c:105-119).                                    *)
CopiesFit ==
  \A p \in Procs :
    /\ pc[p] = "copy" /\ ubuf[p] # << >> =>
         /\ preserved.buffptr \in Blocks
         /\ preserved.size + Len(ubuf[p]) <= heap[preserved.buffptr].cap
    /\ pc[p] = "copy_to_user" =>
         /\ SlotOf(cb, search[p]) \in Live
         /\ search[p].offset < FoundEntry(p).size

(* The blocks that the buffer or the entry being assembled points to. *)
Reachable == {cb.entry[i].buffptr : i \in Live} \cup {preserved.buffptr}

(* A block leaves the driver's reach only by being freed (main.c:213-216)  *)
(* or moved, but for three ways in which the code loses one: the next      *)
(* write's kmalloc after a copy that transferred nothing (184), a krealloc  *)
(* that fails (188), and the module's unloading (281-292).                 *)
FreedWhenDropped ==
  [][\A b \in Blocks \cap Reachable :
       \/ b \in Reachable' \cup Unused'
       \/ /\ b = preserved.buffptr
          /\ \E p \in Procs : pc[p] = "alloc"
          /\ preserved.size = 0 \/ preserved'.buffptr = NULL
       \/ \A p \in Procs : pc[p] = "no device"]_vars

(* While krealloc and the processes' memory do not fail, every allocated   *)
(* block belongs to an entry: evicted entries are freed and an entry moved *)
(* by krealloc leaves nothing behind.                                      *)
NoLeak ==
  Blocks \ Unused \subseteq Reachable

(* An entry goes into the buffer only by a write that copies a newline     *)
(* (the comment of main.c:206).                                            *)
InsertedByNewline ==
  [][cb' # cb => \E p \in Procs : pc[p] = "insert" /\ Contains(ubuf[p], NL)]_vars

-----------------------------------------------------------------------------
(* The log that AesdLog speaks of.  A write takes effect when it looks for *)
(* the newline: the bytes it has copied before are not in the log yet.     *)
Line(e) == heap[e.buffptr].data

Log == [k \in 1 .. Count(cb) |-> Line(Contents(cb)[k])]

InFlight == UNION {1 .. Len(ubuf[p]) : p \in {q \in Procs : pc[q] = "insert"}}

Partial ==
  SubSeq(PreservedBytes, 1, Len(PreservedBytes) - Cardinality(InFlight))

Received ==
  [p \in Procs |-> IF pc[p] \in {"copy", "insert"} THEN << >> ELSE ubuf[p]]

Device ==
  INSTANCE AesdLog WITH
    Capacity <- Slots,
    Errors   <- {-ENOMEM, -ERESTARTSYS, -EFAULT},
    MayFault <- "copy" \in Faults,
    MayReload <- "unload" \in Faults,
    log      <- Log,
    partial  <- Partial,
    ubuf     <- Received

(* Whatever the interleaving of the calls, the device behaves as if each   *)
(* took effect at once: no byte a write has acknowledged is lost, doubled  *)
(* or out of order, every command holds a newline and is kept until Slots  *)
(* newer ones displace it, and reads return the bytes at their position.   *)
ImplementsLog == Device!Spec

(* A call that has begun returns (main.c:93-131, 170-228): no path keeps   *)
(* the mutex.                                                              *)
EveryCallReturns ==
  \A p \in Procs : pc[p] \in {"read_lock", "write_lock"} ~> pc[p] = "open"

=============================================================================
