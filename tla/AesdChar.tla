------------------------------ MODULE AesdChar ------------------------------
(***************************************************************************)
(* The char driver (aesd-char-driver/main.c): processes that open, read,    *)
(* write and close /dev/aesdchar, the mutex of the device, the entry being  *)
(* assembled, the circular buffer and the kernel heap behind both.  A step  *)
(* is a step of one call between two points where another process, a signal *)
(* or a failure can come in.                                                *)
(***************************************************************************)
EXTENDS CircularBuffer, Integers, SequencesExt

CONSTANTS
  Readers, Writers,  \* processes by what they call, each with one open file
  Blocks,            \* the addresses kmalloc may return
  ZERO_SIZE_PTR,     \* what kmalloc(0) returns
  Byte, NL,          \* byte values; NL is '\n'
  Inputs,            \* what a process may pass to write()
  Counts,            \* how much a process may ask read() for
  MaxPartial,        \* bound on the bytes that wait for a newline
  Faults,            \* what may happen: kmalloc, krealloc, copy, signal, unload
  NoProc, NoReply

Procs == Readers \cup Writers

ENOMEM == 12
EFAULT == 14
ERESTARTSYS == 512

ASSUME BlocksAssumption ==
  NULL \notin Blocks /\ ZERO_SIZE_PTR \notin Blocks \cup {NULL}
ASSUME ProcsAssumption == NoProc \notin Procs /\ Procs # {}
ASSUME ReplyAssumption == NoReply \notin Int
ASSUME BytesAssumption ==
  /\ NL \in Byte
  /\ Inputs \subseteq Seq(Byte)
  /\ Counts \subseteq Nat /\ Counts # {}
  /\ MaxPartial \in Nat

VARIABLES
  mutex,      \* dev->mutex_lock: the process that holds it, or NoProc
  cb,         \* dev->cb_handler
  preserved,  \* dev->entry_to_insert_in_cb
  heap,       \* bytes allocated and bytes written, per block
  f_pos,      \* position of a process's open file
  pc,         \* where a process is
  search,     \* a read's search of the buffer
  ubuf,       \* a write's bytes still to be added; a read's bytes received
  reply       \* return value of a call

vars == <<mutex, cb, preserved, heap, f_pos, pc, search, ubuf, reply>>

Free == [cap |-> 0, data |-> << >>]
Unused == {b \in Blocks : heap[b] = Free}

kfree(h, ptr) == [b \in Blocks |-> IF b = ptr THEN Free ELSE h[b]]

Goto(p, label) == pc' = [pc EXCEPT ![p] = label]

\* After the first aesd_init_module, with nobody having opened the device.
Init ==
  /\ mutex = NoProc
  /\ cb = aesd_circular_buffer_init
  /\ preserved = NoEntry
  /\ heap = [b \in Blocks |-> Free]
  /\ f_pos = [p \in Procs |-> 0]
  /\ pc = [p \in Procs |-> "closed"]
  /\ search = [p \in Procs |-> NoSearch]
  /\ ubuf = [p \in Procs |-> << >>]
  /\ reply = [p \in Procs |-> NoReply]

-----------------------------------------------------------------------------
(* The kernel unloads the module when no process has the device open (the  *)
(* owner of aesd_fops).  The buffer's blocks and the entry's stay allocated. *)
aesd_cleanup_module ==
  /\ "unload" \in Faults
  /\ \A p \in Procs : pc[p] = "closed"
  /\ pc' = [p \in Procs |-> "no device"]
  /\ UNCHANGED <<mutex, cb, preserved, heap, f_pos, search, ubuf, reply>>

(* The module is loaded again: all of aesd_device is cleared. *)
aesd_init_module ==
  /\ \A p \in Procs : pc[p] = "no device"
  /\ pc' = [p \in Procs |-> "closed"]
  /\ mutex' = NoProc
  /\ cb' = aesd_circular_buffer_init
  /\ preserved' = NoEntry
  /\ UNCHANGED <<heap, f_pos, search, ubuf, reply>>

aesd_open(p) ==
  /\ pc[p] = "closed"
  /\ f_pos' = [f_pos EXCEPT ![p] = 0]
  /\ Goto(p, "open")
  /\ UNCHANGED <<mutex, cb, preserved, heap, search, ubuf, reply>>

aesd_release(p) ==
  /\ pc[p] = "open"
  /\ Goto(p, "closed")
  /\ UNCHANGED <<mutex, cb, preserved, heap, f_pos, search, ubuf, reply>>

(* A call starts and comes to mutex_lock_interruptible. *)
Call(p) ==
  /\ pc[p] = "open"
  /\ \/ p \in Readers /\ Goto(p, "read_lock")
     \/ p \in Writers /\ Goto(p, "write_lock")
  /\ UNCHANGED <<mutex, cb, preserved, heap, f_pos, search, ubuf, reply>>

(* A call with a null pointer for its bytes returns before it gets there.  *)
NullBuffer(p) ==
  /\ pc[p] = "open"
  /\ reply' = [reply EXCEPT ![p] = -EFAULT]
  /\ Goto(p, "return")
  /\ UNCHANGED <<mutex, cb, preserved, heap, f_pos, search, ubuf>>

Lock(p) ==
  /\ mutex = NoProc
  /\ mutex' = p
  /\ \/ pc[p] = "read_lock" /\ Goto(p, "find")
     \/ pc[p] = "write_lock" /\ Goto(p, "alloc")
  /\ UNCHANGED <<cb, preserved, heap, f_pos, search, ubuf, reply>>

(* A signal ends the wait for a mutex that is taken. *)
Interrupted(p) ==
  /\ "signal" \in Faults
  /\ mutex # NoProc
  /\ pc[p] \in {"read_lock", "write_lock"}
  /\ reply' = [reply EXCEPT ![p] = -ERESTARTSYS]
  /\ Goto(p, "return")
  /\ UNCHANGED <<mutex, cb, preserved, heap, f_pos, search, ubuf>>

Unlock(p) ==
  /\ pc[p] = "unlock"
  /\ mutex' = NoProc
  /\ Goto(p, "return")
  /\ UNCHANGED <<cb, preserved, heap, f_pos, search, ubuf, reply>>

Return(p) ==
  /\ pc[p] = "return"
  /\ reply' = [reply EXCEPT ![p] = NoReply]
  /\ ubuf' = [ubuf EXCEPT ![p] = << >>]
  /\ Goto(p, "open")
  /\ UNCHANGED <<mutex, cb, preserved, heap, f_pos, search>>

-----------------------------------------------------------------------------
(* Allocation succeeds: the entry moves to block ptr of the heap h. *)
Allocated(p, s, ptr, h) ==
  /\ preserved' = [preserved EXCEPT !.buffptr = ptr]
  /\ heap' = h
  /\ ubuf' = [ubuf EXCEPT ![p] = s]
  /\ Goto(p, "copy")
  /\ UNCHANGED reply

\* Mistake: the early return of a failed allocation keeps the mutex.
OutOfMemoryKeepingMutex(p) ==
  /\ preserved' = [preserved EXCEPT !.buffptr = NULL]
  /\ reply' = [reply EXCEPT ![p] = -ENOMEM]
  /\ Goto(p, "return")
  /\ UNCHANGED <<heap, ubuf>>

(* Allocation fails: its NULL has already replaced the entry's pointer. *)
OutOfMemory(p) ==
  /\ preserved' = [preserved EXCEPT !.buffptr = NULL]
  /\ reply' = [reply EXCEPT ![p] = -ENOMEM]
  /\ Goto(p, "unlock")
  /\ UNCHANGED <<heap, ubuf>>

kmalloc(p, s) ==
  \/ s = << >> /\ Allocated(p, s, ZERO_SIZE_PTR, heap)
  \/ /\ s # << >>
     /\ \E b \in Unused :
          Allocated(p, s, b, [heap EXCEPT ![b] = [cap |-> Len(s), data |-> << >>]])
  \/ s # << >> /\ ("kmalloc" \in Faults \/ Unused = {}) /\ OutOfMemory(p)

\* Mistake: room for the new bytes only.
KreallocForNewBytes(p, s) ==
  LET old == preserved.buffptr
      cap == Len(s)
  IN \/ /\ old # NULL
        /\ \E b \in Unused \cup {old} :
             Allocated(p, s, b, [kfree(heap, old) EXCEPT
                                   ![b] = [cap |-> cap, data |-> heap[old].data]])
     \/ ("krealloc" \in Faults \/ old = NULL) /\ OutOfMemory(p)

(* krealloc keeps the block or moves it.  Given NULL, as after a failure,  *)
(* it allocates a block of which the first `size` bytes are whatever they  *)
(* were.                                                                   *)
krealloc(p, s) ==
  LET old == preserved.buffptr
      cap == preserved.size + Len(s)
  IN \/ /\ old # NULL
        /\ \E b \in Unused \cup {old} :
             Allocated(p, s, b, [kfree(heap, old) EXCEPT
                                   ![b] = [cap |-> cap, data |-> heap[old].data]])
     \/ /\ old = NULL
        /\ \E b \in Unused : \E junk \in [1 .. preserved.size -> Byte] :
             Allocated(p, s, b, [heap EXCEPT ![b] = [cap |-> cap, data |-> junk]])
     \/ /\ "krealloc" \in Faults \/ (old = NULL /\ Unused = {})
        /\ OutOfMemory(p)

\* Bound: only so many bytes may wait for their newline.
InBound(s) == Contains(s, NL) \/ preserved.size + Len(s) <= MaxPartial

Allocate(p) ==
  /\ pc[p] = "alloc"
  /\ \E s \in Inputs :
       /\ InBound(s)
       /\ IF preserved.size = 0 THEN kmalloc(p, s) ELSE krealloc(p, s)
  /\ UNCHANGED <<mutex, cb, f_pos, search>>

\* Mistake: copies to the start of the block, over the bytes kept there.
CopyFromUserOverPreserved(p) ==
  /\ pc[p] = "copy"
  /\ \E k \in 0 .. Len(ubuf[p]) :
       LET copied == SubSeq(ubuf[p], 1, k) IN
       /\ k = Len(ubuf[p]) \/ ("copy" \in Faults /\ InBound(copied))
       /\ heap' = [b \in Blocks |->
                     IF b = preserved.buffptr
                     THEN [heap[b] EXCEPT !.data = copied \o SubSeq(@, k + 1, Len(@))]
                     ELSE heap[b]]
       /\ preserved' = [preserved EXCEPT !.size = @ + k]
       /\ ubuf' = [ubuf EXCEPT ![p] = copied]
  /\ Goto(p, "insert")
  /\ UNCHANGED <<mutex, cb, f_pos, search, reply>>

\* Mistake: the bytes that copy_from_user leaves out are counted as written.
CopyFromUserCountingAll(p) ==
  /\ pc[p] = "copy"
  /\ \E k \in 0 .. Len(ubuf[p]) :
       LET copied == SubSeq(ubuf[p], 1, k) IN
       /\ k = Len(ubuf[p]) \/ ("copy" \in Faults /\ InBound(copied))
       /\ heap' = [b \in Blocks |-> IF b = preserved.buffptr
                                    THEN [heap[b] EXCEPT !.data = @ \o copied]
                                    ELSE heap[b]]
       /\ preserved' = [preserved EXCEPT !.size = @ + k]
       /\ UNCHANGED ubuf
  /\ Goto(p, "insert")
  /\ UNCHANGED <<mutex, cb, f_pos, search, reply>>

(* copy_from_user: all the bytes, or the first k if the process's memory   *)
(* is inaccessible from there on.                                          *)
CopyFromUser(p) ==
  /\ pc[p] = "copy"
  /\ \E k \in 0 .. Len(ubuf[p]) :
       LET copied == SubSeq(ubuf[p], 1, k) IN
       /\ \/ k = Len(ubuf[p])
          \/ "copy" \in Faults /\ InBound(copied)
       /\ heap' = [b \in Blocks |-> IF b = preserved.buffptr
                                    THEN [heap[b] EXCEPT !.data = @ \o copied]
                                    ELSE heap[b]]
       /\ preserved' = [preserved EXCEPT !.size = @ + k]
       /\ ubuf' = [ubuf EXCEPT ![p] = copied]
  /\ Goto(p, "insert")
  /\ UNCHANGED <<mutex, cb, f_pos, search, reply>>

(* The bytes memchr looks at: those of the entry being assembled. *)
PreservedBytes ==
  IF preserved.buffptr \in Blocks THEN heap[preserved.buffptr].data ELSE << >>

\* Mistake: the entry is not reset once it is in the buffer.
InsertWithoutReset(p) ==
  /\ pc[p] = "insert"
  /\ IF Contains(PreservedBytes, NL)
     THEN /\ cb' = aesd_circular_buffer_add_entry(cb, preserved)
          /\ heap' = kfree(heap, Overwritten(cb))
     ELSE UNCHANGED <<cb, heap>>
  /\ reply' = [reply EXCEPT ![p] = Len(ubuf[p])]
  /\ ubuf' = [ubuf EXCEPT ![p] = << >>]
  /\ Goto(p, "unlock")
  /\ UNCHANGED <<preserved, mutex, f_pos, search>>

\* Mistake: the block of the overwritten entry is not freed.
InsertWithoutFree(p) ==
  /\ pc[p] = "insert"
  /\ IF Contains(PreservedBytes, NL)
     THEN /\ cb' = aesd_circular_buffer_add_entry(cb, preserved)
          /\ preserved' = NoEntry
     ELSE UNCHANGED <<cb, preserved>>
  /\ reply' = [reply EXCEPT ![p] = Len(ubuf[p])]
  /\ ubuf' = [ubuf EXCEPT ![p] = << >>]
  /\ Goto(p, "unlock")
  /\ UNCHANGED <<heap, mutex, f_pos, search>>

Insert(p) ==
  /\ pc[p] = "insert"
  /\ IF Contains(PreservedBytes, NL)
     THEN /\ cb' = aesd_circular_buffer_add_entry(cb, preserved)
          /\ heap' = kfree(heap, Overwritten(cb))
          /\ preserved' = NoEntry
     ELSE UNCHANGED <<cb, heap, preserved>>
  /\ reply' = [reply EXCEPT ![p] = Len(ubuf[p])]
  /\ ubuf' = [ubuf EXCEPT ![p] = << >>]
  /\ Goto(p, "unlock")
  /\ UNCHANGED <<mutex, f_pos, search>>

-----------------------------------------------------------------------------
Find(p) ==
  /\ pc[p] = "find"
  /\ search' = [search EXCEPT ![p] = FindEntry(f_pos[p])]
  /\ Goto(p, "search")
  /\ UNCHANGED <<mutex, cb, preserved, heap, f_pos, ubuf, reply>>

Search(p) ==
  LET next == FindIteration(cb, search[p]) IN
  /\ pc[p] = "search"
  /\ search' = [search EXCEPT ![p] = next]
  /\ \/ next.at = "searching" /\ UNCHANGED <<pc, reply>>
     \/ next.at = "found" /\ Goto(p, "copy_to_user") /\ UNCHANGED reply
     \/ /\ next.at = "none"
        /\ reply' = [reply EXCEPT ![p] = 0]
        /\ Goto(p, "unlock")
  /\ UNCHANGED <<mutex, cb, preserved, heap, f_pos, ubuf>>

\* The entry a read has found.
FoundEntry(p) == cb.entry[SlotOf(cb, search[p])]

(* The test of line 114 never holds: an entry in the buffer has a block.   *)
CopyToUser(p) ==
  LET offset == search[p].offset
      remaining == FoundEntry(p).size - offset
  IN
  /\ pc[p] = "copy_to_user"
  /\ \E count \in Counts :
       LET n == IF remaining > count THEN count ELSE remaining IN
       \E k \in IF "copy" \in Faults THEN 0 .. n ELSE {n} :
         /\ ubuf' = [ubuf EXCEPT ![p] = SubSeq(heap[FoundEntry(p).buffptr].data,
                                               offset + 1, offset + k)]
         /\ reply' = [reply EXCEPT ![p] = k]
         /\ f_pos' = [f_pos EXCEPT ![p] = @ + k]
  /\ search' = [search EXCEPT ![p] = NoSearch]
  /\ Goto(p, "unlock")
  /\ UNCHANGED <<mutex, cb, preserved, heap>>

-----------------------------------------------------------------------------
(* A step of a call that depends on nobody else. *)
Step(p) ==
  \/ Unlock(p) \/ Return(p)
  \/ Allocate(p) \/ CopyFromUser(p) \/ Insert(p)
  \/ Find(p) \/ Search(p) \/ CopyToUser(p)

Next ==
  \/ aesd_cleanup_module \/ aesd_init_module
  \/ \E p \in Procs :
    \/ aesd_open(p) \/ aesd_release(p)
    \/ Call(p) \/ NullBuffer(p) \/ Lock(p) \/ Interrupted(p) \/ Step(p)

Spec == Init /\ [][Next]_vars

(* A process inside a call runs, and the mutex is handed to its waiters in *)
(* turn; nobody has to make a call or to be interrupted.                   *)
FairSpec == Spec /\ \A p \in Procs : WF_vars(Step(p)) /\ SF_vars(Lock(p))

=============================================================================
