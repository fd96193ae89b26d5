--------------------------- MODULE AesdCharProofs ---------------------------
(***************************************************************************)
(* Theorems about the char driver, for any number of processes, slots and  *)
(* blocks and whatever may fail: who is inside the device, that no call     *)
(* reaches memory that is freed or too small, that the device is a log, and *)
(* when a block leaves the driver's reach.                                 *)
(***************************************************************************)
EXTENDS AesdCharProperties, CircularBufferLemmas, SequenceLemmas, FiniteSetTheorems

(* What the invariants rest on: a search is where its call is, and only an *)
(* entry without bytes points at the block of size zero.                   *)
CallState ==
  /\ \A p \in Procs : /\ pc[p] = "search" => search[p].at = "searching"
                      /\ pc[p] = "copy_to_user" => search[p].at = "found"
  /\ preserved.buffptr = ZERO_SIZE_PTR => preserved.size = 0

(* The inductive invariant behind the driver's own properties.             *)
IInv ==
  /\ TypeOK
  /\ MutualExclusion
  /\ BufferOK
  /\ EntriesOwnBlocks
  /\ CopiesFit
  /\ CallState

(* It holds when the module has been loaded.                               *)
LEMMA InitIInv == Init => IInv
<1> SUFFICES ASSUME Init PROVE IInv
  OBVIOUS
<1> USE DEF Init
<1>1. cb \in BuffersOf(Entries) /\ OffsetsAgreeOn(cb, Entries)
  BY InitConsistent
<1>2. Live = {}
  BY DEF Live, aesd_circular_buffer_init
<1>3. << >> \in Seq(Byte)
  BY EmptySeq
<1>4. TypeOK
  BY <1>1, <1>3, SlotsAssumption
     DEF TypeOK, NoEntry, Free, Labels, Holding, NoSearch, Searches, Slot
<1>5. MutualExclusion
  BY ProcsAssumption DEF MutualExclusion, Holding
<1>6. EntriesOwnBlocks
  BY <1>2, BlocksAssumption DEF EntriesOwnBlocks, NoEntry
<1>7. CopiesFit /\ CallState
  BY DEF CopiesFit, CallState, NoEntry
<1> QED BY <1>1, <1>4, <1>5, <1>6, <1>7 DEF IInv, BufferOK

-----------------------------------------------------------------------------
(* Steps that touch neither the buffer, nor the entry being assembled, nor *)
(* the heap.                                                               *)
OnlyCall == UNCHANGED <<cb, preserved, heap>>

(* A step that changes nothing but calls leaves the memory as it was.      *)
LEMMA OnlyCallKeepsMemory ==
  ASSUME IInv, OnlyCall
  PROVE  BufferOK' /\ EntriesOwnBlocks'
BY DEF IInv, OnlyCall, BufferOK, OffsetsAgreeOn, EntriesOwnBlocks, Live, Unused

(* Opening and closing the file, starting and ending a call, and waiting   *)
(* for the mutex in vain move a process between labels without the mutex.  *)
LEMMA OutsideIInv ==
  ASSUME IInv, NEW p \in Procs,
         \/ aesd_open(p) \/ aesd_release(p) \/ Call(p) \/ NullBuffer(p)
         \/ Interrupted(p) \/ Return(p)
  PROVE  IInv'
<1> USE DEF aesd_open, aesd_release, Call, NullBuffer, Interrupted, Return, Goto
<1>1. TypeOK'
  <2>1. CASE aesd_open(p)
    BY <2>1 DEF IInv, TypeOK, Labels, Holding
  <2>2. CASE aesd_release(p) \/ Call(p)
    BY <2>2 DEF IInv, TypeOK, Labels, Holding
  <2>3. CASE NullBuffer(p) \/ Interrupted(p)
    <3>1. reply' \in [Procs -> Int \cup {NoReply}]
      BY <2>3 DEF IInv, TypeOK, ERESTARTSYS, EFAULT
    <3>2. pc' \in [Procs -> Labels]
      BY <2>3 DEF IInv, TypeOK, Labels
    <3> QED BY <2>3, <3>1, <3>2 DEF IInv, TypeOK
  <2>4. CASE Return(p)
    <3>1. << >> \in Seq(Byte)
      BY EmptySeq
    <3> QED BY <2>4, <3>1 DEF IInv, TypeOK, Labels, Holding
  <2> QED BY <2>1, <2>2, <2>3, <2>4
<1>2. MutualExclusion'
  BY DEF IInv, TypeOK, MutualExclusion, Holding
<1>3. BufferOK' /\ EntriesOwnBlocks'
  BY OnlyCallKeepsMemory DEF OnlyCall
<1>4. CopiesFit'
  BY DEF IInv, TypeOK, CopiesFit, Live, SlotOf, SlotAt, FoundEntry
<1>5. CallState'
  BY DEF IInv, TypeOK, CallState
<1> QED BY <1>1, <1>2, <1>3, <1>4, <1>5 DEF IInv

(* Unloading and loading happen with nobody inside; loading clears what    *)
(* the other conjuncts speak of.                                           *)
LEMMA ModuleIInv ==
  ASSUME IInv, aesd_cleanup_module \/ aesd_init_module
  PROVE  IInv'
<1>1. \A p \in Procs : pc[p] \notin Holding /\ pc'[p] \notin Holding
  BY DEF aesd_cleanup_module, aesd_init_module, Holding
<1>2. CASE aesd_cleanup_module
  <2> USE <1>2 DEF aesd_cleanup_module
  <2>1. TypeOK'
    BY DEF IInv, TypeOK, Labels
  <2>2. MutualExclusion'
    BY <1>1 DEF IInv, MutualExclusion
  <2>3. BufferOK' /\ EntriesOwnBlocks'
    BY OnlyCallKeepsMemory DEF OnlyCall
  <2>4. CopiesFit' /\ CallState'
    BY <1>1 DEF IInv, CopiesFit, CallState, Holding
  <2> QED BY <2>1, <2>2, <2>3, <2>4 DEF IInv
<1>3. CASE aesd_init_module
  <2> USE <1>3 DEF aesd_init_module
  <2>1. cb' \in BuffersOf(Entries) /\ OffsetsAgreeOn(cb', Entries)
    BY InitConsistent
  <2>2. Live' = {}
    BY DEF Live, aesd_circular_buffer_init
  <2>3. TypeOK'
    BY <2>1 DEF IInv, TypeOK, NoEntry, Labels
  <2>4. MutualExclusion'
    BY <1>1, ProcsAssumption DEF MutualExclusion
  <2>5. BufferOK'
    BY <2>1 DEF BufferOK
  <2>6. EntriesOwnBlocks'
    BY <2>2, BlocksAssumption DEF EntriesOwnBlocks, NoEntry
  <2>7. CopiesFit' /\ CallState'
    BY <1>1 DEF CopiesFit, CallState, Holding, NoEntry
  <2> QED BY <2>3, <2>4, <2>5, <2>6, <2>7 DEF IInv
<1> QED BY <1>2, <1>3

(* The lock lets a process in only when nobody is.                         *)
LEMMA LockIInv ==
  ASSUME IInv, NEW p \in Procs, Lock(p)
  PROVE  IInv'
<1> USE DEF Lock, Goto
<1>1. TypeOK'
  BY DEF IInv, TypeOK, Labels, Holding
<1>2. MutualExclusion'
  BY ProcsAssumption DEF IInv, TypeOK, MutualExclusion, Holding
<1>3. BufferOK' /\ EntriesOwnBlocks'
  BY OnlyCallKeepsMemory DEF OnlyCall
<1>4. CopiesFit'
  BY DEF IInv, TypeOK, CopiesFit, Live, SlotOf, SlotAt, FoundEntry
<1>5. CallState'
  BY DEF IInv, TypeOK, CallState
<1> QED BY <1>1, <1>2, <1>3, <1>4, <1>5 DEF IInv

(* The process that leaves is the one that held the mutex.                 *)
LEMMA UnlockIInv ==
  ASSUME IInv, NEW p \in Procs, Unlock(p)
  PROVE  IInv'
<1> USE DEF Unlock, Goto
<1>1. TypeOK'
  BY DEF IInv, TypeOK, Labels, Holding
<1>2. MutualExclusion'
  BY ProcsAssumption DEF IInv, TypeOK, MutualExclusion, Holding
<1>3. BufferOK' /\ EntriesOwnBlocks'
  BY OnlyCallKeepsMemory DEF OnlyCall
<1>4. CopiesFit'
  BY DEF IInv, TypeOK, CopiesFit, Live, SlotOf, SlotAt, FoundEntry
<1>5. CallState'
  BY DEF IInv, TypeOK, CallState
<1> QED BY <1>1, <1>2, <1>3, <1>4, <1>5 DEF IInv

-----------------------------------------------------------------------------
(* The steps of a read. *)
LEMMA FindIInv ==
  ASSUME IInv, NEW p \in Procs, Find(p)
  PROVE  IInv'
<1> USE DEF Find, Goto
<1>1. TypeOK'
  <2>1. FindEntry(f_pos[p]) \in Searches
    BY SlotsAssumption DEF IInv, TypeOK, FindEntry, Searches, Slot
  <2> QED BY <2>1 DEF IInv, TypeOK, Labels, Holding
<1>2. MutualExclusion'
  BY DEF IInv, TypeOK, MutualExclusion, Holding
<1>3. BufferOK' /\ EntriesOwnBlocks'
  BY OnlyCallKeepsMemory DEF OnlyCall
<1>4. CopiesFit'
  BY DEF IInv, TypeOK, CopiesFit, Live, SlotOf, SlotAt, FoundEntry
<1>5. CallState'
  BY DEF IInv, TypeOK, CallState, FindEntry
<1> QED BY <1>1, <1>2, <1>3, <1>4, <1>5 DEF IInv

(* A search that finds a position names an entry with that byte.           *)
LEMMA SearchIInv ==
  ASSUME IInv, NEW p \in Procs, Search(p)
  PROVE  IInv'
<1> DEFINE next == FindIteration(cb, search[p])
<1>0. /\ pc[p] = "search"
      /\ search' = [search EXCEPT ![p] = next]
      /\ \/ next.at = "searching" /\ UNCHANGED <<pc, reply>>
         \/ next.at = "found" /\ pc' = [pc EXCEPT ![p] = "copy_to_user"] /\ UNCHANGED reply
         \/ /\ next.at = "none" /\ pc' = [pc EXCEPT ![p] = "unlock"]
            /\ reply' = [reply EXCEPT ![p] = 0]
      /\ UNCHANGED <<mutex, cb, preserved, heap, f_pos, ubuf>>
  BY DEF Search, Goto
<1>6. /\ next \in Searches
      /\ next.at = "found" => /\ SlotOf(cb, next) \in Slot
                              /\ cb.entry[SlotOf(cb, next)] \in Entries
                              /\ next.offset < cb.entry[SlotOf(cb, next)].size
  <2>1. cb \in BuffersOf(Entries) /\ search[p] \in Searches /\ search[p].at = "searching"
    BY <1>0 DEF IInv, TypeOK, CallState
  <2>2. \A e \in Entries : e.size \in Nat \ {0}
    BY DEF Entries
  <2> QED BY <2>1, <2>2, FindIterationProperties
<1> HIDE DEF next
<1>1. TypeOK'
  <2>1. search' \in [Procs -> Searches]
    BY <1>0, <1>6 DEF IInv, TypeOK
  <2>2. pc' \in [Procs -> Labels] /\ reply' \in [Procs -> Int \cup {NoReply}]
    <3>1. pc \in [Procs -> Labels] /\ reply \in [Procs -> Int \cup {NoReply}]
      BY DEF IInv, TypeOK
    <3>2. {"copy_to_user", "unlock"} \subseteq Labels
      BY DEF Labels, Holding
    <3> QED BY <1>0, <3>1, <3>2
  <2> QED BY <1>0, <2>1, <2>2 DEF IInv, TypeOK
<1>2. MutualExclusion'
  BY <1>0 DEF IInv, TypeOK, MutualExclusion, Holding
<1>3. BufferOK' /\ EntriesOwnBlocks'
  BY <1>0, OnlyCallKeepsMemory DEF OnlyCall
<1>4. CopiesFit'
  <2> SUFFICES ASSUME NEW q \in Procs, pc'[q] = "copy_to_user"
               PROVE  /\ SlotOf(cb', search'[q]) \in Live'
                      /\ search'[q].offset < FoundEntry(q)'.size
    BY <1>0 DEF IInv, TypeOK, CopiesFit
  <2>1. CASE q = p
    <3>1. search'[q] = next /\ next.at = "found"
      BY <1>0, <2>1 DEF IInv, TypeOK
    <3>2. cb.entry[SlotOf(cb, next)] # NoEntry
      BY <1>6, <3>1, BlocksAssumption DEF Entries, NoEntry
    <3> QED BY <1>0, <1>6, <3>1, <3>2 DEF Live, FoundEntry, SlotOf, SlotAt
  <2>2. CASE q # p
    BY <1>0, <2>2 DEF IInv, TypeOK, CopiesFit, Live, SlotOf, SlotAt, FoundEntry
  <2> QED BY <2>1, <2>2
<1>5. CallState'
  BY <1>0 DEF IInv, TypeOK, CallState
<1> QED BY <1>1, <1>2, <1>3, <1>4, <1>5 DEF IInv

(* A read copies bytes of the entry found and moves its own position.      *)
LEMMA CopyToUserIInv ==
  ASSUME IInv, NEW p \in Procs, CopyToUser(p)
  PROVE  IInv'
<1> DEFINE e == FoundEntry(p)
           data == heap[e.buffptr].data
           offset == search[p].offset
<1>1. /\ e \in Entries
      /\ data \in Seq(Byte) /\ Len(data) = e.size
      /\ offset \in Nat /\ offset < e.size
  <2>1. pc[p] = "copy_to_user"
    BY DEF CopyToUser
  <2>2. /\ SlotOf(cb, search[p]) \in Live
        /\ search[p].offset < e.size
    BY <2>1 DEF IInv, CopiesFit
  <2>3. e \in Entries
    BY <2>2 DEF IInv, TypeOK, Live, BuffersOf, FoundEntry
  <2>4. data \in Seq(Byte)
    BY <2>3 DEF IInv, TypeOK, Entries
  <2>5. Len(data) = e.size
    BY <2>2 DEF IInv, EntriesOwnBlocks, FoundEntry
  <2> QED BY <2>2, <2>3, <2>4, <2>5 DEF IInv, TypeOK, Searches
<1> HIDE DEF e, data, offset
<1>2. PICK k \in Nat :
        /\ k <= e.size - offset
        /\ ubuf' = [ubuf EXCEPT ![p] = SubSeq(data, offset + 1, offset + k)]
        /\ reply' = [reply EXCEPT ![p] = k]
        /\ f_pos' = [f_pos EXCEPT ![p] = @ + k]
  <2>1. PICK count \in Counts :
          LET n == IF e.size - offset > count THEN count ELSE e.size - offset IN
          \E k \in IF "copy" \in Faults THEN 0 .. n ELSE {n} :
            /\ ubuf' = [ubuf EXCEPT ![p] = SubSeq(data, offset + 1, offset + k)]
            /\ reply' = [reply EXCEPT ![p] = k]
            /\ f_pos' = [f_pos EXCEPT ![p] = @ + k]
    BY DEF CopyToUser, e, data, offset
  <2>2. count \in Nat
    BY BytesAssumption
  <2>3. e.size \in Nat
    BY <1>1 DEF Entries
  <2> DEFINE n == IF e.size - offset > count THEN count ELSE e.size - offset
  <2>4. n \in Nat /\ n <= e.size - offset
    BY <1>1, <2>2, <2>3
  <2>5. PICK k \in IF "copy" \in Faults THEN 0 .. n ELSE {n} :
            /\ ubuf' = [ubuf EXCEPT ![p] = SubSeq(data, offset + 1, offset + k)]
            /\ reply' = [reply EXCEPT ![p] = k]
            /\ f_pos' = [f_pos EXCEPT ![p] = @ + k]
    BY <2>1
  <2> HIDE DEF n
  <2>6. k \in Nat /\ k <= e.size - offset
    BY <1>1, <2>3, <2>4, <2>5
  <2> QED BY <2>5, <2>6
<1>3. SubSeq(data, offset + 1, offset + k) \in Seq(Byte)
  <2>1. \A i \in offset + 1 .. offset + k : i \in 1 .. Len(data)
    BY <1>1, <1>2 DEF Entries
  <2>2. \A i \in offset + 1 .. offset + k : data[i] \in Byte
    BY <1>1, <2>1, ElementOfSeq
  <2>3. offset + 1 \in Int /\ offset + k \in Int
    BY <1>1, <1>2
  <2> QED BY <2>2, <2>3, SubSeqProperties
<1>4. /\ pc[p] = "copy_to_user"
      /\ pc' = [pc EXCEPT ![p] = "unlock"]
      /\ search' = [search EXCEPT ![p] = NoSearch]
      /\ UNCHANGED <<mutex, cb, preserved, heap>>
  BY DEF CopyToUser, Goto
<1>5. TypeOK'
  <2>1. NoSearch \in Searches
    BY SlotsAssumption DEF NoSearch, Searches, Slot
  <2>2. ubuf' \in [Procs -> Seq(Byte)]
    BY <1>2, <1>3 DEF IInv, TypeOK
  <2>3. /\ reply' \in [Procs -> Int \cup {NoReply}]
        /\ f_pos' \in [Procs -> Nat]
    BY <1>2 DEF IInv, TypeOK
  <2>4. pc' \in [Procs -> Labels]
    BY <1>4 DEF IInv, TypeOK, Labels, Holding
  <2>5. search' \in [Procs -> Searches]
    BY <1>4, <2>1 DEF IInv, TypeOK
  <2> QED BY <1>4, <2>2, <2>3, <2>4, <2>5 DEF IInv, TypeOK
<1>6. MutualExclusion'
  BY <1>4 DEF IInv, TypeOK, MutualExclusion, Holding
<1>7. BufferOK' /\ EntriesOwnBlocks'
  BY <1>4, OnlyCallKeepsMemory DEF OnlyCall
<1>8. CopiesFit'
  BY <1>2, <1>4 DEF IInv, TypeOK, CopiesFit, Live, SlotOf, SlotAt, FoundEntry
<1>9. CallState'
  BY <1>4 DEF IInv, TypeOK, CallState
<1> QED BY <1>5, <1>6, <1>7, <1>8, <1>9 DEF IInv

-----------------------------------------------------------------------------
(* The steps of a write.  While one process holds the mutex no other one   *)
(* is between its lock and its unlock.                                     *)
LEMMA Alone ==
  ASSUME IInv, NEW p \in Procs, pc[p] \in Holding, NEW q \in Procs, q # p
  PROVE  pc[q] \notin Holding
BY DEF IInv, MutualExclusion

(* The entry being assembled moves to block b, with room for the bytes s   *)
(* and those it has: no other entry is affected.                           *)
LEMMA MovedIInv ==
  ASSUME IInv, NEW p \in Procs, pc[p] = "alloc",
         NEW s \in Seq(Byte),
         NEW b \in Blocks, b \in Unused \cup {preserved.buffptr},
         heap' \in [Blocks -> [cap : Nat, data : Seq(Byte)]],
         \A c \in Blocks : c \notin Unused \cup {preserved.buffptr} => heap'[c] = heap[c],
         heap'[b].cap = preserved.size + Len(s),
         heap'[b].cap > 0,
         Len(heap'[b].data) = preserved.size,
         preserved' = [preserved EXCEPT !.buffptr = b],
         ubuf' = [ubuf EXCEPT ![p] = s],
         pc' = [pc EXCEPT ![p] = "copy"],
         UNCHANGED <<mutex, cb, f_pos, search, reply>>
  PROVE  IInv'
<1>1. TypeOK'
  BY DEF IInv, TypeOK, Labels, Holding
<1>2. MutualExclusion'
  BY DEF IInv, TypeOK, MutualExclusion, Holding
<1>3. BufferOK'
  BY DEF IInv, BufferOK, OffsetsAgreeOn
<1>4. preserved'.buffptr = b /\ preserved'.size = preserved.size
  BY DEF IInv, TypeOK
<1>5. b \notin Unused'
  BY DEF Unused, Free
<1>6. ASSUME NEW i \in Live
      PROVE  /\ cb.entry[i].buffptr \in Blocks
             /\ cb.entry[i].buffptr \notin Unused \cup {preserved.buffptr}
  BY DEF IInv, TypeOK, BuffersOf, Entries, EntriesOwnBlocks, Live
<1>7. EntriesOwnBlocks'
  BY <1>4, <1>5, <1>6 DEF IInv, EntriesOwnBlocks, Live, Unused
<1>8. CopiesFit'
  <2>1. ASSUME NEW q \in Procs, q # p
        PROVE  pc'[q] # "copy" /\ pc'[q] # "copy_to_user"
    BY <2>1, Alone DEF Holding, IInv, TypeOK
  <2>2. pc'[p] = "copy" /\ ubuf'[p] = s
    BY DEF IInv, TypeOK
  <2> QED BY <1>4, <2>1, <2>2 DEF IInv, TypeOK, CopiesFit
<1>9. CallState'
  BY <1>4, BlocksAssumption DEF IInv, TypeOK, CallState
<1> QED BY <1>1, <1>2, <1>3, <1>7, <1>8, <1>9 DEF IInv

(* Allocation fails: the entry keeps its size and loses its block. *)
LEMMA OutOfMemoryIInv ==
  ASSUME IInv, NEW p \in Procs, pc[p] = "alloc", OutOfMemory(p),
         UNCHANGED <<mutex, cb, f_pos, search>>
  PROVE  IInv'
<1> USE DEF OutOfMemory, Goto
<1>1. preserved'.buffptr = NULL /\ preserved'.size = preserved.size
  BY DEF IInv, TypeOK
<1>2. TypeOK'
  <2>1. preserved' \in [buffptr : Blocks \cup {NULL, ZERO_SIZE_PTR}, size : Nat]
    BY DEF IInv, TypeOK
  <2>2. pc' \in [Procs -> Labels]
    BY DEF IInv, TypeOK, Labels, Holding
  <2>3. reply' \in [Procs -> Int \cup {NoReply}]
    BY DEF IInv, TypeOK, ENOMEM
  <2> QED BY <2>1, <2>2, <2>3 DEF IInv, TypeOK
<1>3. MutualExclusion'
  BY DEF IInv, TypeOK, MutualExclusion, Holding
<1>4. BufferOK'
  BY DEF IInv, BufferOK, OffsetsAgreeOn
<1>5. ASSUME NEW i \in Live
      PROVE  cb.entry[i].buffptr \in Blocks
  BY DEF IInv, TypeOK, BuffersOf, Entries, EntriesOwnBlocks, Live
<1>6. EntriesOwnBlocks'
  BY <1>1, <1>5, BlocksAssumption DEF IInv, EntriesOwnBlocks, Live, Unused
<1>7. CopiesFit'
  <2>1. ASSUME NEW q \in Procs
        PROVE  pc'[q] # "copy" /\ pc'[q] # "copy_to_user"
    BY Alone DEF Holding, IInv, TypeOK
  <2> QED BY <2>1 DEF CopiesFit
<1>8. CallState'
  BY <1>1, BlocksAssumption DEF IInv, TypeOK, CallState
<1> QED BY <1>2, <1>3, <1>4, <1>6, <1>7, <1>8 DEF IInv

(* The first bytes of an entry get a block nobody has, or none.            *)
LEMMA KmallocIInv ==
  ASSUME IInv, NEW p \in Procs, pc[p] = "alloc", preserved.size = 0,
         NEW s \in Seq(Byte), kmalloc(p, s),
         UNCHANGED <<mutex, cb, f_pos, search>>
  PROVE  IInv'
<1>1. CASE s = << >> /\ Allocated(p, s, ZERO_SIZE_PTR, heap)
  <2> USE <1>1 DEF Allocated, Goto
  <2>1. preserved'.buffptr = ZERO_SIZE_PTR /\ preserved'.size = 0
    BY DEF IInv, TypeOK
  <2>2. TypeOK'
    BY DEF IInv, TypeOK, Labels, Holding
  <2>3. MutualExclusion'
    BY DEF IInv, TypeOK, MutualExclusion, Holding
  <2>4. BufferOK'
    BY DEF IInv, BufferOK, OffsetsAgreeOn
  <2>5. ASSUME NEW i \in Live
        PROVE  cb.entry[i].buffptr \in Blocks
    BY DEF IInv, TypeOK, BuffersOf, Entries, EntriesOwnBlocks, Live
  <2>6. EntriesOwnBlocks'
    BY <2>1, <2>5, BlocksAssumption DEF IInv, EntriesOwnBlocks, Live, Unused
  <2>7. CopiesFit'
    <3>1. ASSUME NEW q \in Procs, q # p
          PROVE  pc'[q] # "copy" /\ pc'[q] # "copy_to_user"
      BY <3>1, Alone DEF Holding, IInv, TypeOK
    <3>2. pc'[p] = "copy" /\ ubuf'[p] = << >>
      BY DEF IInv, TypeOK
    <3> QED BY <3>1, <3>2 DEF CopiesFit
  <2>8. CallState'
    BY <2>1 DEF IInv, TypeOK, CallState
  <2> QED BY <2>2, <2>3, <2>4, <2>6, <2>7, <2>8 DEF IInv
<1>2. ASSUME s # << >>, NEW b \in Unused,
             Allocated(p, s, b, [heap EXCEPT ![b] = [cap |-> Len(s), data |-> << >>]])
      PROVE  IInv'
  <2> USE <1>2 DEF Allocated, Goto
  <2>1. b \in Blocks
    BY DEF Unused
  <2>2. Len(s) \in Nat /\ Len(s) > 0
    BY EmptySeq
  <2>3. << >> \in Seq(Byte) /\ Len(<< >>) = 0
    BY EmptySeq
  <2>4. /\ heap' \in [Blocks -> [cap : Nat, data : Seq(Byte)]]
        /\ heap'[b] = [cap |-> Len(s), data |-> << >>]
        /\ \A c \in Blocks : c # b => heap'[c] = heap[c]
    BY <2>1, <2>2, <2>3 DEF IInv, TypeOK
  <2>5. /\ heap'[b].cap = preserved.size + Len(s) /\ heap'[b].cap > 0
        /\ Len(heap'[b].data) = preserved.size
    BY <2>2, <2>3, <2>4
  <2> QED BY <2>1, <2>4, <2>5, MovedIInv
<1>3. CASE OutOfMemory(p)
  BY <1>3, OutOfMemoryIInv
<1> QED BY <1>1, <1>2, <1>3 DEF kmalloc

(* A function on 1 .. n is a sequence of length n.                         *)
LEMMA FunctionIsSeq ==
  ASSUME NEW S, NEW n \in Nat, NEW f \in [1 .. n -> S]
  PROVE  f \in Seq(S) /\ Len(f) = n
<1>1. f \in Seq(S)
  BY SeqDef
<1> QED BY <1>1, LenProperties

(* More bytes of an entry: its block grows, moves to one nobody has, or is *)
(* lost when krealloc fails.                                               *)
LEMMA KreallocIInv ==
  ASSUME IInv, NEW p \in Procs, pc[p] = "alloc", preserved.size # 0,
         NEW s \in Seq(Byte), krealloc(p, s),
         UNCHANGED <<mutex, cb, f_pos, search>>
  PROVE  IInv'
<1> DEFINE old == preserved.buffptr
           cap == preserved.size + Len(s)
<1>1. /\ preserved.size \in Nat
      /\ cap \in Nat /\ cap > 0
      /\ old \in Blocks \cup {NULL}
  BY LenProperties DEF IInv, TypeOK, CallState
<1>2. ASSUME old # NULL, NEW b \in Unused \cup {old},
             Allocated(p, s, b, [kfree(heap, old) EXCEPT
                                   ![b] = [cap |-> cap, data |-> heap[old].data]])
      PROVE  IInv'
  <2> USE <1>2 DEF Allocated, Goto
  <2>1. old \in Blocks /\ b \in Blocks
    BY <1>1 DEF Unused
  <2>2. heap[old].data \in Seq(Byte) /\ Len(heap[old].data) = preserved.size
    BY <2>1 DEF IInv, TypeOK, EntriesOwnBlocks
  <2>3. Free \in [cap : Nat, data : Seq(Byte)]
    BY EmptySeq DEF Free
  <2>4. /\ heap' \in [Blocks -> [cap : Nat, data : Seq(Byte)]]
        /\ heap'[b] = [cap |-> cap, data |-> heap[old].data]
        /\ \A c \in Blocks : c # b /\ c # old => heap'[c] = heap[c]
    BY <1>1, <2>1, <2>2, <2>3 DEF IInv, TypeOK, kfree
  <2> QED BY <1>1, <2>1, <2>2, <2>4, MovedIInv
<1>3. ASSUME NEW b \in Unused, NEW junk \in [1 .. preserved.size -> Byte],
             Allocated(p, s, b, [heap EXCEPT ![b] = [cap |-> cap, data |-> junk]])
      PROVE  IInv'
  <2> USE <1>3 DEF Allocated, Goto
  <2>1. b \in Blocks
    BY DEF Unused
  <2>2. junk \in Seq(Byte)
    BY <1>1, FunctionIsSeq
  <2>3. Len(junk) = preserved.size
    BY <1>1, FunctionIsSeq
  <2>4. /\ heap' \in [Blocks -> [cap : Nat, data : Seq(Byte)]]
        /\ heap'[b] = [cap |-> cap, data |-> junk]
        /\ \A c \in Blocks : c # b => heap'[c] = heap[c]
    BY <1>1, <2>1, <2>2 DEF IInv, TypeOK
  <2> QED BY <1>1, <2>1, <2>2, <2>3, <2>4, MovedIInv
<1>4. CASE OutOfMemory(p)
  BY <1>4, OutOfMemoryIInv
<1> QED BY <1>2, <1>3, <1>4 DEF krealloc

(* A write gets room for its bytes, or gives up.                           *)
LEMMA AllocateIInv ==
  ASSUME IInv, NEW p \in Procs, Allocate(p)
  PROVE  IInv'
BY KmallocIInv, KreallocIInv, BytesAssumption DEF Allocate

(* The bytes copied go behind those the entry already has.                 *)
LEMMA CopyFromUserIInv ==
  ASSUME IInv, NEW p \in Procs, CopyFromUser(p)
  PROVE  IInv'
<1>1. PICK k \in 0 .. Len(ubuf[p]) :
        LET copied == SubSeq(ubuf[p], 1, k) IN
        /\ heap' = [b \in Blocks |-> IF b = preserved.buffptr
                                     THEN [heap[b] EXCEPT !.data = @ \o copied]
                                     ELSE heap[b]]
        /\ preserved' = [preserved EXCEPT !.size = @ + k]
        /\ ubuf' = [ubuf EXCEPT ![p] = copied]
  BY DEF CopyFromUser
<1> DEFINE copied == SubSeq(ubuf[p], 1, k)
           ptr == preserved.buffptr
<1>2. /\ pc[p] = "copy"
      /\ pc' = [pc EXCEPT ![p] = "insert"]
      /\ UNCHANGED <<mutex, cb, f_pos, search, reply>>
  BY DEF CopyFromUser, Goto
<1>3. ubuf[p] \in Seq(Byte) /\ Len(ubuf[p]) \in Nat
  BY LenProperties DEF IInv, TypeOK
<1>4. copied \in Seq(Byte) /\ Len(copied) = k
  <2>1. \A i \in 1 .. k : ubuf[p][i] \in Byte
    BY <1>3, ElementOfSeq
  <2> QED BY <1>3, <2>1, SubSeqProperties
<1>5. ptr \notin Blocks => k = 0
  BY <1>2, <1>3, EmptySeq DEF IInv, CopiesFit
<1>6. /\ preserved'.buffptr = ptr
      /\ preserved'.size = preserved.size + k
      /\ preserved' \in [buffptr : Blocks \cup {NULL, ZERO_SIZE_PTR}, size : Nat]
  <2>1. k \in Nat
    BY <1>3
  <2>2. preserved' = [preserved EXCEPT !.size = @ + k]
    BY <1>1
  <2>3. preserved \in [buffptr : Blocks \cup {NULL, ZERO_SIZE_PTR}, size : Nat]
    BY DEF IInv, TypeOK
  <2> QED BY <2>1, <2>2, <2>3
<1> HIDE DEF copied, ptr
<1>7. ASSUME ptr \in Blocks
      PROVE  /\ heap[ptr].data \in Seq(Byte)
             /\ heap[ptr].data \o copied \in Seq(Byte)
             /\ Len(heap[ptr].data \o copied) = Len(heap[ptr].data) + k
  <2>1. heap[ptr].data \in Seq(Byte)
    BY <1>7 DEF IInv, TypeOK
  <2> QED BY <1>4, <2>1, ConcatProperties
<1>8. \A b \in Blocks : heap'[b] = IF b = ptr
                                   THEN [heap[b] EXCEPT !.data = @ \o copied]
                                   ELSE heap[b]
  BY <1>1 DEF copied, ptr
<1>9. heap' \in [Blocks -> [cap : Nat, data : Seq(Byte)]]
  <2>1. \A b \in Blocks : heap'[b] \in [cap : Nat, data : Seq(Byte)]
    <3> SUFFICES ASSUME NEW b \in Blocks
                 PROVE  heap'[b] \in [cap : Nat, data : Seq(Byte)]
      OBVIOUS
    <3>1. heap[b] \in [cap : Nat, data : Seq(Byte)]
      BY DEF IInv, TypeOK
    <3>2. CASE b = ptr
      BY <1>7, <1>8, <3>1, <3>2
    <3>3. CASE b # ptr
      BY <1>8, <3>1, <3>3
    <3> QED BY <3>2, <3>3
  <2>2. heap' = [b \in Blocks |-> heap'[b]]
    BY <1>1
  <2> QED BY <2>1, <2>2
<1>10. TypeOK'
  <2>1. ubuf' \in [Procs -> Seq(Byte)]
    BY <1>1, <1>4 DEF IInv, TypeOK, copied
  <2>2. pc' \in [Procs -> Labels]
    BY <1>2 DEF IInv, TypeOK, Labels, Holding
  <2> QED BY <1>2, <1>6, <1>9, <2>1, <2>2 DEF IInv, TypeOK
<1>11. MutualExclusion'
  BY <1>2 DEF IInv, TypeOK, MutualExclusion, Holding
<1>12. BufferOK'
  BY <1>2 DEF IInv, BufferOK, OffsetsAgreeOn
<1>13. EntriesOwnBlocks'
  <2>1. ASSUME NEW i \in Live
        PROVE  /\ cb.entry[i].buffptr \in Blocks
               /\ cb.entry[i].buffptr # ptr
               /\ heap'[cb.entry[i].buffptr] = heap[cb.entry[i].buffptr]
    BY <1>8 DEF IInv, TypeOK, BuffersOf, Entries, EntriesOwnBlocks, Live, ptr
  <2>2. ASSUME ptr \in Blocks
        PROVE  /\ heap'[ptr].cap = heap[ptr].cap
               /\ heap'[ptr].data = heap[ptr].data \o copied
    BY <1>8, <2>2 DEF IInv, TypeOK
  <2>3. ASSUME ptr \in Blocks
        PROVE  /\ heap[ptr] # Free
               /\ preserved.size = Len(heap[ptr].data)
    BY <2>3 DEF IInv, EntriesOwnBlocks, Unused, ptr
  <2>4. ASSUME ptr \in Blocks
        PROVE  heap'[ptr] # Free /\ preserved'.size = Len(heap'[ptr].data)
    <3>1. preserved'.size = Len(heap'[ptr].data)
      BY <1>6, <1>7, <2>2, <2>3, <2>4
    <3>2. ASSUME heap'[ptr] = Free
          PROVE  FALSE
      <4>0. heap'[ptr].cap = 0 /\ heap'[ptr].data = << >>
        BY <3>2 DEF Free
      <4>1. heap[ptr].cap = 0 /\ Len(heap[ptr].data \o copied) = 0
        <5>1. /\ heap'[ptr].cap = heap[ptr].cap
              /\ heap'[ptr].data = heap[ptr].data \o copied
          BY <2>2, <2>4
        <5> QED BY <4>0, <5>1, EmptySeq
      <4>2. heap[ptr].data = << >>
        BY <1>7, <2>4, <4>1, LenProperties, EmptySeq
      <4>3. heap[ptr] \in [cap : Nat, data : Seq(Byte)]
        BY <2>4 DEF IInv, TypeOK
      <4>4. heap[ptr] = Free
        BY <4>1, <4>2, <4>3 DEF Free
      <4> QED BY <2>3, <2>4, <4>4
    <3> QED BY <3>1, <3>2
  <2>5. Live' = Live
    BY <1>2 DEF Live
  <2> QED BY <1>2, <1>6, <2>1, <2>4, <2>5 DEF IInv, EntriesOwnBlocks, Unused, ptr
<1>14. CopiesFit'
  <2>1. ASSUME NEW q \in Procs
        PROVE  pc'[q] # "copy" /\ pc'[q] # "copy_to_user"
    BY <1>2, Alone DEF Holding, IInv, TypeOK
  <2> QED BY <2>1 DEF CopiesFit
<1>15. CallState'
  BY <1>2, <1>5, <1>6, BlocksAssumption DEF IInv, TypeOK, CallState, ptr
<1> QED BY <1>10, <1>11, <1>12, <1>13, <1>14, <1>15 DEF IInv

(* An entry with a newline moves into the buffer; the one it displaces is  *)
(* freed.                                                                  *)
LEMMA InsertIInv ==
  ASSUME IInv, NEW p \in Procs, Insert(p)
  PROVE  IInv'
<1>1. /\ pc[p] = "insert"
      /\ pc' = [pc EXCEPT ![p] = "unlock"]
      /\ reply' = [reply EXCEPT ![p] = Len(ubuf[p])]
      /\ ubuf' = [ubuf EXCEPT ![p] = << >>]
      /\ UNCHANGED <<mutex, f_pos, search>>
  BY DEF Insert, Goto
<1>2. /\ ubuf' \in [Procs -> Seq(Byte)]
      /\ reply' \in [Procs -> Int \cup {NoReply}]
      /\ pc' \in [Procs -> Labels]
  <2>1. << >> \in Seq(Byte) /\ Len(ubuf[p]) \in Nat
    BY EmptySeq, LenProperties DEF IInv, TypeOK
  <2>2. pc' \in [Procs -> Labels]
    BY <1>1 DEF IInv, TypeOK, Labels, Holding
  <2> QED BY <1>1, <2>1, <2>2 DEF IInv, TypeOK
<1>3. MutualExclusion'
  BY <1>1 DEF IInv, TypeOK, MutualExclusion, Holding
<1>4. CopiesFit'
  <2>1. ASSUME NEW q \in Procs
        PROVE  pc'[q] # "copy" /\ pc'[q] # "copy_to_user"
    BY <1>1, Alone DEF Holding, IInv, TypeOK
  <2> QED BY <2>1 DEF CopiesFit
<1>5. CASE UNCHANGED <<cb, heap, preserved>>
  <2>1. BufferOK' /\ EntriesOwnBlocks'
    BY <1>5, OnlyCallKeepsMemory DEF OnlyCall
  <2>2. TypeOK'
    BY <1>1, <1>2, <1>5 DEF IInv, TypeOK
  <2>3. CallState'
    BY <1>1, <1>5 DEF IInv, TypeOK, CallState
  <2> QED BY <1>3, <1>4, <2>1, <2>2, <2>3 DEF IInv
<1>6. ASSUME Contains(PreservedBytes, NL),
             cb' = aesd_circular_buffer_add_entry(cb, preserved),
             heap' = kfree(heap, Overwritten(cb)),
             preserved' = NoEntry
      PROVE  IInv'
  <2> DEFINE ptr == preserved.buffptr
             old == Overwritten(cb)
  <2>1. /\ ptr \in Blocks
        /\ ptr \notin Unused
        /\ preserved.size = Len(heap[ptr].data)
        /\ preserved \in Entries
    <3>1. PICK i \in 1 .. Len(PreservedBytes) : PreservedBytes[i] = NL
      BY <1>6 DEF Contains
    <3>2. ptr \in Blocks
      BY <3>1, EmptySeq DEF PreservedBytes
    <3>3. PreservedBytes = heap[ptr].data /\ heap[ptr].data \in Seq(Byte)
      BY <3>2 DEF PreservedBytes, IInv, TypeOK
    <3>4. Len(heap[ptr].data) \in Nat \ {0}
      BY <3>1, <3>3, LenProperties
    <3>5. ptr \notin Unused /\ preserved.size = Len(heap[ptr].data)
      BY <3>2 DEF IInv, EntriesOwnBlocks
    <3>6. preserved \in Entries
      BY <3>2, <3>4, <3>5 DEF IInv, TypeOK, Entries
    <3> QED BY <3>2, <3>5, <3>6
  <2>2. cb' \in BuffersOf(Entries) /\ BufferOK'
    BY <1>6, <2>1, AddEntryConsistent DEF IInv, TypeOK, BufferOK
  <2>3. ASSUME NEW i \in Slot
        PROVE  cb'.entry[i] = IF i = cb.in_offs THEN preserved ELSE cb.entry[i]
    BY <1>6 DEF IInv, TypeOK, BuffersOf, aesd_circular_buffer_add_entry
  <2>4. ASSUME NEW i \in Live
        PROVE  /\ i \in Slot
               /\ cb.entry[i] \in Entries
               /\ cb.entry[i].buffptr \in Blocks
               /\ cb.entry[i].buffptr \notin Unused
               /\ cb.entry[i].size = Len(heap[cb.entry[i].buffptr].data)
               /\ cb.entry[i].buffptr # ptr
    BY DEF IInv, TypeOK, BuffersOf, Entries, EntriesOwnBlocks, Live
  <2>5. ASSUME NEW i \in Live, i # cb.in_offs
        PROVE  cb.entry[i].buffptr # old
    <3>1. CASE cb.full
      <4>1. cb.in_offs = cb.out_offs /\ cb.in_offs \in Slot
        BY <3>1 DEF IInv, TypeOK, BufferOK, OffsetsAgreeOn, BuffersOf
      <4>2. cb.entry[cb.in_offs] \in Entries
        BY <3>1, <4>1 DEF IInv, BufferOK, OffsetsAgreeOn
      <4>3. cb.in_offs \in Live
        BY <4>1, <4>2, BlocksAssumption DEF Live, Entries, NoEntry
      <4> QED BY <2>5, <3>1, <4>1, <4>3 DEF IInv, EntriesOwnBlocks, Overwritten
    <3>2. CASE ~cb.full
      BY <2>4, <3>2, BlocksAssumption DEF Overwritten
    <3> QED BY <3>1, <3>2
  <2>6. ptr # old
    <3>1. CASE cb.full
      <4>1. cb.out_offs \in Slot /\ cb.entry[cb.out_offs] \in Entries
        BY <3>1 DEF IInv, TypeOK, BufferOK, OffsetsAgreeOn, BuffersOf
      <4>2. cb.out_offs \in Live
        BY <4>1, BlocksAssumption DEF Live, Entries, NoEntry
      <4> QED BY <2>4, <3>1, <4>2 DEF Overwritten
    <3>2. CASE ~cb.full
      BY <2>1, <3>2, BlocksAssumption DEF Overwritten
    <3> QED BY <3>1, <3>2
  <2> HIDE DEF ptr, old
  <2>7. /\ \A c \in Blocks : c # old => heap'[c] = heap[c]
        /\ heap' \in [Blocks -> [cap : Nat, data : Seq(Byte)]]
    <3>1. Free \in [cap : Nat, data : Seq(Byte)]
      BY EmptySeq DEF Free
    <3> QED BY <1>6, <3>1 DEF IInv, TypeOK, kfree, old
  <2>8. TypeOK'
    BY <1>1, <1>2, <1>6, <2>2, <2>7 DEF IInv, TypeOK, NoEntry
  <2>9. ASSUME NEW i \in Live'
        PROVE  /\ i \in Slot
               /\ i # cb.in_offs => i \in Live /\ cb'.entry[i] = cb.entry[i]
               /\ i = cb.in_offs => cb'.entry[i] = preserved
    BY <2>3 DEF Live
  <2>10. ASSUME NEW i \in Live'
         PROVE  /\ cb'.entry[i].buffptr \in Blocks
                /\ cb'.entry[i].buffptr # old
                /\ cb'.entry[i].buffptr \notin Unused
                /\ cb'.entry[i].size = Len(heap[cb'.entry[i].buffptr].data)
    <3>1. CASE i = cb.in_offs
      BY <2>1, <2>6, <2>9, <3>1 DEF ptr
    <3>2. CASE i # cb.in_offs
      BY <2>4, <2>5, <2>9, <3>2
    <3> QED BY <3>1, <3>2
  <2>11. ASSUME NEW i \in Live', NEW j \in Live',
                cb'.entry[i].buffptr = cb'.entry[j].buffptr
         PROVE  i = j
    <3>1. CASE i = cb.in_offs /\ j # cb.in_offs
      BY <2>4, <2>9, <2>11, <3>1 DEF ptr
    <3>2. CASE i # cb.in_offs /\ j = cb.in_offs
      BY <2>4, <2>9, <2>11, <3>2 DEF ptr
    <3>3. CASE i # cb.in_offs /\ j # cb.in_offs
      BY <2>9, <2>11, <3>3 DEF IInv, EntriesOwnBlocks
    <3> QED BY <3>1, <3>2, <3>3
  <2>12. EntriesOwnBlocks'
    <3>1. preserved'.buffptr \notin Blocks
      BY <1>6, BlocksAssumption DEF NoEntry
    <3>2. ASSUME NEW i \in Live'
          PROVE  /\ cb'.entry[i].buffptr \notin Unused'
                 /\ cb'.entry[i].size = Len(heap'[cb'.entry[i].buffptr].data)
                 /\ cb'.entry[i].buffptr # preserved'.buffptr
      BY <2>7, <2>10, <3>1 DEF Unused
    <3> QED BY <2>11, <3>1, <3>2 DEF EntriesOwnBlocks
  <2>13. CallState'
    BY <1>1, <1>6 DEF IInv, TypeOK, CallState, NoEntry
  <2> QED BY <1>3, <1>4, <2>2, <2>8, <2>12, <2>13 DEF IInv
<1> QED BY <1>5, <1>6 DEF Insert

-----------------------------------------------------------------------------
(* Every step keeps the inductive invariant.                               *)
LEMMA NextIInv == IInv /\ [Next]_vars => IInv'
<1> SUFFICES ASSUME IInv, [Next]_vars PROVE IInv'
  OBVIOUS
<1>1. ASSUME NEW p \in Procs,
             \/ aesd_open(p) \/ aesd_release(p) \/ Call(p) \/ NullBuffer(p)
             \/ Interrupted(p) \/ Return(p)
      PROVE  IInv'
  BY <1>1, OutsideIInv
<1>2. ASSUME NEW p \in Procs, Lock(p) \/ Unlock(p)
      PROVE  IInv'
  BY <1>2, LockIInv, UnlockIInv
<1>3. ASSUME NEW p \in Procs, Find(p) \/ Search(p) \/ CopyToUser(p)
      PROVE  IInv'
  BY <1>3, FindIInv, SearchIInv, CopyToUserIInv
<1>4. ASSUME NEW p \in Procs, Allocate(p) \/ CopyFromUser(p) \/ Insert(p)
      PROVE  IInv'
  BY <1>4, AllocateIInv, CopyFromUserIInv, InsertIInv
<1>5. CASE UNCHANGED vars
  BY <1>5 DEF vars, IInv, TypeOK, MutualExclusion, BufferOK, OffsetsAgreeOn,
              EntriesOwnBlocks, CopiesFit, CallState, Live, Unused, FoundEntry,
              SlotOf, SlotAt
<1>6. CASE aesd_cleanup_module \/ aesd_init_module
  BY <1>6, ModuleIInv
<1> QED BY <1>1, <1>2, <1>3, <1>4, <1>5, <1>6 DEF Next, Step

(* The inductive invariant holds throughout.                               *)
LEMMA DriverInvariant == Spec => []IInv
BY InitIInv, NextIInv, PTL DEF Spec

(* The driver's state keeps its type, whatever the calls and the failures. *)
THEOREM DriverTypes == Spec => []TypeOK
BY DriverInvariant, PTL DEF IInv

(* On every path through a read or a write, error paths included, exactly  *)
(* the process between its lock and its unlock holds the mutex, so at most *)
(* one process is inside the device.                                       *)
THEOREM DriverMutualExclusion ==
  Spec => [](/\ MutualExclusion
             /\ \A p, q \in Procs : pc[p] \in Holding /\ pc[q] \in Holding => p = q)
<1>1. IInv => /\ MutualExclusion
              /\ \A p, q \in Procs : pc[p] \in Holding /\ pc[q] \in Holding => p = q
  BY DEF IInv, MutualExclusion
<1> QED BY <1>1, DriverInvariant, PTL

(* The offsets of the driver's buffer tell full from empty and leave no    *)
(* empty slot between them, so a search may stop at the first one          *)
(* (aesd-circular-buffer.c:71, 148-152).                                   *)
THEOREM DriverBuffer == Spec => []BufferOK
BY DriverInvariant, PTL DEF IInv

(* Nothing a call can reach is freed or shared: every entry and the one    *)
(* being assembled own their blocks (main.c:182-216).                      *)
THEOREM DriverOwnership == Spec => []EntriesOwnBlocks
BY DriverInvariant, PTL DEF IInv

(* No copy runs past the block it fills or the entry it reads.             *)
THEOREM DriverCopiesFit == Spec => []CopiesFit
BY DriverInvariant, PTL DEF IInv

-----------------------------------------------------------------------------
(* The device as a log.  What else holds while calls are under way: what a *)
(* search has passed and what is left of the offset make up the position.  *)
SearchInv ==
  \A p \in Procs :
    pc[p] \in {"search", "copy_to_user"} =>
      /\ search[p].i <= Count(cb)
      /\ f_pos[p] = LineStart(Log, search[p].i) + search[p].offset
      /\ pc[p] = "copy_to_user" => search[p].i < Count(cb)

(* A call has its result exactly when it is on its way out, and bytes only *)
(* between the copy and the return.                                        *)
ReplyInv ==
  \A p \in Procs :
    /\ reply[p] # NoReply <=> pc[p] \in {"unlock", "return"}
    /\ ubuf[p] # << >> => pc[p] \in {"copy", "insert", "unlock", "return"}
    /\ pc[p] = "copy" => ubuf[p] \in Inputs
    /\ pc[p] = "no device" => "unload" \in Faults

(* An entry with bytes has a block, and one that is being looked through   *)
(* for a newline ends with the bytes just copied.                          *)
PreservedInv ==
  /\ preserved.size # 0 => preserved.buffptr \in Blocks
  /\ \A p \in Procs :
       pc[p] = "insert" =>
         /\ \E s \in Inputs : \E k \in Device!Transferred(Len(s)) :
              ubuf[p] = SubSeq(s, 1, k)
         /\ \E k \in 0 .. Len(PreservedBytes) :
              PreservedBytes = SubSeq(PreservedBytes, 1, k) \o ubuf[p]

(* What must hold for every step of the driver to be one of the log.       *)
LogInv == SearchInv /\ ReplyInv /\ PreservedInv

-----------------------------------------------------------------------------
(* The log has one line for each entry in the buffer, oldest first.        *)
LEMMA LogProperties ==
  ASSUME IInv
  PROVE  /\ Count(cb) \in 0 .. Slots
         /\ Count(cb) = IF cb.full THEN Slots ELSE cb.in_offs
         /\ Contents(cb) \in Seq(Entries) /\ Len(Contents(cb)) = Count(cb)
         /\ Log \in Seq(Seq(Byte)) /\ Len(Log) = Count(cb)
         /\ \A k \in 1 .. Count(cb) :
              /\ SlotAt(cb, k - 1) \in Live
              /\ Contents(cb)[k] = cb.entry[SlotAt(cb, k - 1)]
              /\ Log[k] = heap[cb.entry[SlotAt(cb, k - 1)].buffptr].data
              /\ Len(Log[k]) = cb.entry[SlotAt(cb, k - 1)].size
<1>1. cb \in BuffersOf(Entries) /\ OffsetsAgreeOn(cb, Entries)
  BY DEF IInv, TypeOK, BufferOK
<1>2. /\ Count(cb) \in 0 .. Slots
      /\ Count(cb) = IF cb.full THEN Slots ELSE cb.in_offs
      /\ Contents(cb) \in Seq(Entries)
      /\ Len(Contents(cb)) = Count(cb)
      /\ \A k \in 1 .. Count(cb) : Contents(cb)[k] = cb.entry[SlotAt(cb, k - 1)]
  BY <1>1, ContentsProperties
<1>3. ASSUME NEW k \in 1 .. Count(cb)
      PROVE  /\ SlotAt(cb, k - 1) \in Live
             /\ Contents(cb)[k] = cb.entry[SlotAt(cb, k - 1)]
             /\ Contents(cb)[k] \in Entries
             /\ Line(Contents(cb)[k]) \in Seq(Byte)
             /\ Len(Line(Contents(cb)[k])) = cb.entry[SlotAt(cb, k - 1)].size
  <2>1. Contents(cb)[k] \in Entries
    BY <1>2, ElementOfSeq
  <2>2. Contents(cb)[k] = cb.entry[SlotAt(cb, k - 1)]
    BY <1>2
  <2>3. k - 1 \in Slot /\ cb.out_offs \in Slot
    BY <1>1, <1>2, SlotsAssumption DEF Slot, BuffersOf
  <2>4. SlotAt(cb, k - 1) \in Slot
    BY <2>3, SlotAtProperties
  <2>5. SlotAt(cb, k - 1) \in Live
    BY <2>1, <2>2, <2>4, BlocksAssumption DEF Live, Entries, NoEntry
  <2>6. Contents(cb)[k].buffptr \in Blocks
    BY <2>1 DEF Entries
  <2>7. Line(Contents(cb)[k]) \in Seq(Byte)
    BY <2>6 DEF Line, IInv, TypeOK
  <2>8. Len(Line(Contents(cb)[k])) = cb.entry[SlotAt(cb, k - 1)].size
    BY <2>2, <2>5 DEF Line, IInv, EntriesOwnBlocks
  <2> QED BY <2>1, <2>2, <2>5, <2>7, <2>8
<1>4. Log \in [1 .. Count(cb) -> Seq(Byte)]
  BY <1>3 DEF Log
<1>5. Log \in Seq(Seq(Byte)) /\ Len(Log) = Count(cb)
  BY <1>2, <1>4, FunctionIsSeq
<1>6. \A k \in 1 .. Count(cb) : Log[k] = Line(cb.entry[SlotAt(cb, k - 1)])
  BY <1>3 DEF Log
<1> QED BY <1>2, <1>3, <1>5, <1>6 DEF Line

(* The log is the same as long as the buffer is and its entries' bytes are. *)
LEMMA LogKept ==
  ASSUME IInv, cb' = cb,
         \A i \in Live : heap'[cb.entry[i].buffptr].data = heap[cb.entry[i].buffptr].data
  PROVE  Log' = Log
<1>1. ASSUME NEW k \in 1 .. Count(cb)
      PROVE  heap'[Contents(cb)[k].buffptr].data = heap[Contents(cb)[k].buffptr].data
  BY LogProperties
<1>2. Contents(cb)' = Contents(cb) /\ Count(cb)' = Count(cb)
  BY DEF Contents, Count, SlotAt
<1>3. Log' = [k \in 1 .. Count(cb) |-> heap'[Contents(cb)[k].buffptr].data]
  BY <1>2 DEF Log, Line
<1>4. Log = [k \in 1 .. Count(cb) |-> heap[Contents(cb)[k].buffptr].data]
  BY DEF Log, Line
<1> QED BY <1>1, <1>3, <1>4

(* The bytes of a write under way are not part of the log's line yet. *)
LEMMA PreservedProperties ==
  ASSUME IInv
  PROVE  /\ PreservedBytes \in Seq(Byte)
         /\ Len(PreservedBytes) \in Nat
         /\ preserved.buffptr \in Blocks => Len(PreservedBytes) = preserved.size
<1>1. PreservedBytes \in Seq(Byte)
  <2>1. << >> \in Seq(Byte)
    BY EmptySeq
  <2> QED BY <2>1 DEF PreservedBytes, IInv, TypeOK
<1>2. preserved.buffptr \in Blocks => Len(PreservedBytes) = preserved.size
  BY DEF PreservedBytes, IInv, EntriesOwnBlocks
<1> QED BY <1>1, <1>2, LenProperties

(* Nothing is in flight: the log's partial line is the whole entry.        *)
LEMMA PartialIsPreserved ==
  ASSUME IInv, \A p \in Procs : pc[p] # "insert"
  PROVE  Partial = PreservedBytes
<1>1. InFlight = {}
  BY DEF InFlight
<1>2. Cardinality(InFlight) = 0
  BY <1>1, FS_EmptySet
<1>3. Partial = SubSeq(PreservedBytes, 1, Len(PreservedBytes))
  BY <1>2, PreservedProperties DEF Partial
<1> QED BY <1>3, PreservedProperties, SubSeqFull

(* A write in flight: its own bytes are not in the partial line yet.       *)
LEMMA PartialInFlight ==
  ASSUME IInv, NEW p \in Procs, pc[p] = "insert"
  PROVE  Partial = SubSeq(PreservedBytes, 1, Len(PreservedBytes) - Len(ubuf[p]))
<1>1. \A q \in Procs : pc[q] = "insert" <=> q = p
  BY Alone DEF Holding
<1>2. InFlight = 1 .. Len(ubuf[p])
  <2>1. {q \in Procs : pc[q] = "insert"} = {p}
    BY <1>1
  <2>2. InFlight = UNION {1 .. Len(ubuf[q]) : q \in {p}}
    BY <2>1 DEF InFlight
  <2> QED BY <2>2
<1>3. Len(ubuf[p]) \in Nat
  BY LenProperties DEF IInv, TypeOK
<1>4. Cardinality(InFlight) = Len(ubuf[p])
  BY <1>2, <1>3, FS_Interval
<1> QED BY <1>4 DEF Partial

-----------------------------------------------------------------------------
(* A step of the log, or one that leaves it alone.                         *)
LogStep == [Device!Next]_(Device!vars)

(* A step of one call that touches neither the buffer, nor the entry being *)
(* assembled, nor the heap changes nothing of the log.                     *)
LEMMA OneCall ==
  ASSUME IInv, LogInv, OnlyCall, NEW p \in Procs,
         \A q \in Procs : q # p => /\ pc'[q] = pc[q]
                                  /\ search'[q] = search[q]
                                  /\ f_pos'[q] = f_pos[q]
                                  /\ ubuf'[q] = ubuf[q]
                                  /\ reply'[q] = reply[q],
         pc[p] # "insert",
         pc'[p] \notin {"copy", "insert", "no device"},
         pc'[p] \in {"search", "copy_to_user"} =>
           /\ search'[p].i <= Count(cb)
           /\ f_pos'[p] = LineStart(Log, search'[p].i) + search'[p].offset
           /\ pc'[p] = "copy_to_user" => search'[p].i < Count(cb),
         reply'[p] # NoReply <=> pc'[p] \in {"unlock", "return"},
         ubuf'[p] # << >> => pc'[p] \in {"unlock", "return"}
  PROVE  LogInv' /\ Log' = Log /\ Partial' = Partial
<1>1. Log' = Log
  BY LogKept DEF OnlyCall
<1>2. Count(cb)' = Count(cb) /\ PreservedBytes' = PreservedBytes
  BY DEF OnlyCall, Count, PreservedBytes
<1>3. \A q \in Procs : pc'[q] = "insert" <=> pc[q] = "insert"
  OBVIOUS
<1>4. InFlight' = InFlight
  <2>1. {q \in Procs : pc'[q] = "insert"} = {q \in Procs : pc[q] = "insert"}
    BY <1>3
  <2>2. \A q \in {r \in Procs : pc[r] = "insert"} : ubuf'[q] = ubuf[q]
    OBVIOUS
  <2>3. {1 .. Len(ubuf'[q]) : q \in {r \in Procs : pc[r] = "insert"}}
          = {1 .. Len(ubuf[q]) : q \in {r \in Procs : pc[r] = "insert"}}
    BY <2>2
  <2> QED BY <2>1, <2>3 DEF InFlight
<1>5. Partial' = Partial
  BY <1>2, <1>4 DEF Partial
<1>6. SearchInv'
  <2> SUFFICES ASSUME NEW q \in Procs, pc'[q] \in {"search", "copy_to_user"}
               PROVE  /\ search'[q].i <= Count(cb)
                      /\ f_pos'[q] = LineStart(Log, search'[q].i) + search'[q].offset
                      /\ pc'[q] = "copy_to_user" => search'[q].i < Count(cb)
    BY <1>1, <1>2 DEF SearchInv
  <2>1. CASE q = p
    BY <2>1
  <2>2. CASE q # p
    BY <2>2 DEF LogInv, SearchInv
  <2> QED BY <2>1, <2>2
<1>7. ReplyInv'
  <2> SUFFICES ASSUME NEW q \in Procs
               PROVE  /\ reply'[q] # NoReply <=> pc'[q] \in {"unlock", "return"}
                      /\ ubuf'[q] # << >> => pc'[q] \in {"copy", "insert", "unlock", "return"}
                      /\ pc'[q] = "copy" => ubuf'[q] \in Inputs
                      /\ pc'[q] = "no device" => "unload" \in Faults
    BY DEF ReplyInv
  <2>1. CASE q = p
    BY <2>1
  <2>2. CASE q # p
    BY <2>2 DEF LogInv, ReplyInv
  <2> QED BY <2>1, <2>2
<1>8. PreservedInv'
  BY <1>2, <1>3 DEF LogInv, PreservedInv, OnlyCall
<1> QED BY <1>1, <1>5, <1>6, <1>7, <1>8 DEF LogInv

(* What a process has received, at a step outside a write's copy. *)
LEMMA ReceivedStep ==
  ASSUME IInv, NEW p \in Procs, NEW l, NEW x,
         pc[p] \notin {"copy", "insert"}, l \notin {"copy", "insert"},
         pc' = [pc EXCEPT ![p] = l],
         ubuf' = [ubuf EXCEPT ![p] = x]
  PROVE  Received' = [Received EXCEPT ![p] = x] /\ Received[p] = ubuf[p]
<1>1. \A q \in Procs : Received'[q] = IF q = p THEN x ELSE Received[q]
  BY DEF IInv, TypeOK, Received
<1> QED BY <1>1 DEF Received

(* What the log says processes received follows ubuf and the calls.        *)
LEMMA ReceivedKept ==
  ASSUME UNCHANGED ubuf,
         \A q \in Procs : pc'[q] \in {"copy", "insert"} <=> pc[q] \in {"copy", "insert"}
  PROVE  Received' = Received
BY DEF Received

-----------------------------------------------------------------------------
(* Steps around a call. *)
LEMMA OutsideLog ==
  ASSUME IInv, LogInv, NEW p \in Procs,
         aesd_release(p) \/ Call(p) \/ Lock(p) \/ Unlock(p)
  PROVE  LogInv' /\ LogStep
<1>1. PICK l \in {"closed", "read_lock", "write_lock", "find", "alloc", "return"} :
        /\ pc' = [pc EXCEPT ![p] = l]
        /\ l = "return" <=> pc[p] = "unlock"
        /\ pc[p] \in {"open", "read_lock", "write_lock", "unlock"}
        /\ UNCHANGED <<cb, preserved, heap, f_pos, search, ubuf, reply>>
  BY DEF aesd_release, Call, Lock, Unlock, Goto
<1>2. pc'[p] = l /\ \A q \in Procs : q # p => pc'[q] = pc[q]
  BY <1>1 DEF IInv, TypeOK
<1>3. LogInv' /\ Log' = Log /\ Partial' = Partial
  <2>1. /\ reply[p] # NoReply <=> pc[p] \in {"unlock", "return"}
        /\ ubuf[p] # << >> => pc[p] \in {"copy", "insert", "unlock", "return"}
    BY DEF LogInv, ReplyInv
  <2> QED BY <1>1, <1>2, <2>1, OneCall DEF OnlyCall
<1>4. Received' = Received
  BY <1>1, <1>2, ReceivedKept
<1> QED BY <1>1, <1>3, <1>4 DEF LogStep, Device!vars

(* Opening the device sets the position of that process to its start.      *)
LEMMA OpenLog ==
  ASSUME IInv, LogInv, NEW p \in Procs, aesd_open(p)
  PROVE  LogInv' /\ LogStep
<1>1. /\ pc[p] = "closed"
      /\ f_pos' = [f_pos EXCEPT ![p] = 0]
      /\ pc' = [pc EXCEPT ![p] = "open"]
      /\ UNCHANGED <<mutex, cb, preserved, heap, search, ubuf, reply>>
  BY DEF aesd_open, Goto
<1>2. /\ pc'[p] = "open"
      /\ \A q \in Procs : q # p => pc'[q] = pc[q] /\ f_pos'[q] = f_pos[q]
  BY <1>1 DEF IInv, TypeOK
<1>3. reply[p] = NoReply /\ ubuf[p] = << >>
  BY <1>1 DEF LogInv, ReplyInv
<1>4. LogInv' /\ Log' = Log /\ Partial' = Partial
  BY <1>1, <1>2, <1>3, OneCall DEF OnlyCall
<1>5. Received' = Received
  BY <1>1, <1>2, ReceivedKept
<1>6. Device!Open(p)
  BY <1>1, <1>3, <1>4, <1>5 DEF Device!Open
<1> QED BY <1>4, <1>6 DEF LogStep, Device!Next

(* A call with a null pointer, and one whose lock is interrupted, is a log *)
(* call that fails.                                                        *)
LEMMA FailedLog ==
  ASSUME IInv, LogInv, NEW p \in Procs, NullBuffer(p) \/ Interrupted(p)
  PROVE  LogInv' /\ LogStep
<1>1. PICK error \in {-ERESTARTSYS, -EFAULT} :
        /\ pc[p] \in {"open", "read_lock", "write_lock"}
        /\ reply' = [reply EXCEPT ![p] = error]
        /\ pc' = [pc EXCEPT ![p] = "return"]
        /\ UNCHANGED <<mutex, cb, preserved, heap, f_pos, search, ubuf>>
  BY DEF NullBuffer, Interrupted, Goto
<1>2. /\ pc'[p] = "return" /\ reply'[p] = error
      /\ \A q \in Procs : q # p => pc'[q] = pc[q] /\ reply'[q] = reply[q]
  BY <1>1 DEF IInv, TypeOK
<1>3. reply[p] = NoReply /\ ubuf[p] = << >>
  BY <1>1 DEF LogInv, ReplyInv
<1>4. error # NoReply
  BY ReplyAssumption DEF ERESTARTSYS, EFAULT
<1>5. LogInv' /\ Log' = Log /\ Partial' = Partial
  BY <1>1, <1>2, <1>3, <1>4, OneCall DEF OnlyCall
<1>6. Received' = Received
  BY <1>1, <1>2, ReceivedKept
<1>7. Device!Fail(p, error)
  BY <1>1, <1>3, <1>5, <1>6 DEF Device!Fail
<1> QED BY <1>5, <1>7 DEF LogStep, Device!Next

(* A call returns the result the log gave it.                              *)
LEMMA ReturnLog ==
  ASSUME IInv, LogInv, NEW p \in Procs, Return(p)
  PROVE  LogInv' /\ LogStep
<1>1. /\ pc[p] = "return"
      /\ reply' = [reply EXCEPT ![p] = NoReply]
      /\ ubuf' = [ubuf EXCEPT ![p] = << >>]
      /\ pc' = [pc EXCEPT ![p] = "open"]
      /\ UNCHANGED <<mutex, cb, preserved, heap, f_pos, search>>
  BY DEF Return, Goto
<1>2. /\ pc'[p] = "open" /\ reply'[p] = NoReply /\ ubuf'[p] = << >>
      /\ \A q \in Procs : q # p => /\ pc'[q] = pc[q]
                                    /\ reply'[q] = reply[q]
                                    /\ ubuf'[q] = ubuf[q]
  BY <1>1 DEF IInv, TypeOK
<1>3. reply[p] # NoReply
  BY <1>1 DEF LogInv, ReplyInv
<1>4. LogInv' /\ Log' = Log /\ Partial' = Partial
  BY <1>1, <1>2, OneCall DEF OnlyCall
<1>5. Received' = [Received EXCEPT ![p] = << >>]
  BY <1>1, ReceivedStep
<1>6. Device!Return(p)
  BY <1>1, <1>3, <1>4, <1>5 DEF Device!Return
<1> QED BY <1>4, <1>6 DEF LogStep, Device!Next

-----------------------------------------------------------------------------
(* The steps of a read. *)
LEMMA FindLog ==
  ASSUME IInv, LogInv, NEW p \in Procs, Find(p)
  PROVE  LogInv' /\ LogStep
<1>1. /\ pc[p] = "find"
      /\ search' = [search EXCEPT ![p] = FindEntry(f_pos[p])]
      /\ pc' = [pc EXCEPT ![p] = "search"]
      /\ UNCHANGED <<mutex, cb, preserved, heap, f_pos, ubuf, reply>>
  BY DEF Find, Goto
<1>2. /\ pc'[p] = "search"
      /\ search'[p].i = 0 /\ search'[p].offset = f_pos[p]
      /\ \A q \in Procs : q # p => pc'[q] = pc[q] /\ search'[q] = search[q]
  BY <1>1 DEF IInv, TypeOK, FindEntry
<1>3. LineStart(Log, 0) = 0 /\ 0 <= Count(cb) /\ f_pos[p] \in Nat
  <2>1. Log \in Seq(Seq(Byte)) /\ Count(cb) \in Nat
    BY LogProperties
  <2>2. 0 \in 0 .. Len(Log)
    BY <2>1, LenProperties
  <2> QED BY <2>1, <2>2, StartNext DEF IInv, TypeOK
<1>4. reply[p] = NoReply /\ ubuf[p] = << >>
  BY <1>1 DEF LogInv, ReplyInv
<1>5. f_pos'[p] = LineStart(Log, search'[p].i) + search'[p].offset
  BY <1>1, <1>2, <1>3
<1>6. LogInv' /\ Log' = Log /\ Partial' = Partial
  BY <1>1, <1>2, <1>3, <1>4, <1>5, OneCall DEF OnlyCall
<1>7. Received' = Received
  BY <1>1, <1>2, ReceivedKept
<1> QED BY <1>1, <1>6, <1>7 DEF LogStep, Device!vars

(* An iteration keeps account of the position: what it has passed are the  *)
(* first lines of the log, and it fails only past the last one.            *)
LEMMA SearchPosition ==
  ASSUME IInv, SearchInv, NEW p \in Procs, pc[p] = "search"
  PROVE  LET next == FindIteration(cb, search[p]) IN
         /\ next.at = "none" => f_pos[p] >= LineStart(Log, Len(Log))
         /\ next.at # "none" => /\ next.i <= Count(cb)
                                /\ f_pos[p] = LineStart(Log, next.i) + next.offset
         /\ next.at = "found" => next.i < Count(cb)
<1> DEFINE s == search[p]
           idx == SlotAt(cb, s.i)
           size == cb.entry[idx].size
           next == FindIteration(cb, s)
<1>1. /\ s \in Searches /\ s.at = "searching"
      /\ s.i \in Slot /\ s.offset \in Nat /\ cb.out_offs \in Slot
      /\ f_pos[p] \in Nat
  BY DEF IInv, TypeOK, CallState, Searches, BuffersOf
<1>2. s.i <= Count(cb) /\ f_pos[p] = LineStart(Log, s.i) + s.offset
  BY DEF SearchInv
<1>3. /\ Count(cb) \in 0 .. Slots
      /\ Count(cb) = IF cb.full THEN Slots ELSE cb.in_offs
      /\ Log \in Seq(Seq(Byte)) /\ Len(Log) = Count(cb)
      /\ \A k \in 1 .. Count(cb) : /\ SlotAt(cb, k - 1) \in Live
                                   /\ Len(Log[k]) = cb.entry[SlotAt(cb, k - 1)].size
  BY LogProperties
<1>10. s.i \in Nat /\ Count(cb) \in Nat
  <2>1. Count(cb) \in 0 .. Slots
    BY LogProperties
  <2> QED BY <1>1, <2>1 DEF Slot
<1>4. /\ idx \in Slot
      /\ idx = IF cb.out_offs + s.i >= Slots THEN cb.out_offs + s.i - Slots
                                             ELSE cb.out_offs + s.i
  BY <1>1, SlotAtProperties
<1>5. cb.entry[idx] \in Entries \cup {NoEntry}
  BY <1>4 DEF IInv, TypeOK, BuffersOf
<1>6. size \in Nat
  BY <1>5 DEF Entries, NoEntry
<1> HIDE DEF idx, size, next
<1>7. next = IF size = 0 THEN NoSearch
             ELSE IF s.offset > size - 1
             THEN IF s.i + 1 = Slots THEN NoSearch
                  ELSE [s EXCEPT !.i = @ + 1, !.offset = @ - size]
             ELSE [s EXCEPT !.at = "found"]
  BY DEF next, FindIteration, SlotOf, size, idx
<1>8. CASE size = 0
  <2>1. s.i = Count(cb)
    <3>1. ASSUME s.i < Count(cb)
          PROVE  FALSE
      <4>1. s.i + 1 \in 1 .. Count(cb) /\ (s.i + 1) - 1 = s.i
        BY <1>10, <3>1
      <4>2. idx \in Live
        BY <1>3, <4>1 DEF idx
      <4> QED BY <1>5, <1>8, <4>2 DEF Live, Entries, size
    <3> QED BY <1>1, <1>2, <1>3, <3>1 DEF Slot
  <2>2. f_pos[p] >= LineStart(Log, Len(Log))
    <3>1. LineStart(Log, Len(Log)) \in Nat
      <4>1. Len(Log) \in 0 .. Len(Log)
        BY <1>3
      <4> QED BY <1>3, <4>1, StartNext
    <3> QED BY <1>1, <1>2, <1>3, <2>1, <3>1
  <2>3. next.at = "none"
    BY <1>7, <1>8 DEF NoSearch
  <2> QED BY <2>2, <2>3 DEF next
<1>9. CASE size # 0
  <2>1. s.i < Count(cb)
    <3>1. CASE cb.full
      BY <1>1, <1>3, <3>1, SlotsAssumption DEF Slot
    <3>2. CASE ~cb.full
      <4>1. cb.out_offs = 0 /\ idx = s.i
        BY <1>1, <1>4, <3>2, SlotsAssumption DEF IInv, BufferOK, OffsetsAgreeOn, Slot
      <4>2. cb.entry[s.i] # NoEntry
        BY <1>9, <4>1 DEF size, NoEntry
      <4>3. s.i < cb.in_offs
        BY <1>1, <3>2, <4>2 DEF IInv, BufferOK, OffsetsAgreeOn
      <4> QED BY <1>3, <3>2, <4>3
    <3> QED BY <3>1, <3>2 DEF IInv, TypeOK, BuffersOf
  <2>2. /\ s.i \in 0 .. Len(Log) /\ s.i < Len(Log)
        /\ s.i + 1 \in 1 .. Count(cb) /\ (s.i + 1) - 1 = s.i
    BY <1>1, <1>3, <2>1 DEF Slot
  <2>3. /\ LineStart(Log, s.i) \in Nat
        /\ LineStart(Log, s.i + 1) = LineStart(Log, s.i) + Len(Log[s.i + 1])
    BY <1>3, <2>2, StartNext
  <2>4. Len(Log[s.i + 1]) = size
    BY <1>3, <2>2 DEF size, idx
  <2>5. CASE ~(s.offset > size - 1)
    <3>1. next = [s EXCEPT !.at = "found"]
      BY <1>7, <1>9, <2>5
    <3>2. next.i = s.i /\ next.offset = s.offset /\ next.at = "found"
      BY <1>1, <3>1 DEF Searches
    <3> QED BY <1>2, <2>1, <3>2 DEF next
  <2>6. CASE s.offset > size - 1 /\ s.i + 1 = Slots
    <3>1. Len(Log) = s.i + 1
      BY <1>1, <1>3, <2>1, <2>6 DEF Slot
    <3>2. f_pos[p] >= LineStart(Log, Len(Log))
      BY <1>1, <1>2, <1>6, <2>3, <2>4, <2>6, <3>1
    <3>3. next.at = "none"
      BY <1>7, <1>9, <2>6 DEF NoSearch
    <3> QED BY <3>2, <3>3 DEF next
  <2>7. CASE s.offset > size - 1 /\ s.i + 1 # Slots
    <3>1. next = [s EXCEPT !.i = @ + 1, !.offset = @ - size]
      BY <1>7, <1>9, <2>7
    <3>2. next.i = s.i + 1 /\ next.offset = s.offset - size /\ next.at = "searching"
      BY <1>1, <3>1 DEF Searches
    <3>3. f_pos[p] = LineStart(Log, s.i + 1) + (s.offset - size)
      BY <1>1, <1>2, <1>6, <2>3, <2>4
    <3>4. s.i + 1 <= Count(cb)
      BY <2>2
    <3> QED BY <3>2, <3>3, <3>4 DEF next
  <2> QED BY <2>5, <2>6, <2>7
<1> QED BY <1>8, <1>9

(* The command a position falls into is the one LinesAt gives. *)
LEMMA RestOfCommandProperties ==
  ASSUME NEW pos \in Nat, Log \in Seq(Seq(Byte))
  PROVE  /\ LinesAt(Log, pos) = {} => Device!RestOfCommand(pos) = << >>
         /\ \A i \in LinesAt(Log, pos) :
              Device!RestOfCommand(pos)
                = SubSeq(Log[i], pos - LineStart(Log, i - 1) + 1, Len(Log[i]))
<1> DEFINE start(i) == Len(Device!FlattenSeq(SubSeq(Log, 1, i - 1)))
           at == {i \in 1 .. Len(Log) : start(i) <= pos /\ pos < start(i) + Len(Log[i])}
           first == CHOOSE i \in at : TRUE
<1>0. Device!RestOfCommand(pos) =
        IF at = {} THEN << >>
        ELSE SubSeq(Log[first], pos - start(first) + 1, Len(Log[first]))
  BY Zenon DEF Device!RestOfCommand
<1>1. /\ \A i : start(i) = LineStart(Log, i - 1)
      /\ at = LinesAt(Log, pos)
  <2>1. \A t : Device!FlattenSeq(t) = FlattenSeq(t)
    BY DEF Device!FlattenSeq, FlattenSeq
  <2>2. \A i : start(i) = LineStart(Log, i - 1)
    BY <2>1 DEF LineStart
  <2>3. at = LinesAt(Log, pos)
    <3> HIDE DEF start
    <3> QED BY <2>2 DEF LinesAt
  <2> QED BY <2>2, <2>3
<1> HIDE DEF start, at
<1>2. ASSUME NEW i \in LinesAt(Log, pos)
      PROVE  first = i /\ at # {}
  <2>1. at = {i}
    BY <1>1, LineAtPosition
  <2> QED BY <2>1
<1> QED BY <1>0, <1>1, <1>2

(* A search that fails answers as a read past the end of the log does.     *)
LEMMA SearchLog ==
  ASSUME IInv, LogInv, NEW p \in Procs, Search(p)
  PROVE  LogInv' /\ LogStep
<1> DEFINE next == FindIteration(cb, search[p])
<1>1. /\ pc[p] = "search"
      /\ search' = [search EXCEPT ![p] = next]
      /\ \/ next.at = "searching" /\ UNCHANGED <<pc, reply>>
         \/ /\ next.at = "found"
            /\ pc' = [pc EXCEPT ![p] = "copy_to_user"]
            /\ UNCHANGED reply
         \/ /\ next.at = "none"
            /\ pc' = [pc EXCEPT ![p] = "unlock"]
            /\ reply' = [reply EXCEPT ![p] = 0]
      /\ UNCHANGED <<mutex, cb, preserved, heap, f_pos, ubuf>>
  BY DEF Search, Goto
<1>2. /\ next.at = "none" => f_pos[p] >= LineStart(Log, Len(Log))
      /\ next.at # "none" => /\ next.i <= Count(cb)
                             /\ f_pos[p] = LineStart(Log, next.i) + next.offset
      /\ next.at = "found" => next.i < Count(cb)
  BY <1>1, SearchPosition DEF LogInv
<1> HIDE DEF next
<1>3. reply[p] = NoReply /\ ubuf[p] = << >>
  BY <1>1 DEF LogInv, ReplyInv
<1>4. search'[p] = next /\ \A q \in Procs : q # p => search'[q] = search[q]
  BY <1>1 DEF IInv, TypeOK
<1>5. /\ \A q \in Procs : q # p => pc'[q] = pc[q] /\ reply'[q] = reply[q]
      /\ \/ next.at = "searching" /\ pc'[p] = "search" /\ reply'[p] = NoReply
         \/ next.at = "found" /\ pc'[p] = "copy_to_user" /\ reply'[p] = NoReply
         \/ next.at = "none" /\ pc'[p] = "unlock" /\ reply'[p] = 0
  BY <1>1, <1>3 DEF IInv, TypeOK
<1>6. LogInv' /\ Log' = Log /\ Partial' = Partial
  <2>1. reply'[p] # NoReply <=> pc'[p] \in {"unlock", "return"}
    BY <1>5, ReplyAssumption
  <2>2. pc'[p] \in {"search", "copy_to_user"} =>
          /\ search'[p].i <= Count(cb)
          /\ f_pos'[p] = LineStart(Log, search'[p].i) + search'[p].offset
          /\ pc'[p] = "copy_to_user" => search'[p].i < Count(cb)
    BY <1>1, <1>2, <1>4, <1>5
  <2> QED BY <1>1, <1>3, <1>4, <1>5, <2>1, <2>2, OneCall DEF OnlyCall
<1>7. Received' = Received
  BY <1>1, <1>5, ReceivedKept
<1>8. CASE next.at # "none"
  BY <1>1, <1>6, <1>7, <1>8 DEF LogStep, Device!vars
<1>9. CASE next.at = "none"
  <2>1. PICK count \in Counts : TRUE
    BY BytesAssumption
  <2>2. count \in Nat
    BY BytesAssumption
  <2>3. f_pos[p] \in Nat /\ Log \in Seq(Seq(Byte))
    BY LogProperties DEF IInv, TypeOK
  <2>4. Device!RestOfCommand(f_pos[p]) = << >>
    BY <1>2, <1>9, <2>3, LineAtPosition, RestOfCommandProperties
  <2>5. Received[p] = << >> /\ Received \in [Procs -> Seq(Byte)]
    <3>1. << >> \in Seq(Byte)
      BY EmptySeq
    <3> QED BY <1>1, <1>3, <3>1 DEF Received, IInv, TypeOK
  <2>6. /\ SubSeq(<< >>, 1, 0) = << >>
        /\ Len(<< >>) = 0 /\ ~(0 > count)
        /\ 0 \in Device!Transferred(0)
    BY <2>2 DEF Device!Transferred
  <2>7. /\ Received' = [Received EXCEPT ![p] = SubSeq(<< >>, 1, 0)]
        /\ f_pos' = [f_pos EXCEPT ![p] = @ + 0]
        /\ reply' = [reply EXCEPT ![p] = 0]
    <3>1. Received' = [Received EXCEPT ![p] = << >>]
      BY <1>7, <2>5
    <3>2. f_pos' = [f_pos EXCEPT ![p] = @ + 0]
      BY <1>1, <2>3 DEF IInv, TypeOK
    <3> QED BY <1>1, <1>9, <2>6, <3>1, <3>2
  <2>8. Device!Read(p, count)
    BY <1>3, <1>6, <2>4, <2>6, <2>7 DEF Device!Read
  <2> QED BY <1>6, <2>8 DEF LogStep, Device!Next
<1> QED BY <1>8, <1>9

(* A search that succeeds answers with bytes of the command at the         *)
(* position.                                                               *)
LEMMA CopyToUserLog ==
  ASSUME IInv, LogInv, NEW p \in Procs, CopyToUser(p)
  PROVE  LogInv' /\ LogStep
<1> DEFINE line == Log[search[p].i + 1]
           offset == search[p].offset
           rest == SubSeq(line, offset + 1, Len(line))
<1>1. pc[p] = "copy_to_user"
  BY DEF CopyToUser
<1>2. /\ search[p].i < Count(cb)
      /\ f_pos[p] = LineStart(Log, search[p].i) + offset
      /\ search[p].i \in Nat /\ offset \in Nat /\ f_pos[p] \in Nat
      /\ offset < FoundEntry(p).size
  BY <1>1, SlotsAssumption
     DEF LogInv, SearchInv, IInv, CopiesFit, TypeOK, Searches, Slot
<1>3. /\ Log \in Seq(Seq(Byte)) /\ Len(Log) = Count(cb) /\ Count(cb) \in Nat
      /\ search[p].i + 1 \in 1 .. Count(cb) /\ (search[p].i + 1) - 1 = search[p].i
      /\ line \in Seq(Byte)
      /\ line = heap[FoundEntry(p).buffptr].data
      /\ Len(line) = FoundEntry(p).size
  <2>1. /\ Log \in Seq(Seq(Byte)) /\ Len(Log) = Count(cb) /\ Count(cb) \in Nat
        /\ \A k \in 1 .. Count(cb) :
             /\ Log[k] = heap[cb.entry[SlotAt(cb, k - 1)].buffptr].data
             /\ Len(Log[k]) = cb.entry[SlotAt(cb, k - 1)].size
    BY LogProperties
  <2>2. search[p].i + 1 \in 1 .. Count(cb) /\ (search[p].i + 1) - 1 = search[p].i
    BY <1>2, <2>1
  <2>3. line \in Seq(Byte)
    BY <2>1, <2>2, ElementOfSeq
  <2> QED BY <2>1, <2>2, <2>3 DEF FoundEntry, SlotOf
<1>4. /\ offset < Len(line) /\ Len(line) \in Nat
      /\ offset \in 0 .. Len(line)
  <2>1. Len(line) \in Nat
    BY <1>3, LenProperties, Zenon
  <2>2. offset \in Nat /\ offset < Len(line)
    BY <1>2, <1>3, Zenon
  <2> HIDE DEF line, offset
  <2> QED BY <2>1, <2>2
<1>5. Device!RestOfCommand(f_pos[p]) = rest
  <2>1. LineStart(Log, search[p].i) \in Nat
    <3>1. search[p].i \in 0 .. Len(Log)
      BY <1>2, <1>3
    <3> QED BY <1>3, <3>1, StartNext
  <2>2. search[p].i + 1 \in LinesAt(Log, f_pos[p])
    <3>1. /\ LineStart(Log, (search[p].i + 1) - 1) <= f_pos[p]
          /\ f_pos[p] < LineStart(Log, (search[p].i + 1) - 1) + Len(line)
      <4> HIDE DEF line, offset
      <4> QED BY <1>2, <1>3, <1>4, <2>1
    <3> QED BY <1>3, <3>1 DEF LinesAt
  <2>3. f_pos[p] - LineStart(Log, search[p].i) = offset
    BY <1>2, <2>1
  <2> QED BY <1>2, <1>3, <2>2, <2>3, RestOfCommandProperties
<1>6. PICK count \in Counts :
        \E k \in Device!Transferred(IF Len(line) - offset > count THEN count
                                                                  ELSE Len(line) - offset) :
          /\ ubuf' = [ubuf EXCEPT ![p] = SubSeq(line, offset + 1, offset + k)]
          /\ reply' = [reply EXCEPT ![p] = k]
          /\ f_pos' = [f_pos EXCEPT ![p] = @ + k]
  BY <1>3 DEF CopyToUser, Device!Transferred
<1>7. count \in Nat
  BY BytesAssumption
<1> DEFINE n == IF Len(line) - offset > count THEN count ELSE Len(line) - offset
<1>8. n \in 0 .. Len(line) - offset
  BY <1>4, <1>7
<1>9. PICK k \in Device!Transferred(n) :
        /\ ubuf' = [ubuf EXCEPT ![p] = SubSeq(line, offset + 1, offset + k)]
        /\ reply' = [reply EXCEPT ![p] = k]
        /\ f_pos' = [f_pos EXCEPT ![p] = @ + k]
  BY <1>6
<1>10. k \in 0 .. Len(line) - offset
  <2> HIDE DEF n, line, offset
  <2> QED BY <1>4, <1>8, <1>9 DEF Device!Transferred
<1>11. /\ Len(rest) = Len(line) - offset
       /\ SubSeq(rest, 1, k) = SubSeq(line, offset + 1, offset + k)
  <2> HIDE DEF line, offset
  <2> QED BY <1>3, <1>4, <1>10, SubSeqOfRest
<1>12. /\ pc' = [pc EXCEPT ![p] = "unlock"]
       /\ search' = [search EXCEPT ![p] = NoSearch]
       /\ UNCHANGED <<mutex, cb, preserved, heap>>
  BY DEF CopyToUser, Goto
<1> HIDE DEF n, rest, line, offset
<1>13. /\ pc'[p] = "unlock" /\ reply'[p] = k
       /\ \A q \in Procs : q # p => /\ pc'[q] = pc[q]
                                     /\ search'[q] = search[q]
                                     /\ f_pos'[q] = f_pos[q]
                                     /\ ubuf'[q] = ubuf[q]
                                     /\ reply'[q] = reply[q]
  BY <1>9, <1>12 DEF IInv, TypeOK
<1>14. reply[p] = NoReply
  BY <1>1 DEF LogInv, ReplyInv
<1>15. LogInv' /\ Log' = Log /\ Partial' = Partial
  <2>1. k # NoReply
    BY <1>4, <1>10, ReplyAssumption
  <2> QED BY <1>1, <1>12, <1>13, <2>1, OneCall DEF OnlyCall
<1>16. Received' = [Received EXCEPT ![p] = SubSeq(rest, 1, k)]
  BY <1>1, <1>9, <1>11, <1>12, ReceivedStep
<1>17. Device!Read(p, count)
  BY <1>5, <1>9, <1>11, <1>14, <1>15, <1>16 DEF Device!Read, n
<1> QED BY <1>15, <1>17 DEF LogStep, Device!Next

-----------------------------------------------------------------------------
(* The steps of a write: nobody else is inside the device. *)
LEMMA WriteCall ==
  ASSUME IInv, LogInv, NEW p \in Procs, pc[p] \in {"alloc", "copy", "insert"},
         NEW l \in {"copy", "insert", "unlock"},
         pc' = [pc EXCEPT ![p] = l],
         \A q \in Procs : q # p => ubuf'[q] = ubuf[q] /\ reply'[q] = reply[q],
         reply'[p] # NoReply <=> l = "unlock",
         l = "copy" => ubuf'[p] \in Inputs
  PROVE  /\ SearchInv' /\ ReplyInv'
         /\ pc'[p] = l
         /\ \A q \in Procs : q # p => pc[q] \notin Holding /\ pc'[q] = pc[q]
<1>1. /\ pc'[p] = l
      /\ \A q \in Procs : q # p => pc'[q] = pc[q]
  BY DEF IInv, TypeOK
<1>2. \A q \in Procs : q # p => pc[q] \notin Holding
  BY Alone DEF Holding
<1>3. SearchInv'
  <2>1. \A q \in Procs : pc'[q] \notin {"search", "copy_to_user"}
    BY <1>1, <1>2 DEF Holding
  <2> QED BY <2>1 DEF SearchInv
<1>4. ReplyInv'
  <2> SUFFICES ASSUME NEW q \in Procs
               PROVE  /\ reply'[q] # NoReply <=> pc'[q] \in {"unlock", "return"}
                      /\ ubuf'[q] # << >> => pc'[q] \in {"copy", "insert", "unlock", "return"}
                      /\ pc'[q] = "copy" => ubuf'[q] \in Inputs
                      /\ pc'[q] = "no device" => "unload" \in Faults
    BY DEF ReplyInv
  <2>1. CASE q = p
    BY <1>1, <2>1
  <2>2. CASE q # p
    BY <1>1, <2>2 DEF LogInv, ReplyInv
  <2> QED BY <2>1, <2>2
<1> QED BY <1>1, <1>2, <1>3, <1>4

(* An allocation that succeeds keeps the bytes that wait for a newline.    *)
LEMMA AllocatedLog ==
  ASSUME IInv, LogInv, NEW p \in Procs, pc[p] = "alloc",
         NEW s \in Inputs, NEW ptr, NEW h, Allocated(p, s, ptr, h),
         UNCHANGED <<mutex, cb, f_pos, search>>,
         preserved.size # 0 => ptr \in Blocks,
         \A i \in Live : h[cb.entry[i].buffptr].data = heap[cb.entry[i].buffptr].data,
         PreservedBytes = IF ptr \in Blocks THEN h[ptr].data ELSE << >>
  PROVE  LogInv' /\ LogStep
<1>1. /\ preserved' = [preserved EXCEPT !.buffptr = ptr]
      /\ heap' = h
      /\ ubuf' = [ubuf EXCEPT ![p] = s]
      /\ pc' = [pc EXCEPT ![p] = "copy"]
      /\ UNCHANGED <<cb, f_pos, search, reply>>
  BY DEF Allocated, Goto
<1>2. /\ ubuf'[p] = s /\ \A q \in Procs : q # p => ubuf'[q] = ubuf[q]
      /\ preserved'.buffptr = ptr /\ preserved'.size = preserved.size
  BY <1>1 DEF IInv, TypeOK
<1>3. reply[p] = NoReply /\ ubuf[p] = << >>
  BY DEF LogInv, ReplyInv
<1>4. /\ SearchInv' /\ ReplyInv' /\ pc'[p] = "copy"
      /\ \A q \in Procs : q # p => pc[q] \notin Holding /\ pc'[q] = pc[q]
  BY <1>1, <1>2, <1>3, WriteCall
<1>5. \A q \in Procs : pc[q] # "insert" /\ pc'[q] # "insert"
  BY <1>4 DEF Holding
<1>6. Log' = Log
  BY <1>1, LogKept
<1>7. PreservedBytes' = PreservedBytes
  BY <1>1, <1>2 DEF PreservedBytes
<1>8. Partial' = Partial
  <2>1. InFlight = {} /\ InFlight' = {}
    BY <1>5 DEF InFlight
  <2> QED BY <1>7, <2>1 DEF Partial
<1>9. Received' = Received
  <2>1. ASSUME NEW q \in Procs
        PROVE  (IF pc'[q] \in {"copy", "insert"} THEN << >> ELSE ubuf'[q])
                 = (IF pc[q] \in {"copy", "insert"} THEN << >> ELSE ubuf[q])
    BY <1>2, <1>3, <1>4
  <2> QED BY <2>1 DEF Received
<1>10. PreservedInv'
  BY <1>2, <1>5 DEF PreservedInv
<1> QED BY <1>1, <1>4, <1>6, <1>8, <1>9, <1>10 DEF LogInv, LogStep, Device!vars

(* Nor does an allocation that fails while there are none.                 *)
LEMMA OutOfMemoryLog ==
  ASSUME IInv, LogInv, NEW p \in Procs, pc[p] = "alloc", OutOfMemory(p),
         UNCHANGED <<mutex, cb, f_pos, search>>,
         preserved.size = 0
  PROVE  LogInv' /\ LogStep
<1>1. /\ preserved' = [preserved EXCEPT !.buffptr = NULL]
      /\ reply' = [reply EXCEPT ![p] = -ENOMEM]
      /\ pc' = [pc EXCEPT ![p] = "unlock"]
      /\ UNCHANGED <<cb, f_pos, search, heap, ubuf>>
  BY DEF OutOfMemory, Goto
<1>2. /\ reply'[p] = -ENOMEM /\ \A q \in Procs : q # p => reply'[q] = reply[q]
      /\ preserved'.buffptr = NULL /\ preserved'.size = 0
  BY <1>1 DEF IInv, TypeOK
<1>3. -ENOMEM # NoReply
  BY ReplyAssumption DEF ENOMEM
<1>4. /\ SearchInv' /\ ReplyInv' /\ pc'[p] = "unlock"
      /\ \A q \in Procs : q # p => pc[q] \notin Holding /\ pc'[q] = pc[q]
  BY <1>1, <1>2, <1>3, WriteCall
<1>5. \A q \in Procs : pc[q] # "insert" /\ pc'[q] # "insert"
  BY <1>4 DEF Holding
<1>6. Log' = Log
  BY <1>1, LogKept
<1>7. PreservedBytes' = << >> /\ PreservedBytes = << >>
  <2>1. PreservedBytes' = << >>
    BY <1>2, BlocksAssumption DEF PreservedBytes
  <2>2. CASE preserved.buffptr \in Blocks
    <3>1. PreservedBytes \in Seq(Byte) /\ Len(PreservedBytes) = 0
      BY <2>2, PreservedProperties
    <3> QED BY <2>1, <3>1, EmptySeq
  <2>3. CASE preserved.buffptr \notin Blocks
    BY <2>1, <2>3 DEF PreservedBytes
  <2> QED BY <2>2, <2>3
<1>8. Partial' = Partial
  <2>1. InFlight = {} /\ InFlight' = {}
    BY <1>5 DEF InFlight
  <2> QED BY <1>7, <2>1 DEF Partial
<1>9. Received' = Received
  <2>1. \A q \in Procs : pc'[q] \in {"copy", "insert"} <=> pc[q] \in {"copy", "insert"}
    BY <1>4
  <2> QED BY <1>1, <2>1, ReceivedKept
<1>10. PreservedInv'
  BY <1>2, <1>5 DEF PreservedInv
<1>11. Device!Fail(p, -ENOMEM)
  <2>1. reply[p] = NoReply
    BY DEF LogInv, ReplyInv
  <2> QED BY <1>1, <1>6, <1>8, <1>9, <2>1 DEF Device!Fail
<1> QED BY <1>4, <1>10, <1>11 DEF LogInv, LogStep, Device!Next

(* Getting room for bytes leaves the log alone; failing to get it is a     *)
(* write of the log that fails.                                            *)
LEMMA AllocateLog ==
  ASSUME IInv, LogInv, NEW p \in Procs, Allocate(p), "krealloc" \notin Faults
  PROVE  LogInv' /\ LogStep
<1>1. PICK s \in Inputs : IF preserved.size = 0 THEN kmalloc(p, s) ELSE krealloc(p, s)
  BY DEF Allocate
<1>2. pc[p] = "alloc" /\ UNCHANGED <<mutex, cb, f_pos, search>>
  BY DEF Allocate
<1>3. ASSUME NEW i \in Live
      PROVE  /\ cb.entry[i].buffptr \in Blocks
             /\ cb.entry[i].buffptr \notin Unused \cup {preserved.buffptr}
  BY DEF IInv, TypeOK, BuffersOf, Entries, EntriesOwnBlocks, Live
<1>4. heap \in [Blocks -> [cap : Nat, data : Seq(Byte)]]
  BY DEF IInv, TypeOK
<1>5. CASE preserved.size = 0
  <2>1. PreservedBytes = << >>
    <3>1. CASE preserved.buffptr \in Blocks
      <4>1. PreservedBytes \in Seq(Byte) /\ Len(PreservedBytes) = 0
        BY <1>5, <3>1, PreservedProperties
      <4> QED BY <4>1, EmptySeq
    <3>2. CASE preserved.buffptr \notin Blocks
      BY <3>2 DEF PreservedBytes
    <3> QED BY <3>1, <3>2
  <2>2. CASE Allocated(p, s, ZERO_SIZE_PTR, heap)
    <3>1. ZERO_SIZE_PTR \notin Blocks
      BY BlocksAssumption
    <3> QED BY <1>2, <1>5, <2>1, <2>2, <3>1, AllocatedLog
  <2>3. ASSUME NEW b \in Unused,
               Allocated(p, s, b, [heap EXCEPT ![b] = [cap |-> Len(s), data |-> << >>]])
        PROVE  LogInv' /\ LogStep
    <3> DEFINE h == [heap EXCEPT ![b] = [cap |-> Len(s), data |-> << >>]]
    <3>1. b \in Blocks /\ h[b].data = << >>
      BY <1>4 DEF Unused
    <3>2. \A i \in Live : h[cb.entry[i].buffptr].data = heap[cb.entry[i].buffptr].data
      BY <1>3, <1>4, <3>1
    <3>3. Allocated(p, s, b, h)
      BY <2>3
    <3> HIDE DEF h
    <3> QED BY <1>2, <1>5, <2>1, <3>1, <3>2, <3>3, AllocatedLog
  <2>4. CASE OutOfMemory(p)
    BY <1>2, <1>5, <2>4, OutOfMemoryLog
  <2> QED BY <1>1, <1>5, <2>2, <2>3, <2>4 DEF kmalloc
<1>6. CASE preserved.size # 0
  <2> DEFINE old == preserved.buffptr
             cap == preserved.size + Len(s)
  <2>1. old \in Blocks /\ old # NULL
    BY <1>6, BlocksAssumption DEF LogInv, PreservedInv
  <2>2. PICK b \in Unused \cup {old} :
          Allocated(p, s, b, [kfree(heap, old) EXCEPT
                                ![b] = [cap |-> cap, data |-> heap[old].data]])
    BY <1>1, <1>6, <2>1 DEF krealloc, OutOfMemory
  <2> DEFINE h == [kfree(heap, old) EXCEPT ![b] = [cap |-> cap, data |-> heap[old].data]]
  <2>3. b \in Blocks /\ h[b].data = heap[old].data
    BY <2>1 DEF Unused, kfree
  <2>4. \A i \in Live : h[cb.entry[i].buffptr].data = heap[cb.entry[i].buffptr].data
    <3>1. \A c \in Blocks : c # b /\ c # old => h[c] = heap[c]
      BY DEF kfree
    <3> HIDE DEF h
    <3> QED BY <1>3, <2>2, <3>1
  <2>5. PreservedBytes = h[b].data
    BY <2>1, <2>3 DEF PreservedBytes
  <2>6. Allocated(p, s, b, h)
    BY <2>2
  <2> HIDE DEF h
  <2> QED BY <1>2, <2>3, <2>4, <2>5, <2>6, AllocatedLog
<1> QED BY <1>5, <1>6

(* A copy's bytes are put behind those the log has. *)
LEMMA CopyFromUserLog ==
  ASSUME IInv, LogInv, NEW p \in Procs, CopyFromUser(p)
  PROVE  LogInv' /\ LogStep
<1>1. /\ pc[p] = "copy"
      /\ pc' = [pc EXCEPT ![p] = "insert"]
      /\ UNCHANGED <<mutex, cb, f_pos, search, reply>>
  BY DEF CopyFromUser, Goto
<1> DEFINE ptr == preserved.buffptr
           old == PreservedBytes
<1>2. PICK k \in 0 .. Len(ubuf[p]) :
        LET copied == SubSeq(ubuf[p], 1, k) IN
        /\ k = Len(ubuf[p]) \/ "copy" \in Faults
        /\ heap' = [b \in Blocks |-> IF b = preserved.buffptr
                                     THEN [heap[b] EXCEPT !.data = @ \o copied]
                                     ELSE heap[b]]
        /\ preserved' = [preserved EXCEPT !.size = @ + k]
        /\ ubuf' = [ubuf EXCEPT ![p] = copied]
  BY DEF CopyFromUser
<1> DEFINE copied == SubSeq(ubuf[p], 1, k)
<1>3. /\ ubuf[p] \in Seq(Byte) /\ Len(ubuf[p]) \in Nat /\ k \in Nat
      /\ copied \in Seq(Byte) /\ Len(copied) = k
      /\ ubuf[p] \in Inputs
      /\ k \in Device!Transferred(Len(ubuf[p]))
  <2>1. ubuf[p] \in Seq(Byte) /\ Len(ubuf[p]) \in Nat
    BY LenProperties DEF IInv, TypeOK
  <2>2. \A i \in 1 .. k : ubuf[p][i] \in Byte
    BY <2>1, ElementOfSeq
  <2>3. copied \in Seq(Byte) /\ Len(copied) = k
    BY <2>1, <2>2, SubSeqProperties
  <2>4. ubuf[p] \in Inputs
    BY <1>1 DEF LogInv, ReplyInv
  <2> QED BY <1>2, <2>1, <2>3, <2>4 DEF Device!Transferred
<1>4. /\ ubuf'[p] = copied /\ \A q \in Procs : q # p => ubuf'[q] = ubuf[q]
      /\ preserved'.buffptr = ptr /\ preserved'.size = preserved.size + k
      /\ \A b \in Blocks : heap'[b].data = IF b = ptr THEN heap[b].data \o copied
                                                     ELSE heap[b].data
  BY <1>2 DEF IInv, TypeOK
<1>5. /\ reply[p] = NoReply
      /\ SearchInv' /\ ReplyInv' /\ pc'[p] = "insert"
      /\ \A q \in Procs : q # p => pc[q] \notin Holding /\ pc'[q] = pc[q]
  <2>1. reply[p] = NoReply
    BY <1>1 DEF LogInv, ReplyInv
  <2> QED BY <1>1, <1>4, <2>1, WriteCall
<1> HIDE DEF ptr, copied, old
<1>6. old \in Seq(Byte) /\ Len(old) \in Nat
  BY PreservedProperties DEF old
<1>7. PreservedBytes' = old \o copied
  <2>1. CASE ptr \in Blocks
    BY <1>4, <2>1 DEF PreservedBytes, old, ptr
  <2>2. CASE ptr \notin Blocks
    <3>1. k = 0
      BY <1>1, <1>3, <2>2, EmptySeq DEF IInv, CopiesFit, ptr
    <3>2. copied = << >>
      BY <1>3, <3>1, EmptySeq
    <3>3. PreservedBytes' = << >> /\ old = << >>
      BY <1>4, <2>2 DEF PreservedBytes, old, ptr
    <3> QED BY <1>6, <3>2, <3>3, ConcatEmptySeq
  <2> QED BY <2>1, <2>2
<1>8. /\ Len(PreservedBytes') = Len(old) + k
      /\ SubSeq(PreservedBytes', 1, Len(old)) = old
  BY <1>3, <1>6, <1>7, FirstOfConcat
<1>9. PreservedInv'
  <2>1. preserved'.size # 0 => preserved'.buffptr \in Blocks
    <3>1. CASE preserved.size # 0
      BY <1>4, <3>1 DEF LogInv, PreservedInv, ptr
    <3>2. CASE k # 0
      <4>1. ubuf[p] # << >>
        BY <1>2, <1>3, <3>2, EmptySeq
      <4> QED BY <1>1, <1>4, <4>1 DEF IInv, CopiesFit, ptr
    <3>3. CASE preserved.size = 0 /\ k = 0
      BY <1>4, <3>3
    <3> QED BY <3>1, <3>2, <3>3
  <2>2. \A q \in Procs : pc'[q] = "insert" => q = p
    BY <1>5 DEF Holding
  <2>3. \E s \in Inputs : \E n \in Device!Transferred(Len(s)) : ubuf'[p] = SubSeq(s, 1, n)
    BY <1>3, <1>4 DEF copied
  <2>4. \E n \in 0 .. Len(PreservedBytes') :
          PreservedBytes' = SubSeq(PreservedBytes', 1, n) \o ubuf'[p]
    <3>1. Len(old) \in 0 .. Len(PreservedBytes')
      BY <1>3, <1>6, <1>8
    <3> QED BY <1>4, <1>7, <1>8, <3>1
  <2> QED BY <2>1, <2>2, <2>3, <2>4 DEF PreservedInv
<1>10. Log' = Log
  <2>1. \A i \in Live : cb.entry[i].buffptr \in Blocks /\ cb.entry[i].buffptr # ptr
    BY DEF IInv, TypeOK, BuffersOf, Entries, EntriesOwnBlocks, Live, ptr
  <2> QED BY <1>1, <1>4, <2>1, LogKept
<1>11. Partial' = Partial
  <2>1. Partial = old
    BY <1>1, <1>5, PartialIsPreserved DEF Holding, old
  <2>2. Cardinality(InFlight') = k
    <3>1. {q \in Procs : pc'[q] = "insert"} = {p}
      BY <1>5 DEF Holding
    <3>2. InFlight' = UNION {1 .. Len(ubuf'[q]) : q \in {p}}
      BY <3>1 DEF InFlight
    <3>3. InFlight' = 1 .. k
      BY <1>3, <1>4, <3>2
    <3> QED BY <1>3, <3>3, FS_Interval
  <2>3. Partial' = SubSeq(PreservedBytes', 1, Len(PreservedBytes') - k)
    BY <2>2 DEF Partial
  <2> QED BY <1>3, <1>6, <1>8, <2>1, <2>3
<1>12. Received' = Received
  <2>1. ASSUME NEW q \in Procs
        PROVE  (IF pc'[q] \in {"copy", "insert"} THEN << >> ELSE ubuf'[q])
                 = (IF pc[q] \in {"copy", "insert"} THEN << >> ELSE ubuf[q])
    BY <1>1, <1>4, <1>5
  <2> QED BY <2>1 DEF Received
<1> QED BY <1>1, <1>5, <1>9, <1>10, <1>11, <1>12 DEF LogInv, LogStep, Device!vars

(* The log is the bytes behind each entry of the buffer. *)
Bytes == [e \in Entries |-> heap[e.buffptr].data]

(* The log applies one function, an entry's bytes, to the buffer's         *)
(* contents.                                                               *)
LEMMA LogIsMapped ==
  ASSUME IInv
  PROVE  Bytes \in [Entries -> Seq(Byte)] /\ Log = Mapped(Contents(cb), Bytes)
<1>1. /\ Contents(cb) \in Seq(Entries) /\ Len(Contents(cb)) = Count(cb)
      /\ Count(cb) \in Nat
  BY LogProperties
<1>2. \A k \in 1 .. Count(cb) : Bytes[Contents(cb)[k]] = Line(Contents(cb)[k])
  <2>1. \A k \in 1 .. Count(cb) : Contents(cb)[k] \in Entries
    BY <1>1, ElementOfSeq
  <2> QED BY <2>1 DEF Bytes, Line
<1>3. Bytes \in [Entries -> Seq(Byte)]
  BY DEF Bytes, Entries, IInv, TypeOK
<1> QED BY <1>1, <1>2, <1>3 DEF Log, Mapped

(* The entry that goes into the buffer becomes a command of the log; the   *)
(* block that is freed is that of the command displaced.                   *)
LEMMA InsertedLog ==
  ASSUME IInv, IInv', preserved \in Entries,
         cb' = aesd_circular_buffer_add_entry(cb, preserved),
         heap' = kfree(heap, Overwritten(cb))
  PROVE  Log' = Device!Push(Log, heap[preserved.buffptr].data)
<1> DEFINE old == Contents(cb)
           new == Contents(cb')
           line == heap[preserved.buffptr].data
<1>1. /\ cb \in BuffersOf(Entries) /\ OffsetsAgreeOn(cb, Entries)
      /\ cb' \in BuffersOf(Entries) /\ OffsetsAgreeOn(cb', Entries)
  BY DEF IInv, TypeOK, BufferOK
<1>2. /\ old \in Seq(Entries) /\ Len(old) \in Nat
      /\ new = IF Len(old) = Slots THEN Append(Tail(old), preserved)
                                   ELSE Append(old, preserved)
  <2>1. old \in Seq(Entries) /\ Len(old) \in Nat
    BY <1>1, LenProperties, ContentsProperties
  <2>2. new = IF Len(old) = Slots THEN Append(Tail(old), preserved)
                                  ELSE Append(old, preserved)
    <3>1. new = Contents(aesd_circular_buffer_add_entry(cb, preserved))
      BY DEF Contents, Count
    <3> QED BY <1>1, <3>1, AddEntryIsPush, Zenon
  <2> QED BY <2>1, <2>2
<1>3. /\ new \in Seq(Entries) /\ Len(new) = Count(cb') /\ Count(cb') \in 0 .. Slots
      /\ \A k \in 1 .. Count(cb') : new[k] = cb'.entry[SlotAt(cb', k - 1)]
  BY <1>1, ContentsProperties
<1>4. ASSUME NEW k \in 1 .. Count(cb')
      PROVE  heap'[new[k].buffptr].data = Bytes[new[k]]
  <2>1. new[k] \in Entries
    BY <1>3, ElementOfSeq
  <2>2. k - 1 \in Slot /\ cb'.out_offs \in Slot
    BY <1>1, <1>3, SlotsAssumption DEF Slot, BuffersOf
  <2>3. SlotAt(cb', k - 1) \in Slot
    BY <2>2, SlotAtProperties
  <2>4. SlotAt(cb', k - 1) \in Live'
    BY <1>3, <2>1, <2>3, BlocksAssumption DEF Live, Entries, NoEntry
  <2>5. new[k].buffptr \notin Unused'
    BY <1>3, <2>4 DEF IInv, EntriesOwnBlocks
  <2>6. new[k].buffptr # Overwritten(cb) /\ new[k].buffptr \in Blocks
    BY <2>1, <2>5 DEF Unused, kfree, Entries
  <2> QED BY <2>1, <2>6 DEF kfree, Bytes
<1>5. Log' = Mapped(new, Bytes)
  <2>1. Log' = [k \in 1 .. Count(cb') |-> heap'[new[k].buffptr].data]
    BY DEF Log, Line, Count, Contents, SlotAt
  <2> HIDE DEF new
  <2> QED BY <1>3, <1>4, <2>1 DEF Mapped
<1>6. Bytes \in [Entries -> Seq(Byte)] /\ Log = Mapped(old, Bytes)
  BY LogIsMapped
<1>7. Bytes[preserved] = line /\ Len(Log) = Len(old)
  BY LogProperties DEF Bytes
<1> HIDE DEF old, new
<1>8. CASE Len(old) = Slots
  <2>1. Len(old) # 0 /\ old # << >>
    BY <1>8, EmptySeq, SlotsAssumption
  <2>2. Tail(old) \in Seq(Entries)
    BY <1>2, <2>1, HeadTailProperties
  <2>3. Mapped(Tail(old), Bytes) = Tail(Mapped(old, Bytes))
    BY <1>2, <1>6, <2>1, MappedTail
  <2>4. Mapped(Append(Tail(old), preserved), Bytes)
          = Append(Mapped(Tail(old), Bytes), Bytes[preserved])
    BY <1>6, <2>2, MappedAppend
  <2> QED BY <1>2, <1>5, <1>6, <1>7, <1>8, <2>3, <2>4 DEF Device!Push
<1>9. CASE Len(old) # Slots
  <2>1. Mapped(Append(old, preserved), Bytes) = Append(Mapped(old, Bytes), Bytes[preserved])
    BY <1>2, <1>6, MappedAppend
  <2> QED BY <1>2, <1>5, <1>6, <1>7, <1>9, <2>1 DEF Device!Push
<1> QED BY <1>8, <1>9

(* What a write looks for a newline in is the log's line and its own bytes. *)
LEMMA PartialAndWritten ==
  ASSUME IInv, LogInv, NEW p \in Procs, pc[p] = "insert"
  PROVE  Partial \in Seq(Byte) /\ Partial \o ubuf[p] = PreservedBytes
<1>1. PICK n \in 0 .. Len(PreservedBytes) :
        PreservedBytes = SubSeq(PreservedBytes, 1, n) \o ubuf[p]
  BY DEF LogInv, PreservedInv
<1>2. /\ PreservedBytes \in Seq(Byte) /\ Len(PreservedBytes) \in Nat
      /\ ubuf[p] \in Seq(Byte) /\ Len(ubuf[p]) \in Nat
  BY PreservedProperties, LenProperties DEF IInv, TypeOK
<1>3. SubSeq(PreservedBytes, 1, n) \in Seq(Byte) /\ Len(SubSeq(PreservedBytes, 1, n)) = n
  <2>1. \A i \in 1 .. n : PreservedBytes[i] \in Byte
    BY <1>2, ElementOfSeq
  <2> QED BY <1>2, <2>1, SubSeqProperties
<1>4. Len(PreservedBytes) = n + Len(ubuf[p])
  BY <1>1, <1>2, <1>3, ConcatProperties
<1>5. n = Len(PreservedBytes) - Len(ubuf[p])
  BY <1>2, <1>4
<1>6. Partial = SubSeq(PreservedBytes, 1, n)
  BY <1>5, PartialInFlight
<1> QED BY <1>1, <1>3, <1>6

(* A write takes effect when it has looked for the newline. *)
LEMMA InsertLog ==
  ASSUME IInv, IInv', LogInv, NEW p \in Procs, Insert(p)
  PROVE  LogInv' /\ LogStep
<1>1. /\ pc[p] = "insert"
      /\ pc' = [pc EXCEPT ![p] = "unlock"]
      /\ reply' = [reply EXCEPT ![p] = Len(ubuf[p])]
      /\ ubuf' = [ubuf EXCEPT ![p] = << >>]
      /\ UNCHANGED <<mutex, f_pos, search>>
  BY DEF Insert, Goto
<1>2. /\ reply'[p] = Len(ubuf[p]) /\ ubuf'[p] = << >>
      /\ \A q \in Procs : q # p => ubuf'[q] = ubuf[q] /\ reply'[q] = reply[q]
      /\ ubuf[p] \in Seq(Byte) /\ Len(ubuf[p]) \in Nat
  BY <1>1, LenProperties DEF IInv, TypeOK
<1>3. /\ reply[p] = NoReply
      /\ SearchInv' /\ ReplyInv' /\ pc'[p] = "unlock"
      /\ \A q \in Procs : q # p => pc[q] \notin Holding /\ pc'[q] = pc[q]
  <2>1. reply[p] = NoReply
    BY <1>1 DEF LogInv, ReplyInv
  <2>2. Len(ubuf[p]) # NoReply
    BY <1>2, ReplyAssumption
  <2> QED BY <1>1, <1>2, <2>1, <2>2, WriteCall
<1>4. \A q \in Procs : pc'[q] # "insert"
  BY <1>3 DEF Holding
<1>5. PICK s \in Inputs : \E k \in Device!Transferred(Len(s)) : ubuf[p] = SubSeq(s, 1, k)
  BY <1>1 DEF LogInv, PreservedInv
<1>6. Partial \o ubuf[p] = PreservedBytes
  BY <1>1, PartialAndWritten
<1>7. Partial' = PreservedBytes' \/ PreservedBytes' \notin Seq(Byte)
  <2>1. InFlight' = {}
    BY <1>4 DEF InFlight
  <2>2. Cardinality(InFlight') = 0
    BY <2>1, FS_EmptySet
  <2>3. Partial' = SubSeq(PreservedBytes', 1, Len(PreservedBytes') - 0)
    BY <2>2 DEF Partial
  <2>4. ASSUME PreservedBytes' \in Seq(Byte)
        PROVE  Partial' = PreservedBytes'
    <3>1. Len(PreservedBytes') \in Nat
      BY <2>4, LenProperties
    <3> QED BY <2>3, <2>4, <3>1, SubSeqFull
  <2> QED BY <2>4
<1>8. Received' = Received
  <2>1. ASSUME NEW q \in Procs
        PROVE  (IF pc'[q] \in {"copy", "insert"} THEN << >> ELSE ubuf'[q])
                 = (IF pc[q] \in {"copy", "insert"} THEN << >> ELSE ubuf[q])
    BY <1>1, <1>2, <1>3
  <2> QED BY <2>1 DEF Received
<1>9. \A t : Device!Contains(t, NL) <=> Contains(t, NL)
  BY DEF Device!Contains, Contains
<1>10. ASSUME IF Contains(PreservedBytes, NL)
              THEN Log' = Device!Push(Log, PreservedBytes) /\ Partial' = << >>
              ELSE Partial' = PreservedBytes /\ Log' = Log
       PROVE  LogStep
  <2>1. Device!Write(p, ubuf[p])
    BY <1>1, <1>3, <1>6, <1>8, <1>9, <1>10 DEF Device!Write
  <2>2. Device!Next
    BY <1>5, <2>1 DEF Device!Next
  <2> QED BY <2>2 DEF LogStep
<1>11. CASE Contains(PreservedBytes, NL)
  <2>1. /\ cb' = aesd_circular_buffer_add_entry(cb, preserved)
        /\ heap' = kfree(heap, Overwritten(cb))
        /\ preserved' = NoEntry
    BY <1>11 DEF Insert
  <2>2. preserved.buffptr \in Blocks
    <3>1. PreservedBytes # << >>
      BY <1>11, EmptySeq DEF Contains
    <3> QED BY <3>1 DEF PreservedBytes
  <2>3. PreservedBytes = heap[preserved.buffptr].data
    BY <2>2 DEF PreservedBytes
  <2>4. preserved \in Entries
    <3>1. PICK i \in 1 .. Len(PreservedBytes) : PreservedBytes[i] = NL
      BY <1>11 DEF Contains
    <3>2. preserved.size \in Nat \ {0}
      BY <2>2, <3>1, PreservedProperties
    <3> QED BY <2>2, <3>2 DEF IInv, TypeOK, Entries
  <2>5. Log' = Device!Push(Log, PreservedBytes)
    BY <2>1, <2>3, <2>4, InsertedLog
  <2>6. PreservedBytes' = << >> /\ preserved'.size = 0
    BY <2>1, BlocksAssumption DEF PreservedBytes, NoEntry
  <2>7. Partial' = << >>
    BY <1>7, <2>6, EmptySeq
  <2>8. PreservedInv'
    BY <1>4, <2>6 DEF PreservedInv
  <2> QED BY <1>3, <1>10, <1>11, <2>5, <2>7, <2>8 DEF LogInv
<1>12. CASE ~Contains(PreservedBytes, NL)
  <2>1. UNCHANGED <<cb, heap, preserved>>
    BY <1>12 DEF Insert
  <2>2. Log' = Log
    BY <2>1, LogKept
  <2>3. PreservedBytes' = PreservedBytes
    BY <2>1 DEF PreservedBytes
  <2>4. Partial' = PreservedBytes
    BY <1>7, <2>3, PreservedProperties
  <2>5. PreservedInv'
    BY <1>4, <2>1 DEF LogInv, PreservedInv
  <2> QED BY <1>3, <1>10, <1>12, <2>2, <2>4, <2>5 DEF LogInv
<1> QED BY <1>11, <1>12

-----------------------------------------------------------------------------
(* Nobody is inside while the module is unloaded and loaded again. *)
LEMMA CleanupLog ==
  ASSUME IInv, LogInv, aesd_cleanup_module
  PROVE  LogInv' /\ LogStep
<1>1. /\ "unload" \in Faults
      /\ \A p \in Procs : pc[p] = "closed" /\ pc'[p] = "no device"
      /\ UNCHANGED <<mutex, cb, preserved, heap, f_pos, search, ubuf, reply>>
  BY DEF aesd_cleanup_module
<1>2. Log' = Log
  BY <1>1, LogKept
<1>3. Partial' = Partial
  <2>1. InFlight = {} /\ InFlight' = {}
    BY <1>1 DEF InFlight
  <2>2. PreservedBytes' = PreservedBytes
    BY <1>1 DEF PreservedBytes
  <2> QED BY <2>1, <2>2 DEF Partial
<1>4. Received' = Received
  BY <1>1, ReceivedKept
<1>5. SearchInv' /\ ReplyInv' /\ PreservedInv'
  BY <1>1 DEF LogInv, SearchInv, ReplyInv, PreservedInv
<1> QED BY <1>1, <1>2, <1>3, <1>4, <1>5 DEF LogInv, LogStep, Device!vars

(* A module loaded again starts with an empty log.                         *)
LEMMA InitModuleLog ==
  ASSUME IInv, LogInv, aesd_init_module
  PROVE  LogInv' /\ LogStep
<1>1. /\ \A p \in Procs : pc[p] = "no device" /\ pc'[p] = "closed"
      /\ cb' = aesd_circular_buffer_init
      /\ preserved' = NoEntry
      /\ UNCHANGED <<heap, f_pos, search, ubuf, reply>>
  BY DEF aesd_init_module
<1>2. /\ "unload" \in Faults
      /\ \A p \in Procs : reply[p] = NoReply /\ ubuf[p] = << >>
  BY <1>1, ProcsAssumption DEF LogInv, ReplyInv
<1>3. Log' = << >>
  <2>1. Count(cb') = 0
    BY <1>1, InitConsistent
  <2> QED BY <2>1 DEF Log, Count
<1>4. PreservedBytes' = << >> /\ preserved'.size = 0
  BY <1>1, BlocksAssumption DEF PreservedBytes, NoEntry
<1>5. Partial' = << >>
  <2>1. InFlight' = {}
    BY <1>1 DEF InFlight
  <2>2. Partial' = SubSeq(<< >>, 1, 0 - 0)
    BY <1>4, <2>1, FS_EmptySet DEF Partial
  <2> QED BY <2>2
<1>6. Received' = Received
  BY <1>1, ReceivedKept
<1>7. Device!Reload
  BY <1>1, <1>2, <1>3, <1>5, <1>6 DEF Device!Reload
<1>8. SearchInv' /\ ReplyInv' /\ PreservedInv'
  BY <1>1, <1>2, <1>4 DEF SearchInv, ReplyInv, PreservedInv
<1> QED BY <1>7, <1>8 DEF LogInv, LogStep, Device!Next

-----------------------------------------------------------------------------
(* The device starts as an empty log.                                      *)
LEMMA InitLog == Init => LogInv /\ Device!Init
<1> SUFFICES ASSUME Init PROVE LogInv /\ Device!Init
  OBVIOUS
<1> USE DEF Init
<1>1. PreservedBytes = << >> /\ preserved.size = 0
  BY BlocksAssumption DEF PreservedBytes, NoEntry
<1>2. InFlight = {}
  BY DEF InFlight
<1>3. Partial = << >>
  <2>1. Partial = SubSeq(<< >>, 1, 0 - 0)
    BY <1>1, <1>2, FS_EmptySet DEF Partial
  <2> QED BY <2>1
<1>4. Log = << >>
  <2>1. Count(cb) = 0
    BY InitConsistent
  <2> QED BY <2>1 DEF Log
<1>5. Received = [p \in Procs |-> << >>]
  BY DEF Received
<1>6. SearchInv /\ ReplyInv /\ PreservedInv
  BY <1>1 DEF SearchInv, ReplyInv, PreservedInv
<1> QED BY <1>3, <1>4, <1>5, <1>6 DEF LogInv, Device!Init

(* Every step of the driver is a step of the log, while krealloc works.    *)
LEMMA NextLog ==
  ASSUME "krealloc" \notin Faults
  PROVE  IInv /\ LogInv /\ [Next]_vars => LogInv' /\ LogStep
<1> SUFFICES ASSUME IInv, LogInv, [Next]_vars PROVE LogInv' /\ LogStep
  OBVIOUS
<1>0. IInv'
  BY NextIInv
<1>1. ASSUME NEW p \in Procs,
             \/ aesd_open(p) \/ aesd_release(p) \/ Call(p) \/ NullBuffer(p)
             \/ Lock(p) \/ Interrupted(p)
      PROVE  LogInv' /\ LogStep
  BY <1>1, OpenLog, OutsideLog, FailedLog
<1>2. ASSUME NEW p \in Procs, Unlock(p) \/ Return(p)
      PROVE  LogInv' /\ LogStep
  BY <1>2, OutsideLog, ReturnLog
<1>3. ASSUME NEW p \in Procs, Find(p) \/ Search(p) \/ CopyToUser(p)
      PROVE  LogInv' /\ LogStep
  BY <1>3, FindLog, SearchLog, CopyToUserLog
<1>4. ASSUME NEW p \in Procs, Allocate(p) \/ CopyFromUser(p) \/ Insert(p)
      PROVE  LogInv' /\ LogStep
  BY <1>0, <1>4, AllocateLog, CopyFromUserLog, InsertLog
<1>5. CASE aesd_cleanup_module \/ aesd_init_module
  BY <1>5, CleanupLog, InitModuleLog
<1>6. CASE UNCHANGED vars
  <2>1. Log' = Log
    BY <1>6, LogKept DEF vars
  <2>2. Count(cb)' = Count(cb) /\ PreservedBytes' = PreservedBytes /\ InFlight' = InFlight
    BY <1>6 DEF vars, Count, PreservedBytes, InFlight
  <2>3. Partial' = Partial /\ Received' = Received
    BY <1>6, <2>2 DEF vars, Partial, Received
  <2>4. SearchInv' /\ ReplyInv' /\ PreservedInv'
    BY <1>6, <2>1, <2>2 DEF vars, LogInv, SearchInv, ReplyInv, PreservedInv
  <2> QED BY <1>6, <2>1, <2>3, <2>4 DEF vars, LogInv, LogStep, Device!vars
<1> QED BY <1>1, <1>2, <1>3, <1>4, <1>5, <1>6 DEF Next, Step

(* The driver implements the log: as long as krealloc does not fail, every *)
(* read, write, open, failure and reload has the effect AesdLog gives it,  *)
(* at one instant, for any number of processes, slots and blocks and       *)
(* whatever else goes wrong.                                               *)
THEOREM DriverIsLog ==
  ASSUME "krealloc" \notin Faults
  PROVE  Spec => ImplementsLog
<1>1. Init => LogInv /\ Device!Init
  BY InitLog
<1>2. IInv /\ LogInv /\ [Next]_vars => LogInv' /\ [Device!Next]_(Device!vars)
  BY NextLog DEF LogStep
<1> QED BY <1>1, <1>2, DriverInvariant, PTL DEF Spec, ImplementsLog, Device!Spec

-----------------------------------------------------------------------------
(* What the log keeps waiting has no newline in it, and what a write adds  *)
(* to it is that write's bytes: an entry goes into the buffer only by a    *)
(* write that copies a newline, as the comment of main.c:206 has it,       *)
(* unless krealloc fails (which loses an entry and makes up another) or    *)
(* the module is loaded again (which empties the buffer).                  *)
LEMMA PartialWithoutNewline ==
  ASSUME "krealloc" \notin Faults
  PROVE  Spec => []~Contains(Partial, NL)
<1>1. Init => ~Contains(Partial, NL)
  <2> SUFFICES ASSUME Init PROVE ~Contains(Partial, NL)
    OBVIOUS
  <2>1. Partial = << >>
    BY InitLog DEF Device!Init
  <2> QED BY <2>1 DEF Contains
<1>2. ~Contains(Partial, NL) /\ [Device!Next]_(Device!vars) => (~Contains(Partial, NL))'
  <2> SUFFICES ASSUME ~Contains(Partial, NL), [Device!Next]_(Device!vars)
               PROVE  (~Contains(Partial, NL))'
    OBVIOUS
  <2>0. \A t : Device!Contains(t, NL) <=> Contains(t, NL)
    BY DEF Device!Contains, Contains
  <2>1. \/ Partial' = Partial
        \/ Partial' = << >>
        \/ ~Contains(Partial', NL)
    BY <2>0 DEF Device!Next, Device!Reload, Device!Open, Device!Write, Device!Read,
                Device!Fail, Device!Return, Device!vars
  <2> HIDE DEF Partial
  <2> QED BY <2>1 DEF Contains
<1>3. Spec => Device!Spec
  BY DriverIsLog DEF ImplementsLog
<1> QED BY <1>1, <1>2, <1>3, PTL DEF Spec, Device!Spec

(* A module that stays loaded puts an entry into the buffer only in a      *)
(* write that copies a newline (main.c:206): the entry held none before.   *)
(* After a krealloc that fails it may hold one with no write to say so     *)
(* (188), and a module loaded again starts with another buffer.            *)
THEOREM InsertedOnlyByNewline ==
  ASSUME {"krealloc", "unload"} \cap Faults = {}
  PROVE  Spec => InsertedByNewline
<1>0. "krealloc" \notin Faults /\ "unload" \notin Faults
  OBVIOUS
<1>1. ASSUME IInv, LogInv, ~Contains(Partial, NL), [Next]_vars, cb' # cb
      PROVE  \E p \in Procs : pc[p] = "insert" /\ Contains(ubuf[p], NL)
  <2>1. ~aesd_init_module
    BY <1>0, <1>1, ProcsAssumption DEF aesd_init_module, LogInv, ReplyInv
  <2>2. PICK p \in Procs : Insert(p)
    BY <1>1, <2>1
       DEF Next, vars, Step, aesd_cleanup_module, aesd_open, aesd_release, Call, NullBuffer,
           Lock, Interrupted, Unlock, Return, Allocate, CopyFromUser, Find, Search, CopyToUser
  <2>3. pc[p] = "insert" /\ Contains(PreservedBytes, NL)
    BY <1>1, <2>2 DEF Insert
  <2>4. Partial \o ubuf[p] = PreservedBytes
    BY <1>1, <2>3, PartialAndWritten
  <2>5. PICK i \in 1 .. Len(PreservedBytes) : PreservedBytes[i] = NL
    BY <2>3 DEF Contains
  <2>6. /\ Partial \in Seq(Byte) /\ Len(Partial) \in Nat
        /\ ubuf[p] \in Seq(Byte) /\ Len(ubuf[p]) \in Nat
        /\ i \in 1 .. Len(Partial) + Len(ubuf[p])
        /\ PreservedBytes[i] = IF i <= Len(Partial) THEN Partial[i]
                                                    ELSE ubuf[p][i - Len(Partial)]
    <3>1. Partial \in Seq(Byte) /\ ubuf[p] \in Seq(Byte)
      BY <1>1, <2>3, PartialAndWritten DEF IInv, TypeOK
    <3> QED BY <2>4, <3>1, ConcatProperties, LenProperties
  <2>7. ~(i <= Len(Partial))
    BY <1>1, <2>5, <2>6 DEF Contains
  <2>8. i - Len(Partial) \in 1 .. Len(ubuf[p]) /\ ubuf[p][i - Len(Partial)] = NL
    BY <2>5, <2>6, <2>7
  <2>9. Contains(ubuf[p], NL)
    BY <2>8 DEF Contains
  <2> QED BY <2>3, <2>9
<1>2. Spec => []LogInv
  <2>1. Init => LogInv
    BY InitLog
  <2>2. IInv /\ LogInv /\ [Next]_vars => LogInv'
    BY <1>0, NextLog
  <2> QED BY <2>1, <2>2, DriverInvariant, PTL DEF Spec
<1>3. Spec => []~Contains(Partial, NL)
  BY <1>0, PartialWithoutNewline
<1>4. IInv /\ LogInv /\ ~Contains(Partial, NL) /\ [Next]_vars
        => [cb' # cb => \E p \in Procs : pc[p] = "insert" /\ Contains(ubuf[p], NL)]_vars
  BY <1>1
<1> QED BY <1>2, <1>3, <1>4, DriverInvariant, PTL DEF Spec, InsertedByNewline

-----------------------------------------------------------------------------
(* What a step does to the blocks in reach.  A buffer that takes an entry  *)
(* in loses at most the block it hands back to be freed.                   *)
LEMMA InsertKeepsReachable ==
  ASSUME IInv, NEW p \in Procs, Insert(p), NEW b \in Blocks \cap Reachable
  PROVE  b \in Reachable' \cup Unused'
<1>1. CASE UNCHANGED <<cb, heap, preserved>>
  BY <1>1 DEF Reachable, Live
<1>2. CASE /\ Contains(PreservedBytes, NL)
           /\ cb' = aesd_circular_buffer_add_entry(cb, preserved)
           /\ heap' = kfree(heap, Overwritten(cb))
  <2>1. /\ cb.in_offs \in Slot
        /\ \A i \in Slot : cb'.entry[i] = IF i = cb.in_offs THEN preserved ELSE cb.entry[i]
    BY <1>2 DEF IInv, TypeOK, BuffersOf, aesd_circular_buffer_add_entry
  <2>2. CASE b = preserved.buffptr
    <3>1. preserved # NoEntry
      BY <2>2, BlocksAssumption DEF NoEntry
    <3>2. cb.in_offs \in Live'
      BY <2>1, <3>1 DEF Live
    <3> QED BY <2>1, <2>2, <3>2 DEF Reachable
  <2>3. CASE b # preserved.buffptr
    <3>1. PICK i \in Live : b = cb.entry[i].buffptr
      BY <2>3 DEF Reachable
    <3>2. CASE i = cb.in_offs
      <4>1. cb.full /\ cb.in_offs = cb.out_offs
        BY <2>1, <3>1, <3>2 DEF IInv, TypeOK, BuffersOf, BufferOK, OffsetsAgreeOn, Live, Slot
      <4>2. b = Overwritten(cb)
        BY <3>1, <3>2, <4>1 DEF Overwritten
      <4> QED BY <1>2, <4>2 DEF kfree, Unused
    <3>3. CASE i # cb.in_offs
      BY <2>1, <3>1, <3>3 DEF Live, Reachable
    <3> QED BY <3>2, <3>3
  <2> QED BY <2>2, <2>3
<1> QED BY <1>1, <1>2 DEF Insert

(* An allocation loses at most the block of the entry being assembled: one *)
(* without bytes, or one that krealloc could not move.                     *)
LEMMA AllocateKeepsReachable ==
  ASSUME IInv, NEW p \in Procs, Allocate(p), NEW b \in Blocks \cap Reachable
  PROVE  \/ b \in Reachable' \cup Unused'
         \/ /\ b = preserved.buffptr
            /\ preserved.size = 0 \/ preserved'.buffptr = NULL
<1>1. UNCHANGED cb
  BY DEF Allocate
<1>2. CASE b # preserved.buffptr
  BY <1>1, <1>2 DEF Reachable, Live
<1>3. CASE b = preserved.buffptr /\ preserved.size # 0
  <2>1. PICK s \in Inputs : krealloc(p, s)
    BY <1>3 DEF Allocate
  <2>2. b # NULL /\ preserved.buffptr \in Blocks
    BY <1>3, BlocksAssumption
  <2>3. CASE OutOfMemory(p)
    BY <1>3, <2>3 DEF OutOfMemory, IInv, TypeOK
  <2>4. CASE \E c \in Unused \cup {preserved.buffptr} :
               Allocated(p, s, c, [kfree(heap, preserved.buffptr) EXCEPT
                                     ![c] = [cap |-> preserved.size + Len(s),
                                             data |-> heap[preserved.buffptr].data]])
    <3>1. PICK c \in Unused \cup {preserved.buffptr} :
            /\ preserved' = [preserved EXCEPT !.buffptr = c]
            /\ heap' = [kfree(heap, preserved.buffptr) EXCEPT
                          ![c] = [cap |-> preserved.size + Len(s),
                                  data |-> heap[preserved.buffptr].data]]
      BY <2>4 DEF Allocated
    <3>2. preserved'.buffptr = c
      BY <3>1 DEF IInv, TypeOK
    <3>3. CASE c = b
      BY <3>2, <3>3 DEF Reachable
    <3>4. CASE c # b
      <4>1. heap'[b] = Free
        BY <1>3, <3>1, <3>4 DEF kfree
      <4> QED BY <4>1 DEF Unused
    <3> QED BY <3>3, <3>4
  <2> QED BY <1>3, <2>1, <2>2, <2>3, <2>4 DEF krealloc
<1> QED BY <1>2, <1>3

(* Whatever fails, a block leaves the driver's reach only by being freed   *)
(* or moved, or in the three ways FreedWhenDropped names.                  *)
THEOREM DriverFreesWhatItDrops == Spec => FreedWhenDropped
<1> DEFINE Kept ==
      \A b \in Blocks \cap Reachable :
        \/ b \in Reachable' \cup Unused'
        \/ /\ b = preserved.buffptr
           /\ \E p \in Procs : pc[p] = "alloc"
           /\ preserved.size = 0 \/ preserved'.buffptr = NULL
        \/ \A p \in Procs : pc[p] = "no device"
<1>1. ASSUME IInv, [Next]_vars
      PROVE  Kept
  <2>1. CASE UNCHANGED <<cb, preserved>>
    BY <2>1 DEF Reachable, Live
  <2>2. CASE aesd_init_module
    BY <2>2 DEF aesd_init_module
  <2>3. ASSUME NEW p \in Procs, Insert(p)
        PROVE  Kept
    BY <1>1, <2>3, InsertKeepsReachable
  <2>4. ASSUME NEW p \in Procs, Allocate(p)
        PROVE  Kept
    <3>1. pc[p] = "alloc"
      BY <2>4 DEF Allocate
    <3> QED BY <1>1, <2>4, <3>1, AllocateKeepsReachable
  <2>5. ASSUME NEW p \in Procs, CopyFromUser(p)
        PROVE  Kept
    <3>1. cb' = cb /\ preserved'.buffptr = preserved.buffptr
      BY <1>1, <2>5 DEF CopyFromUser, IInv, TypeOK
    <3> QED BY <3>1 DEF Reachable, Live
  <2> HIDE DEF Kept
  <2> QED BY <1>1, <2>1, <2>2, <2>3, <2>4, <2>5
         DEF Next, vars, Step, aesd_cleanup_module, aesd_open, aesd_release, Call,
             NullBuffer, Lock, Interrupted, Unlock, Return, Find, Search, CopyToUser
<1>2. IInv /\ [Next]_vars => [Kept]_vars
  BY <1>1
<1> QED BY <1>2, DriverInvariant, PTL DEF Spec, FreedWhenDropped

-----------------------------------------------------------------------------
(* NoLeak is not inductive: a kmalloc drops the block of an entry without  *)
(* bytes.  While every copy transfers all its bytes only a write on its    *)
(* way from kmalloc to its copy leaves such an entry.                      *)
MemoryInv ==
  /\ NoLeak
  /\ preserved.buffptr \in Blocks /\ preserved.size = 0 =>
       \E p \in Procs : pc[p] = "copy" /\ ubuf[p] # << >>

(* Getting room for bytes: the block the entry had is kept, grown or       *)
(* freed.                                                                  *)
LEMMA AllocateMemory ==
  ASSUME IInv, MemoryInv, NEW p \in Procs, Allocate(p), "krealloc" \notin Faults
  PROVE  MemoryInv'
<1>1. pc[p] = "alloc" /\ \A q \in Procs : pc[q] # "copy"
  <2>1. pc[p] = "alloc"
    BY DEF Allocate
  <2>2. ASSUME NEW q \in Procs
        PROVE  pc[q] # "copy"
    BY <2>1, Alone DEF Holding
  <2> QED BY <2>1, <2>2
<1>2. preserved.buffptr \in Blocks => preserved.size # 0
  BY <1>1 DEF MemoryInv
<1>3. PICK s \in Inputs : IF preserved.size = 0 THEN kmalloc(p, s) ELSE krealloc(p, s)
  BY DEF Allocate
<1>4. /\ pc \in [Procs -> Labels] /\ ubuf \in [Procs -> Seq(Byte)]
      /\ heap \in [Blocks -> [cap : Nat, data : Seq(Byte)]]
      /\ preserved \in [buffptr : Blocks \cup {NULL, ZERO_SIZE_PTR}, size : Nat]
  BY DEF IInv, TypeOK
<1>5. NULL \notin Blocks /\ ZERO_SIZE_PTR \notin Blocks /\ ZERO_SIZE_PTR # NULL
  BY BlocksAssumption
<1>6. ASSUME NEW b \in Blocks, b \notin Unused'
      PROVE  b \in Reachable'
  <2>1. CASE b \in Unused
    <3>1. b = preserved'.buffptr
      <4>1. CASE preserved.size = 0
        BY <1>3, <1>4, <1>6, <2>1, <4>1 DEF kmalloc, Allocated, OutOfMemory, Unused
      <4>2. CASE preserved.size # 0
        <5>1. heap'[b] # heap[b] /\ heap' # heap
          BY <1>6, <2>1 DEF Unused
        <5>2. ASSUME NEW c, NEW h, NEW block,
                     Allocated(p, s, c, [h EXCEPT ![c] = block]),
                     h \in [Blocks -> [cap : Nat, data : Seq(Byte)]],
                     h[b] = heap[b]
              PROVE  b = preserved'.buffptr
          BY <1>4, <5>1, <5>2 DEF Allocated
        <5>3. CASE preserved.buffptr # NULL
          <6> DEFINE old == preserved.buffptr
                     block == [cap |-> preserved.size + Len(s), data |-> heap[old].data]
          <6>1. PICK c \in Unused \cup {old} :
                  Allocated(p, s, c, [kfree(heap, old) EXCEPT ![c] = block])
            BY <1>3, <4>2, <5>1, <5>3 DEF krealloc, OutOfMemory
          <6>2. /\ kfree(heap, old) \in [Blocks -> [cap : Nat, data : Seq(Byte)]]
                /\ kfree(heap, old)[b] = heap[b]
            BY <1>4, <2>1 DEF kfree, Unused, Free
          <6> HIDE DEF old, block
          <6> QED BY <5>2, <6>1, <6>2
        <5>4. CASE preserved.buffptr = NULL
          <6>1. PICK c \in Unused, junk \in [1 .. preserved.size -> Byte] :
                  Allocated(p, s, c, [heap EXCEPT
                    ![c] = [cap |-> preserved.size + Len(s), data |-> junk]])
            BY <1>3, <4>2, <5>1, <5>4 DEF krealloc, OutOfMemory
          <6> QED BY <1>4, <5>2, <6>1
        <5> QED BY <5>3, <5>4
      <4> QED BY <4>1, <4>2
    <3> QED BY <3>1 DEF Reachable
  <2>2. CASE b \notin Unused
    <3>1. b \in Blocks \cap Reachable
      BY <2>2 DEF MemoryInv, NoLeak
    <3>2. ASSUME b = preserved.buffptr
          PROVE  preserved.size # 0 /\ preserved'.buffptr # NULL
      <4>1. preserved.size # 0 /\ preserved.buffptr # NULL
        BY <1>2, <1>5, <3>2
      <4>2. PICK c \in Unused \cup {preserved.buffptr} :
              preserved' = [preserved EXCEPT !.buffptr = c]
        BY <1>3, <4>1 DEF krealloc, Allocated, OutOfMemory
      <4> QED BY <1>4, <1>5, <3>2, <4>1, <4>2 DEF Unused
    <3> QED BY <1>6, <3>1, <3>2, AllocateKeepsReachable
  <2> QED BY <2>1, <2>2
<1>7. ASSUME preserved'.buffptr \in Blocks, preserved'.size = 0
      PROVE  pc'[p] = "copy" /\ ubuf'[p] # << >>
  <2>1. preserved'.size = preserved.size
    BY <1>3, <1>4 DEF kmalloc, krealloc, Allocated, OutOfMemory
  <2>2. kmalloc(p, s)
    BY <1>3, <1>7, <2>1
  <2>3. ~OutOfMemory(p) /\ ~Allocated(p, s, ZERO_SIZE_PTR, heap)
    BY <1>4, <1>5, <1>7 DEF OutOfMemory, Allocated
  <2>4. /\ s # << >>
        /\ ubuf' = [ubuf EXCEPT ![p] = s]
        /\ pc' = [pc EXCEPT ![p] = "copy"]
    BY <2>2, <2>3 DEF kmalloc, Allocated, Goto
  <2> QED BY <1>4, <2>4
<1> QED BY <1>6, <1>7 DEF MemoryInv, NoLeak

(* Copying bytes, without faults, leaves the entry with some.              *)
LEMMA CopyFromUserMemory ==
  ASSUME IInv, MemoryInv, NEW p \in Procs, CopyFromUser(p), "copy" \notin Faults
  PROVE  MemoryInv'
<1>1. /\ pc[p] = "copy" /\ cb' = cb
      /\ \E k \in 0 .. Len(ubuf[p]) :
           LET copied == SubSeq(ubuf[p], 1, k) IN
           /\ k = Len(ubuf[p])
           /\ heap' = [b \in Blocks |-> IF b = preserved.buffptr
                                        THEN [heap[b] EXCEPT !.data = @ \o copied]
                                        ELSE heap[b]]
           /\ preserved' = [preserved EXCEPT !.size = @ + k]
  BY DEF CopyFromUser
<1>2. /\ preserved'.buffptr = preserved.buffptr
      /\ preserved'.size = preserved.size + Len(ubuf[p])
      /\ \A b \in Blocks : b # preserved.buffptr => heap'[b] = heap[b]
  BY <1>1 DEF IInv, TypeOK
<1>3. Reachable' = Reachable
  BY <1>1, <1>2 DEF Reachable, Live
<1>4. ASSUME NEW b \in Blocks, b \notin Unused'
      PROVE  b \in Reachable'
  <2>1. CASE b = preserved.buffptr
    BY <1>3, <2>1 DEF Reachable
  <2>2. CASE b # preserved.buffptr
    BY <1>2, <1>3, <1>4, <2>2 DEF Unused, MemoryInv, NoLeak
  <2> QED BY <2>1, <2>2
<1>5. ASSUME preserved'.buffptr \in Blocks, preserved'.size = 0
      PROVE  FALSE
  <2>1. ubuf[p] \in Seq(Byte) /\ Len(ubuf[p]) \in Nat /\ preserved.size \in Nat
    BY LenProperties DEF IInv, TypeOK
  <2>2. preserved.size = 0 /\ Len(ubuf[p]) = 0
    BY <1>2, <1>5, <2>1
  <2>3. PICK q \in Procs : pc[q] = "copy" /\ ubuf[q] # << >>
    BY <1>2, <1>5, <2>2 DEF MemoryInv
  <2>4. q = p
    BY <1>1, <2>3, Alone DEF Holding
  <2> QED BY <2>1, <2>2, <2>3, <2>4, EmptySeq
<1> QED BY <1>4, <1>5 DEF MemoryInv, NoLeak

(* The block displaced from the buffer is freed.                           *)
LEMMA InsertMemory ==
  ASSUME IInv, MemoryInv, NEW p \in Procs, Insert(p)
  PROVE  MemoryInv'
<1>1. \A q \in Procs : pc[q] # "copy"
  <2>1. pc[p] = "insert"
    BY DEF Insert
  <2> QED BY <2>1, Alone DEF Holding
<1>2. preserved.buffptr \in Blocks => preserved.size # 0
  BY <1>1 DEF MemoryInv
<1>3. \/ UNCHANGED <<cb, heap, preserved>>
      \/ heap' = kfree(heap, Overwritten(cb)) /\ preserved' = NoEntry
  BY DEF Insert
<1>4. ASSUME NEW b \in Blocks, b \notin Unused'
      PROVE  b \in Reachable'
  <2>1. b \notin Unused
    BY <1>3, <1>4 DEF Unused, kfree
  <2>2. b \in Blocks \cap Reachable
    BY <2>1 DEF MemoryInv, NoLeak
  <2> QED BY <1>4, <2>2, InsertKeepsReachable
<1>5. ~(preserved'.buffptr \in Blocks /\ preserved'.size = 0)
  BY <1>2, <1>3, BlocksAssumption DEF NoEntry
<1> QED BY <1>4, <1>5 DEF MemoryInv, NoLeak

(* While krealloc and the processes' memory do not fail and the module     *)
(* stays loaded, no block is lost: every allocated one is an entry's.      *)
THEOREM DriverLeaksNothing ==
  ASSUME {"krealloc", "copy", "unload"} \cap Faults = {}
  PROVE  Spec => []NoLeak
<1>0. "krealloc" \notin Faults /\ "copy" \notin Faults /\ "unload" \notin Faults
  OBVIOUS
<1>1. Init => MemoryInv
  BY BlocksAssumption DEF Init, MemoryInv, NoLeak, Unused, NoEntry
<1>2. IInv /\ LogInv /\ MemoryInv /\ [Next]_vars => MemoryInv'
  <2> SUFFICES ASSUME IInv, LogInv, MemoryInv, [Next]_vars PROVE MemoryInv'
    OBVIOUS
  <2>1. ~aesd_init_module /\ ~aesd_cleanup_module
    BY <1>0, ProcsAssumption DEF aesd_init_module, aesd_cleanup_module, LogInv, ReplyInv
  <2>2. ASSUME NEW p \in Procs, Allocate(p) \/ CopyFromUser(p) \/ Insert(p)
        PROVE  MemoryInv'
    BY <1>0, <2>2, AllocateMemory, CopyFromUserMemory, InsertMemory
  <2>3. ASSUME UNCHANGED <<cb, preserved, heap>>,
               \A q \in Procs : pc[q] = "copy" => pc'[q] = "copy" /\ ubuf'[q] = ubuf[q]
        PROVE  MemoryInv'
    BY <2>3 DEF MemoryInv, NoLeak, Reachable, Live, Unused
  <2>4. ASSUME NEW p \in Procs,
               \/ aesd_open(p) \/ aesd_release(p) \/ Call(p) \/ NullBuffer(p)
               \/ Lock(p) \/ Interrupted(p) \/ Unlock(p) \/ Return(p) \/ Find(p)
        PROVE  MemoryInv'
    BY <2>3, <2>4
       DEF IInv, TypeOK, aesd_open, aesd_release, Call, NullBuffer, Lock, Interrupted,
           Unlock, Return, Find, Goto
  <2>5. ASSUME NEW p \in Procs, Search(p) \/ CopyToUser(p)
        PROVE  MemoryInv'
    <3>1. /\ pc[p] # "copy" /\ UNCHANGED <<cb, preserved, heap>>
          /\ \A q \in Procs : q # p => pc'[q] = pc[q] /\ ubuf'[q] = ubuf[q]
      BY <2>5 DEF IInv, TypeOK, Search, CopyToUser, Goto
    <3> QED BY <2>3, <3>1
  <2>6. CASE UNCHANGED vars
    BY <2>3, <2>6 DEF vars
  <2> QED BY <2>1, <2>2, <2>4, <2>5, <2>6 DEF Next, Step
<1>3. Init => LogInv
  BY InitLog
<1>4. IInv /\ LogInv /\ [Next]_vars => LogInv'
  BY <1>0, NextLog
<1>5. MemoryInv => NoLeak
  BY DEF MemoryInv
<1> QED BY <1>1, <1>2, <1>3, <1>4, <1>5, DriverInvariant, PTL DEF Spec

=============================================================================
