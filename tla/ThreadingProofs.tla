-------------------------- MODULE ThreadingProofs --------------------------
(***************************************************************************)
(* Theorems about the threading example, for any number of threads, mutexes *)
(* and blocks and whichever calls fail.                                     *)
(***************************************************************************)
EXTENDS Threading, TLAPS

(* A block that was handed out is allocated and has one user.              *)
DataInv ==
  /\ \A t \in Threads :
       /\ t_data[t] # NULL =>
            /\ heap[t_data[t]] # NULL
            /\ \A u \in Threads \ {t} : t_data[u] # t_data[t]
       /\ t \in Alive \/ pc[t] = "returned" => t_data[t] # NULL
  /\ starting \in Threads =>
       pc[starting] = "none" \/ pc[starting] = "returned" \/ starting \in Alive

(* A thread between its lock and its unlock has the mutex.                 *)
LockedInv ==
  \A t \in Threads :
    pc[t] \in {"wait_to_release", "unlock"} => holder[MutexOf(t)] = t

(* The inductive invariant.                                                *)
IInv == TypeOK /\ DataInv /\ LockedInv

(* No thread has started and no mutex is held.                             *)
LEMMA InitIInv == Init => IInv
BY NamesAssumption
   DEF Init, IInv, TypeOK, DataInv, LockedInv, Alive

-----------------------------------------------------------------------------
(* The steps of the caller. *)
LEMMA StartThreadIInv ==
  ASSUME IInv, NEW t \in Threads, StartThread(t)
  PROVE  IInv'
<1> USE DEF Goto
<1>1. CASE pc' = [pc EXCEPT ![t] = "not_started"] /\ UNCHANGED <<holder, starting, heap, t_data>>
  <2>1. pc[t] = "none"
    BY DEF StartThread
  <2>2. TypeOK'
    BY <1>1 DEF IInv, TypeOK
  <2>3. DataInv'
    BY <1>1, <2>1, NamesAssumption DEF IInv, TypeOK, DataInv, Alive, StartThread
  <2>4. LockedInv'
    BY <1>1, <2>1 DEF IInv, TypeOK, LockedInv, MutexOf
  <2> QED BY <2>2, <2>3, <2>4 DEF IInv
<1>2. ASSUME NEW b \in Blocks, NEW data \in ThreadData,
             heap[b] = NULL, heap' = [heap EXCEPT ![b] = data],
             t_data' = [t_data EXCEPT ![t] = b], starting' = t,
             UNCHANGED <<pc, holder>>
      PROVE  IInv'
  <2> USE <1>2
  <2>1. pc[t] = "none"
    BY DEF StartThread
  <2>2. TypeOK'
    BY DEF IInv, TypeOK
  <2>3. \A u \in Threads : t_data[u] # NULL => t_data[u] # b
    BY DEF IInv, DataInv
  <2>4. \A u \in Threads \ {t} : t_data'[u] = t_data[u]
    BY DEF IInv, TypeOK
  <2>5. \A u \in Threads : t_data[u] # NULL => heap'[t_data[u]] = heap[t_data[u]]
    BY <2>3 DEF IInv, TypeOK
  <2>6. DataInv'
    <3>1. t_data'[t] = b /\ heap'[b] # NULL /\ b # NULL
      BY NamesAssumption DEF IInv, TypeOK
    <3> QED BY <2>1, <2>3, <2>4, <2>5, <3>1 DEF IInv, TypeOK, DataInv, Alive
  <2>7. LockedInv'
    BY <2>1, <2>4, <2>5 DEF IInv, DataInv, LockedInv, Alive, MutexOf
  <2> QED BY <2>2, <2>6, <2>7 DEF IInv
<1> QED BY <1>1, <1>2 DEF StartThread

(* pthread_create starts the thread on its block, or the block is lost.    *)
LEMMA CreateThreadIInv ==
  ASSUME IInv, NEW t \in Threads, CreateThread(t)
  PROVE  IInv'
<1> USE DEF CreateThread, Goto
<1>1. TypeOK'
  BY NamesAssumption DEF IInv, TypeOK
<1>2. DataInv'
  BY NamesAssumption DEF IInv, TypeOK, DataInv, Alive
<1>3. LockedInv'
  BY NamesAssumption DEF IInv, TypeOK, DataInv, LockedInv, Alive, MutexOf
<1> QED BY <1>1, <1>2, <1>3 DEF IInv

(* The caller has been told that the thread runs; nothing else changes.    *)
LEMMA ThreadStartedIInv ==
  ASSUME IInv, NEW t \in Threads, ThreadStarted(t)
  PROVE  IInv'
BY NamesAssumption
   DEF ThreadStarted, IInv, TypeOK, DataInv, LockedInv, Alive, MutexOf

(* Joining a thread that returned frees the block it alone used.           *)
LEMMA JoinThreadIInv ==
  ASSUME IInv, NEW t \in Threads, JoinThread(t)
  PROVE  IInv'
<1> USE DEF JoinThread, Goto
<1>1. TypeOK'
  BY NamesAssumption DEF IInv, TypeOK
<1>2. DataInv'
  BY NamesAssumption DEF IInv, TypeOK, DataInv, Alive
<1>3. LockedInv'
  BY NamesAssumption DEF IInv, TypeOK, DataInv, LockedInv, Alive, MutexOf
<1> QED BY <1>1, <1>2, <1>3 DEF IInv

-----------------------------------------------------------------------------
(* The steps of a thread: one that writes its flag and returns, with the   *)
(* mutex released or as it was.                                            *)
LEMMA ReturnIInv ==
  ASSUME IInv, NEW t \in Threads, NEW success \in BOOLEAN,
         t \in Alive, ReturnWith(t, success),
         \/ holder' = holder
         \/ pc[t] = "unlock" /\ holder' = [holder EXCEPT ![MutexOf(t)] = NoThread]
  PROVE  IInv'
<1> USE DEF ReturnWith, Goto
<1>1. t_data[t] \in Blocks /\ heap[t_data[t]] \in ThreadData
  BY DEF IInv, TypeOK, DataInv
<1>2. heap'[t_data[t]] \in ThreadData /\ heap'[t_data[t]].mutex = MutexOf(t)
      /\ heap'[t_data[t]].thread_complete_success = success
  BY <1>1 DEF IInv, TypeOK, ThreadData, MutexOf
<1>3. \A u \in Threads \ {t} :
        t_data[u] # NULL => heap'[t_data[u]] = heap[t_data[u]]
  BY <1>1, NamesAssumption DEF IInv, TypeOK, DataInv
<1>4. TypeOK'
  BY <1>1, <1>2 DEF IInv, TypeOK
<1>5. DataInv'
  BY <1>1, <1>2, <1>3, NamesAssumption DEF IInv, TypeOK, DataInv, Alive
<1>6. LockedInv'
  <2> SUFFICES ASSUME NEW u \in Threads, pc'[u] \in {"wait_to_release", "unlock"}
               PROVE  holder'[MutexOf(u)'] = u
    BY DEF LockedInv
  <2>1. u # t /\ pc'[u] = pc[u] /\ t_data'[u] = t_data[u]
    BY DEF IInv, TypeOK
  <2>2. MutexOf(u)' = MutexOf(u) /\ MutexOf(u) \in Mutexes
    BY <2>1, <1>3 DEF IInv, TypeOK, DataInv, Alive, ThreadData, MutexOf
  <2>3. holder[MutexOf(u)] = u
    BY <2>1 DEF IInv, LockedInv
  <2>4. pc[t] = "unlock" => MutexOf(u) # MutexOf(t)
    BY <2>1, <2>3 DEF IInv, LockedInv
  <2> QED BY <2>2, <2>3, <2>4 DEF IInv, TypeOK
<1> QED BY <1>4, <1>5, <1>6 DEF IInv

(* A thread that goes on, with the mutex it has or has just got.           *)
LEMMA GoOnIInv ==
  ASSUME IInv, NEW t \in Threads, UNCHANGED <<starting, heap, t_data>>,
         \/ /\ pc[t] = "wait_to_obtain" /\ Goto(t, "lock")
            /\ UNCHANGED holder
         \/ /\ pc[t] = "wait_to_release" /\ Goto(t, "unlock")
            /\ UNCHANGED holder
         \/ Lock(t)
  PROVE  IInv'
<1> USE DEF Goto, Lock
<1>1. TypeOK'
  BY DEF IInv, TypeOK
<1>2. DataInv'
  BY DEF IInv, TypeOK, DataInv, Alive
<1>3. \A u \in Threads : MutexOf(u)' = MutexOf(u)
  BY DEF MutexOf
<1>4. t_data[t] \in Blocks /\ MutexOf(t) \in Mutexes
  BY DEF IInv, TypeOK, DataInv, Alive, ThreadData, MutexOf
<1>5. CASE UNCHANGED holder /\ pc[t] \in {"wait_to_obtain", "wait_to_release"}
  <2>1. LockedInv'
    BY <1>3, <1>5 DEF IInv, TypeOK, LockedInv
  <2> QED BY <1>1, <1>2, <2>1 DEF IInv
<1>6. CASE Lock(t)
  <2>1. \A u \in Threads \ {t} :
          pc[u] \in {"wait_to_release", "unlock"} => MutexOf(u) # MutexOf(t)
    BY <1>6, NamesAssumption DEF IInv, LockedInv
  <2>2. LockedInv'
    BY <1>3, <1>4, <1>6, <2>1 DEF IInv, TypeOK, LockedInv
  <2> QED BY <1>1, <1>2, <2>2 DEF IInv
<1> QED BY <1>1, <1>2, <1>5, <1>6 DEF IInv

-----------------------------------------------------------------------------
(* Every step keeps the inductive invariant.                               *)
LEMMA NextIInv == IInv /\ [Next]_vars => IInv'
<1> SUFFICES ASSUME IInv, [Next]_vars PROVE IInv'
  OBVIOUS
<1>1. CASE UNCHANGED vars
  BY <1>1 DEF vars, IInv, TypeOK, DataInv, LockedInv, Alive, MutexOf
<1>2. ASSUME NEW t \in Threads,
             StartThread(t) \/ CreateThread(t) \/ ThreadStarted(t) \/ JoinThread(t)
      PROVE  IInv'
  BY <1>2, StartThreadIInv, CreateThreadIInv, ThreadStartedIInv, JoinThreadIInv
<1>3. ASSUME NEW t \in Threads, Lock(t)
      PROVE  IInv'
  BY <1>3, GoOnIInv DEF Lock
<1>4. ASSUME NEW t \in Threads, LockFails(t)
      PROVE  IInv'
  BY <1>4, ReturnIInv DEF LockFails, Alive
<1>5. ASSUME NEW t \in Threads, WaitToObtain(t) \/ WaitToRelease(t)
      PROVE  IInv'
  <2>1. t \in Alive /\ UNCHANGED holder
    BY <1>5 DEF WaitToObtain, WaitToRelease, Alive
  <2>2. \/ ReturnWith(t, FALSE)
        \/ /\ UNCHANGED <<starting, heap, t_data>>
           /\ \/ pc[t] = "wait_to_obtain" /\ Goto(t, "lock")
              \/ pc[t] = "wait_to_release" /\ Goto(t, "unlock")
    BY <1>5 DEF WaitToObtain, WaitToRelease
  <2> QED BY <2>1, <2>2, GoOnIInv, ReturnIInv
<1>6. ASSUME NEW t \in Threads, Unlock(t)
      PROVE  IInv'
  BY <1>6, ReturnIInv DEF Unlock, Alive
<1> QED BY <1>1, <1>2, <1>3, <1>4, <1>5, <1>6 DEF Next, Step

(* The inductive invariant holds throughout.                               *)
LEMMA Invariant == Spec => []IInv
BY InitIInv, NextIInv, PTL DEF Spec

(* Every variable keeps its type, whichever calls fail: the caller never   *)
(* starts a thread on data that was not allocated (threading.c:82-87).     *)
THEOREM ThreadTypes == Spec => []TypeOK
<1>1. IInv => TypeOK
  BY DEF IInv
<1> QED BY <1>1, Invariant, PTL

(* Every thread works on data of its own, and between its lock and its     *)
(* unlock it has the mutex named there, whichever calls fail.              *)
THEOREM ThreadsOwnData == Spec => []OwnsData
<1>1. IInv => OwnsData
  BY DEF IInv, DataInv, LockedInv, OwnsData
<1> QED BY <1>1, Invariant, PTL

(* Nothing but its own return makes a thread one that succeeded.           *)
LEMMA NobodyElseSucceeds ==
  ASSUME IInv, NEW t \in Threads,
         \/ StartThread(t) \/ CreateThread(t) \/ ThreadStarted(t) \/ JoinThread(t)
         \/ Lock(t)
  PROVE  Succeeded' \subseteq Succeeded
<1> SUFFICES ASSUME NEW u \in Succeeded' PROVE u \in Succeeded
  OBVIOUS
<1>1. u \in Threads /\ pc'[u] \in {"returned", "succeeded"}
  BY DEF Succeeded, Done
<1>2. CASE StartThread(t)
  <2>1. u # t /\ pc'[u] = pc[u] /\ t_data'[u] = t_data[u]
    BY <1>1, <1>2 DEF StartThread, Goto, IInv, TypeOK
  <2>2. pc[u] = "returned" => heap'[t_data[u]] = heap[t_data[u]]
    BY <1>1, <1>2, NamesAssumption DEF StartThread, IInv, TypeOK, DataInv
  <2> QED BY <1>1, <2>1, <2>2 DEF Succeeded, Done
<1>3. CASE CreateThread(t) \/ ThreadStarted(t) \/ Lock(t)
  <2>1. pc'[u] = pc[u] /\ UNCHANGED heap
    BY <1>1, <1>3 DEF CreateThread, ThreadStarted, Lock, Goto, IInv, TypeOK
  <2>2. pc[u] = "returned" => t_data'[u] = t_data[u]
    BY <1>1, <1>3 DEF CreateThread, ThreadStarted, Lock, IInv, TypeOK
  <2> QED BY <1>1, <2>1, <2>2 DEF Succeeded, Done
<1>4. CASE JoinThread(t)
  <2>1. CASE u = t
    BY <1>1, <1>4, <2>1 DEF JoinThread, Goto, IInv, TypeOK, Succeeded, Done
  <2>2. CASE u # t
    <3>1. pc'[u] = pc[u] /\ t_data'[u] = t_data[u]
      BY <1>1, <1>4, <2>2 DEF JoinThread, Goto, IInv, TypeOK
    <3>2. pc[u] = "returned" => heap'[t_data[u]] = heap[t_data[u]]
      BY <1>1, <1>4, <2>2, NamesAssumption DEF JoinThread, IInv, TypeOK, DataInv
    <3> QED BY <1>1, <3>1, <3>2 DEF Succeeded, Done
  <2> QED BY <2>1, <2>2
<1> QED BY <1>2, <1>3, <1>4

(* A return makes only the returning thread one that succeeded, and only   *)
(* if it says so.                                                          *)
LEMMA ReturningSucceeds ==
  ASSUME IInv, NEW t \in Alive, NEW success \in BOOLEAN, ReturnWith(t, success)
  PROVE  Succeeded' \ Succeeded \subseteq IF success THEN {t} ELSE {}
<1> USE DEF ReturnWith, Goto
<1>1. t \in Threads /\ t_data[t] \in Blocks /\ heap[t_data[t]] \in ThreadData
  BY DEF Alive, IInv, TypeOK, DataInv
<1>2. pc'[t] = "returned" /\ heap'[t_data'[t]].thread_complete_success = success
  BY <1>1 DEF IInv, TypeOK, ThreadData
<1>3. t \in Succeeded' => success
  BY <1>2 DEF Succeeded
<1>4. ASSUME NEW u \in Threads \ {t} PROVE u \in Succeeded' => u \in Succeeded
  <2>1. pc'[u] = pc[u] /\ t_data'[u] = t_data[u]
    BY DEF IInv, TypeOK
  <2>2. pc[u] = "returned" => heap'[t_data[u]] = heap[t_data[u]]
    BY <1>1, NamesAssumption DEF IInv, TypeOK, DataInv
  <2> QED BY <2>1, <2>2 DEF Succeeded, Done
<1>5. Succeeded' \subseteq Threads
  BY DEF Succeeded, Done
<1> QED BY <1>3, <1>4, <1>5

(* What thread_complete_success says is true, whatever malloc left there   *)
(* and whichever calls fail: a thread comes to report success only where   *)
(* it releases the mutex it had obtained.                                  *)
THEOREM ReportedSuccess == Spec => SuccessIsTrue
<1> DEFINE Truthful ==
      \A t \in Succeeded' \ Succeeded :
        /\ pc[t] = "unlock" /\ holder[MutexOf(t)] = t
        /\ holder' = [holder EXCEPT ![MutexOf(t)] = NoThread]
<1>1. IInv /\ [Next]_vars => [Truthful]_vars
  <2> SUFFICES ASSUME IInv, Next PROVE Truthful
    OBVIOUS
  <2>1. PICK t \in Threads :
          \/ StartThread(t) \/ CreateThread(t) \/ ThreadStarted(t) \/ JoinThread(t)
          \/ Lock(t) \/ LockFails(t) \/ Step(t)
    BY DEF Next
  <2>2. CASE \/ StartThread(t) \/ CreateThread(t) \/ ThreadStarted(t) \/ JoinThread(t)
             \/ Lock(t)
    BY <2>2, NobodyElseSucceeds
  <2>3. CASE LockFails(t)
    BY <2>3, ReturningSucceeds DEF LockFails, Alive
  <2>4. CASE WaitToObtain(t) \/ WaitToRelease(t)
    <3>1. t \in Alive
      BY <2>4 DEF WaitToObtain, WaitToRelease, Alive
    <3>2. CASE ReturnWith(t, FALSE)
      BY <3>1, <3>2, ReturningSucceeds
    <3>3. CASE (Goto(t, "lock") \/ Goto(t, "unlock")) /\ UNCHANGED <<starting, heap, t_data>>
      BY <3>1, <3>3 DEF Goto, IInv, TypeOK, Succeeded, Done
    <3> QED BY <2>4, <3>2, <3>3 DEF WaitToObtain, WaitToRelease
  <2>5. CASE Unlock(t)
    <3>1. t \in Alive /\ pc[t] = "unlock" /\ holder[MutexOf(t)] = t
      BY <2>5 DEF Unlock, Alive, IInv, LockedInv
    <3>2. CASE holder' = [holder EXCEPT ![MutexOf(t)] = NoThread] /\ ReturnWith(t, TRUE)
      BY <3>1, <3>2, ReturningSucceeds
    <3>3. CASE ReturnWith(t, FALSE)
      BY <3>1, <3>3, ReturningSucceeds
    <3> QED BY <2>5, <3>2, <3>3 DEF Unlock
  <2> QED BY <2>1, <2>2, <2>3, <2>4, <2>5 DEF Step
<1> QED BY <1>1, Invariant, PTL DEF Spec, SuccessIsTrue

=============================================================================
