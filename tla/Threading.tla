----------------------------- MODULE Threading -----------------------------
(***************************************************************************)
(* The threading example (examples/threading/threading.c): a caller starts  *)
(* threads with start_thread_obtaining_mutex, gives each a mutex of its     *)
(* own choice, joins them and frees what they return; a thread sleeps,      *)
(* takes the mutex, sleeps and releases it, and every call may fail.        *)
(***************************************************************************)
EXTENDS FiniteSets

CONSTANTS
  Threads,   \* the pthread_t variables of the caller, each used once
  Mutexes,   \* the caller's mutexes
  Blocks,    \* the addresses malloc may return
  NULL, NoThread,
  Faults     \* the calls that may fail, by what they are called for

(* struct thread_data, without the lengths of the sleeps. *)
ThreadData == [mutex : Mutexes, thread_complete_success : BOOLEAN]

ASSUME NamesAssumption == NULL \notin Blocks \cup ThreadData /\ NoThread \notin Threads

VARIABLES
  holder,    \* the thread that has locked a mutex, or NoThread
  starting,  \* the thread the caller is creating, or NoThread
  heap,      \* the data in a block; NULL where nothing is allocated
  t_data,    \* the block passed to a thread
  pc         \* where a thread is

vars == <<holder, starting, heap, t_data, pc>>

Init ==
  /\ holder = [m \in Mutexes |-> NoThread]
  /\ starting = NoThread
  /\ heap = [b \in Blocks |-> NULL]
  /\ t_data = [t \in Threads |-> NULL]
  /\ pc = [t \in Threads |-> "none"]

Goto(t, label) == pc' = [pc EXCEPT ![t] = label]

-----------------------------------------------------------------------------
\* Mistake: the null pointer of a failed malloc is not noticed.
StartThreadUnchecked(t) ==
  /\ starting = NoThread
  /\ pc[t] = "none"
  /\ starting' = t
  /\ UNCHANGED <<holder, heap, t_data, pc>>

(* start_thread_obtaining_mutex returns false for a null mutex or when     *)
(* there is no memory.  malloc leaves thread_complete_success at any value. *)
StartThread(t) ==
  /\ starting = NoThread
  /\ pc[t] = "none"
  /\ \/ /\ Goto(t, "not_started")
        /\ UNCHANGED <<starting, heap, t_data>>
     \/ \E b \in Blocks, data \in ThreadData :
          /\ heap[b] = NULL
          /\ heap' = [heap EXCEPT ![b] = data]
          /\ t_data' = [t_data EXCEPT ![t] = b]
          /\ starting' = t
          /\ UNCHANGED pc
  /\ UNCHANGED holder

(* The thread runs from here on, even before pthread_create returns; when  *)
(* that fails the block is left behind.                                    *)
CreateThread(t) ==
  /\ starting = t
  /\ pc[t] = "none"
  /\ \/ Goto(t, "wait_to_obtain") /\ UNCHANGED <<starting, t_data>>
     \/ /\ "create" \in Faults
        /\ Goto(t, "not_started")
        /\ t_data' = [t_data EXCEPT ![t] = NULL]
        /\ starting' = NoThread
  /\ UNCHANGED <<holder, heap>>

\* Mistake: the data is freed once it has been passed on.
ThreadStartedFreeingData(t) ==
  /\ starting = t
  /\ pc[t] # "none"
  /\ starting' = NoThread
  /\ heap' = [heap EXCEPT ![t_data[t]] = NULL]
  /\ UNCHANGED <<holder, t_data, pc>>

ThreadStarted(t) ==
  /\ starting = t
  /\ pc[t] # "none"
  /\ starting' = NoThread
  /\ UNCHANGED <<holder, heap, t_data, pc>>

(* The caller joins a thread that was started, looks at what it returned   *)
(* and frees it.                                                           *)
JoinThread(t) ==
  /\ starting = NoThread
  /\ pc[t] = "returned"
  /\ Goto(t, IF heap[t_data[t]].thread_complete_success THEN "succeeded" ELSE "failed")
  /\ heap' = [heap EXCEPT ![t_data[t]] = NULL]
  /\ t_data' = [t_data EXCEPT ![t] = NULL]
  /\ UNCHANGED <<holder, starting>>

-----------------------------------------------------------------------------
(* threadfunc *)
MutexOf(t) == heap[t_data[t]].mutex

ReturnWith(t, success) ==
  /\ heap' = [heap EXCEPT ![t_data[t]].thread_complete_success = success]
  /\ Goto(t, "returned")
  /\ UNCHANGED <<starting, t_data>>

\* Mistake: a thread whose first sleep fails leaves the flag as it was.
WaitToObtainKeepingFlag(t) ==
  /\ pc[t] = "wait_to_obtain"
  /\ Goto(t, "lock") \/ ("obtain" \in Faults /\ Goto(t, "returned"))
  /\ UNCHANGED <<holder, starting, heap, t_data>>

WaitToObtain(t) ==
  /\ pc[t] = "wait_to_obtain"
  /\ \/ Goto(t, "lock") /\ UNCHANGED <<starting, heap, t_data>>
     \/ "obtain" \in Faults /\ ReturnWith(t, FALSE)
  /\ UNCHANGED holder

Lock(t) ==
  /\ pc[t] = "lock"
  /\ holder[MutexOf(t)] = NoThread
  /\ holder' = [holder EXCEPT ![MutexOf(t)] = t]
  /\ Goto(t, "wait_to_release")
  /\ UNCHANGED <<starting, heap, t_data>>

LockFails(t) ==
  /\ pc[t] = "lock"
  /\ "lock" \in Faults
  /\ ReturnWith(t, FALSE)
  /\ UNCHANGED holder

(* A thread whose second sleep fails returns with the mutex locked. *)
WaitToRelease(t) ==
  /\ pc[t] = "wait_to_release"
  /\ \/ Goto(t, "unlock") /\ UNCHANGED <<starting, heap, t_data>>
     \/ "release" \in Faults /\ ReturnWith(t, FALSE)
  /\ UNCHANGED holder

\* Mistake: the thread returns without the call that releases the mutex.
UnlockForgotten(t) ==
  /\ pc[t] = "unlock"
  /\ ReturnWith(t, TRUE)
  /\ UNCHANGED holder

Unlock(t) ==
  /\ pc[t] = "unlock"
  /\ \/ holder' = [holder EXCEPT ![MutexOf(t)] = NoThread] /\ ReturnWith(t, TRUE)
     \/ "unlock" \in Faults /\ ReturnWith(t, FALSE) /\ UNCHANGED holder

-----------------------------------------------------------------------------
Step(t) == WaitToObtain(t) \/ WaitToRelease(t) \/ Unlock(t)

Next ==
  \E t \in Threads :
    \/ StartThread(t) \/ CreateThread(t) \/ ThreadStarted(t) \/ JoinThread(t)
    \/ Lock(t) \/ LockFails(t) \/ Step(t)

Spec == Init /\ [][Next]_vars

(* Threads run, and a mutex that is free goes to one of those that wait    *)
(* for it.  The caller need not start or join anything.                    *)
FairSpec ==
  /\ Spec
  /\ \A t \in Threads : WF_vars(Step(t))
  /\ \A m \in Mutexes :
       WF_vars(\E t \in Threads : t_data[t] # NULL /\ MutexOf(t) = m /\ Lock(t))

-----------------------------------------------------------------------------
Alive == {t \in Threads : pc[t] \in {"wait_to_obtain", "lock", "wait_to_release", "unlock"}}
Done == {t \in Threads : pc[t] \in {"returned", "succeeded", "failed"}}

\* The threads that say, or have said to the caller, that they succeeded.
Succeeded ==
  {t \in Done : IF pc[t] = "returned" THEN heap[t_data[t]].thread_complete_success
                                      ELSE pc[t] = "succeeded"}

(* A thread is only ever created with data for it (threading.c:82-87).      *)
TypeOK ==
  /\ holder \in [Mutexes -> Threads \cup {NoThread}]
  /\ starting \in Threads \cup {NoThread}
  /\ heap \in [Blocks -> ThreadData \cup {NULL}]
  /\ t_data \in [Threads -> Blocks \cup {NULL}]
  /\ pc \in [Threads -> {"none", "not_started", "wait_to_obtain", "lock",
                         "wait_to_release", "unlock", "returned", "succeeded", "failed"}]
  /\ starting \in Threads => t_data[starting] \in Blocks

(* A thread has a block of its own from when it starts until the caller    *)
(* frees the one it returned (threading.h:6-11), and while it is between   *)
(* its lock and its unlock the mutex named there is locked by it.          *)
OwnsData ==
  \A t \in Threads :
    /\ t \in Alive \/ pc[t] = "returned" =>
         /\ t_data[t] # NULL /\ heap[t_data[t]] # NULL
         /\ \A u \in Threads \ {t} : t_data[u] # t_data[t]
    /\ pc[t] \in {"wait_to_release", "unlock"} => holder[MutexOf(t)] = t

(* thread_complete_success tells the joiner the truth (threading.h:23-26), *)
(* whatever malloc left there: the step with which a thread comes to say   *)
(* that it succeeded is the one that releases the mutex it had obtained.   *)
SuccessIsTrue ==
  [][\A t \in Succeeded' \ Succeeded :
       /\ pc[t] = "unlock" /\ holder[MutexOf(t)] = t
       /\ holder' = [holder EXCEPT ![MutexOf(t)] = NoThread]]_vars

(* A thread that was created returns, unless the mutex it waits for was    *)
(* left locked by one that says it failed (threading.c:41-47, 50-56).      *)
EveryThreadReturns ==
  \A t \in Threads :
    pc[t] = "wait_to_obtain" ~>
      t \in Done \/ (t \in Alive /\ holder[MutexOf(t)] \in Done \ Succeeded)

=============================================================================
