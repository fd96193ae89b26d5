------------------------- MODULE SystemCallsProofs -------------------------
(***************************************************************************)
(* The system call example, for any number of process ids and of files     *)
(* left open: what a call that returns true says of its child, and where a  *)
(* command writes, whatever children of earlier calls still run.           *)
(***************************************************************************)
EXTENDS SystemCalls, TLAPS

(* A process: where it is, who forked it, where it writes, how it ended.   *)
Child == [at : {"none", "forked", "exec", "running", "zombie"},
          by : Functions, out : {"terminal", "file"}, status : Statuses]

(* A child has the file for its output from its redirection on, and one    *)
(* that exited without being the command has said so by its exit status.   *)
ChildInv(child) ==
  /\ child.at = "forked" => child.out = "terminal"
  /\ child.at \in {"exec", "running"} =>
       (child.out = "file" <=> child.by = "do_exec_redirect")
  /\ child.at = "zombie" /\ child.by # "do_system" /\ ~child.status.ran =>
       child.status.ended = "killed" \/ child.status.code = EXIT_FAILURE

(* The caller waits for a child of its own, with the file it opened for    *)
(* it; and only a call that has returned has a result.                     *)
CallerInv ==
  /\ at = "open" => fn = "do_exec_redirect" /\ fds < MaxFds
  /\ at \in {"fork", "wait"} /\ fn = "do_exec_redirect" => fds > 0
  /\ at = "wait" => pid \in Pids /\ proc[pid].at # "none" /\ proc[pid].by = fn
  /\ result = TRUE => at = "idle"

(* The inductive invariant: what is true of the caller and of every        *)
(* process, and what a result of TRUE has meant so far.                    *)
IInv ==
  /\ TypeOK /\ CallerInv
  /\ \A p \in Pids : ChildInv(proc[p])
  /\ TrueMeansEnded /\ ErrorsReported

(* Statuses of children, as the provers need them. *)
LEMMA StatusTypes ==
  /\ \A ran \in BOOLEAN :
       /\ Killed(ran) \in Statuses
       /\ Killed(ran).ran = ran /\ Killed(ran).ended = "killed"
  /\ \A code \in {0, 1, 2, 127}, ran \in BOOLEAN :
       /\ Exited(ran, code) \in Statuses
       /\ Exited(ran, code).ran = ran /\ Exited(ran, code).code = code
  /\ NoProcess \in Child /\ NoProcess.at = "none"
<1>1. \A ran \in BOOLEAN :
        /\ Killed(ran) \in Statuses
        /\ Killed(ran).ran = ran /\ Killed(ran).ended = "killed"
  BY DEF Killed, Statuses
<1>2. \A code \in {0, 1, 2, 127}, ran \in BOOLEAN :
        /\ Exited(ran, code) \in Statuses
        /\ Exited(ran, code).ran = ran /\ Exited(ran, code).code = code
  BY DEF Exited, Statuses
<1>3. NoProcess \in Child /\ NoProcess.at = "none"
  BY <1>1 DEF Child, NoProcess, Functions
<1> QED BY <1>1, <1>2, <1>3

(* No call has been made and no process forked.                            *)
LEMMA InitIInv == Init => IInv
<1> SUFFICES ASSUME Init PROVE IInv
  OBVIOUS
<1>1. result # TRUE
  BY ResultAssumption DEF Init
<1>2. TypeOK
  <2>1. wait_status \in Statuses
    BY StatusTypes DEF Init
  <2>2. proc \in [Pids -> Child]
    BY StatusTypes DEF Init
  <2>3. /\ fn \in Functions /\ at = "idle" /\ result = NoResult
        /\ pid = NoPid /\ fds = 0
    BY DEF Init, Functions
  <2> QED BY <2>1, <2>2, <2>3, BoundAssumption DEF TypeOK, Child
<1>3. CallerInv
  BY <1>1 DEF Init, CallerInv
<1>4. \A p \in Pids : ChildInv(proc[p])
  BY StatusTypes DEF Init, ChildInv
<1> QED BY <1>1, <1>2, <1>3, <1>4 DEF IInv, TrueMeansEnded, ErrorsReported

(* A step of a child that keeps to its own rules keeps IInv: a child that  *)
(* takes one has not been waited for.                                      *)
LEMMA ChildKeepsIInv ==
  ASSUME IInv, NEW p \in Pids, NEW next \in Child, ChildStep(p, next),
         proc[p].at # "none", next.at # "none", next.by = proc[p].by, ChildInv(next)
  PROVE  IInv'
<1>1. /\ proc' = [proc EXCEPT ![p] = next]
      /\ UNCHANGED <<fn, at, result, wait_status, pid, fds>>
      /\ proc \in [Pids -> Child]
  BY DEF ChildStep, IInv, TypeOK, Child
<1>2. TypeOK'
  BY <1>1 DEF IInv, TypeOK, Child
<1>3. CallerInv'
  BY <1>1 DEF IInv, CallerInv
<1>4. (\A q \in Pids : ChildInv(proc[q]))'
  <2> SUFFICES ASSUME NEW q \in Pids PROVE ChildInv(proc'[q])
    BY DEF ChildInv
  <2>1. CASE q = p
    BY <1>1, <2>1
  <2>2. CASE q # p
    <3>1. proc'[q] = proc[q]
      BY <1>1, <2>2
    <3> QED BY <3>1 DEF IInv
  <2> QED BY <2>1, <2>2
<1>5. TrueMeansEnded' /\ ErrorsReported'
  BY <1>1 DEF IInv, TrueMeansEnded, ErrorsReported
<1> QED BY <1>2, <1>3, <1>4, <1>5 DEF IInv

(* The steps that children take. *)
LEMMA ChildrenKeepIInv ==
  ASSUME IInv, NEW p \in Pids, Redirect(p) \/ Execv(p) \/ KilledEarly(p) \/ CommandEnds(p)
  PROVE  IInv'
<1> DEFINE child == proc[p]
<1>1. child \in Child /\ ChildInv(child)
  BY DEF IInv, TypeOK, Child
<1>2. ASSUME NEW status \in Statuses, ChildStep(p, Ended(p, status)), child.at # "none",
             child.by # "do_system" /\ ~status.ran =>
               status.ended = "killed" \/ status.code = EXIT_FAILURE
      PROVE  IInv'
  <2>1. Ended(p, status) = [child EXCEPT !.at = "zombie", !.status = status]
    BY DEF Ended
  <2>2. /\ Ended(p, status) \in Child /\ Ended(p, status).at = "zombie"
        /\ Ended(p, status).by = child.by /\ Ended(p, status).status = status
    BY <1>1, <2>1 DEF Child
  <2>3. ChildInv(Ended(p, status))
    BY <1>2, <2>2 DEF ChildInv
  <2> QED BY <1>2, <2>2, <2>3, ChildKeepsIInv
<1>3. ASSUME NEW code \in {0, 1, 2, 127}, NEW ran \in BOOLEAN,
             ChildStep(p, Ended(p, Exited(ran, code))), child.at # "none",
             child.by # "do_system" /\ ~ran => code = EXIT_FAILURE
      PROVE  IInv'
  BY <1>2, <1>3, StatusTypes
<1>4. CASE Redirect(p)
  <2>1. CASE /\ child.at = "forked" /\ child.by # "do_exec_redirect"
             /\ ChildStep(p, [child EXCEPT !.at = "exec"])
    <3> DEFINE next == [child EXCEPT !.at = "exec"]
    <3>1. next \in Child /\ next.at = "exec" /\ next.by = child.by /\ next.out = child.out
      BY <1>1 DEF Child
    <3>2. ChildInv(next)
      BY <1>1, <2>1, <3>1 DEF ChildInv
    <3> QED BY <2>1, <3>1, <3>2, ChildKeepsIInv
  <2>2. CASE /\ child.at = "forked" /\ child.by = "do_exec_redirect"
             /\ ChildStep(p, [child EXCEPT !.at = "exec", !.out = "file"])
    <3> DEFINE next == [child EXCEPT !.at = "exec", !.out = "file"]
    <3>1. next \in Child /\ next.at = "exec" /\ next.by = child.by /\ next.out = "file"
      BY <1>1 DEF Child
    <3>2. ChildInv(next)
      BY <2>2, <3>1 DEF ChildInv
    <3> QED BY <2>2, <3>1, <3>2, ChildKeepsIInv
  <2>3. CASE child.at = "forked" /\ ChildStep(p, Ended(p, Exited(FALSE, EXIT_FAILURE)))
    BY <1>3, <2>3 DEF EXIT_FAILURE
  <2> QED BY <1>4, <2>1, <2>2, <2>3 DEF Redirect
<1>5. CASE Execv(p)
  <2>1. CASE child.at = "exec" /\ ChildStep(p, [child EXCEPT !.at = "running"])
    <3> DEFINE next == [child EXCEPT !.at = "running"]
    <3>1. next \in Child /\ next.at = "running" /\ next.by = child.by /\ next.out = child.out
      BY <1>1 DEF Child
    <3>2. ChildInv(next)
      BY <1>1, <2>1, <3>1 DEF ChildInv
    <3> QED BY <2>1, <3>1, <3>2, ChildKeepsIInv
  <2>2. CASE child.at = "exec" /\ ChildStep(p, Ended(p, Exited(FALSE, EXIT_FAILURE)))
    BY <1>3, <2>2 DEF EXIT_FAILURE
  <2>3. CASE /\ child.at = "exec" /\ child.by = "do_system"
             /\ ChildStep(p, Ended(p, Exited(FALSE, 127)))
    BY <1>3, <2>3
  <2> QED BY <1>5, <2>1, <2>2, <2>3 DEF Execv
<1>6. CASE CommandEnds(p)
  <2>1. PICK status \in {Exited(TRUE, code) : code \in 0 .. 2} \cup {Killed(TRUE)} :
          child.at = "running" /\ ChildStep(p, Ended(p, status))
    BY <1>6 DEF CommandEnds
  <2>2. status \in Statuses /\ status.ran
    <3>1. CASE status = Killed(TRUE)
      BY <3>1, StatusTypes
    <3>2. ASSUME NEW code \in 0 .. 2, status = Exited(TRUE, code)
          PROVE  status \in Statuses /\ status.ran
      <4>1. code \in {0, 1, 2, 127}
        OBVIOUS
      <4> QED BY <3>2, <4>1, StatusTypes
    <3> QED BY <2>1, <3>1, <3>2
  <2> QED BY <1>2, <2>1, <2>2
<1>7. CASE KilledEarly(p)
  BY <1>2, <1>7, StatusTypes DEF KilledEarly
<1> QED BY <1>4, <1>5, <1>6, <1>7

(* The steps of the caller. *)
LEMMA CallKeepsIInv ==
  ASSUME IInv, NEW f \in Functions, Call(f)
  PROVE  IInv'
<1>1. /\ f = "do_exec_redirect" => fds < MaxFds
      /\ fn' = f /\ at' = IF f = "do_exec_redirect" THEN "open" ELSE "fork"
      /\ result' # TRUE /\ result' = NoResult /\ pid' = NoPid
      /\ UNCHANGED <<wait_status, proc, fds>>
  BY ResultAssumption DEF Call
<1>2. TypeOK'
  BY <1>1 DEF IInv, TypeOK
<1> QED BY <1>1, <1>2 DEF IInv, CallerInv, ChildInv, TrueMeansEnded, ErrorsReported

(* The output file is opened before the fork, or the call fails.           *)
LEMMA OpenOutputKeepsIInv ==
  ASSUME IInv, OpenOutput
  PROVE  IInv'
<1>1. /\ at = "open"
      /\ \/ at' = "fork" /\ fds' = fds + 1
         \/ at' = "exited" /\ UNCHANGED fds
      /\ UNCHANGED <<fn, result, wait_status, pid, proc>>
  BY DEF OpenOutput
<1>2. result # TRUE
  BY <1>1 DEF IInv, CallerInv
<1>3. fds' \in 0 .. MaxFds /\ (at' = "fork" => fds' > 0)
  BY <1>1, BoundAssumption DEF IInv, TypeOK, CallerInv
<1>4. TypeOK'
  BY <1>1, <1>3 DEF IInv, TypeOK
<1>5. CallerInv'
  BY <1>1, <1>2, <1>3 DEF IInv, CallerInv
<1> QED BY <1>1, <1>2, <1>4, <1>5 DEF IInv, ChildInv, TrueMeansEnded, ErrorsReported

(* A fork gives the caller a process of its own to wait for.               *)
LEMMA ForkKeepsIInv ==
  ASSUME IInv, Fork
  PROVE  IInv'
<1>1. at = "fork" /\ UNCHANGED <<fn, wait_status, fds>> /\ result # TRUE
  BY DEF Fork, IInv, CallerInv
<1>2. ASSUME NEW p \in Pids, proc[p].at = "none",
             proc' = [proc EXCEPT ![p] = [NoProcess EXCEPT !.at = "forked", !.by = fn]],
             pid' = p, at' = "wait", UNCHANGED result
      PROVE  IInv'
  <2> DEFINE child == [NoProcess EXCEPT !.at = "forked", !.by = fn]
  <2>1. /\ child \in Child /\ child.at = "forked" /\ child.by = fn
        /\ child.out = "terminal" /\ proc \in [Pids -> Child]
    BY StatusTypes DEF IInv, TypeOK, Child, NoProcess
  <2>2. ChildInv(child)
    BY <2>1 DEF ChildInv
  <2> HIDE DEF child
  <2>3. proc'[p] = child /\ \A q \in Pids \ {p} : proc'[q] = proc[q]
    BY <1>2, <2>1 DEF child
  <2>4. proc' \in [Pids -> Child]
    BY <1>2, <2>1 DEF child
  <2>5. TypeOK'
    BY <1>1, <1>2, <2>4 DEF IInv, TypeOK, Child
  <2>6. CallerInv'
    BY <1>1, <1>2, <2>1, <2>3 DEF IInv, CallerInv
  <2>7. (\A q \in Pids : ChildInv(proc[q]))'
    <3> SUFFICES ASSUME NEW q \in Pids PROVE ChildInv(proc'[q])
      BY DEF ChildInv
    <3> QED BY <2>2, <2>3 DEF IInv
  <2> QED BY <1>1, <1>2, <2>5, <2>6, <2>7 DEF IInv, TrueMeansEnded, ErrorsReported
<1>3. CASE ReturnFrom(FALSE) /\ UNCHANGED <<proc, pid>>
  <2>1. at' = "idle" /\ result' = FALSE
    BY <1>3 DEF ReturnFrom
  <2> QED BY <1>1, <1>3, <2>1
          DEF IInv, TypeOK, CallerInv, ChildInv, TrueMeansEnded, ErrorsReported
<1> QED BY <1>2, <1>3 DEF Fork

(* A wait collects the caller's process once it has ended.                 *)
LEMMA WaitKeepsIInv ==
  ASSUME IInv, Wait
  PROVE  IInv'
<1> DEFINE child == proc[pid]
<1>1. /\ at = "wait" /\ child.at = "zombie" /\ wait_status' = child.status
      /\ proc' = [proc EXCEPT ![pid] = NoProcess]
      /\ fds' = IF fn = "do_exec_redirect" THEN fds - 1 ELSE fds
      /\ at' = "idle" /\ result' = Succeeded(child.status)
      /\ UNCHANGED <<fn, pid>>
  BY DEF Wait, ReturnFrom
<1>2. /\ pid \in Pids /\ child.by = fn /\ child \in Child /\ ChildInv(child)
      /\ proc \in [Pids -> Child]
  BY <1>1 DEF IInv, CallerInv, TypeOK, Child
<1>3. /\ proc'[pid] = NoProcess /\ \A q \in Pids \ {pid} : proc'[q] = proc[q]
      /\ proc' \in [Pids -> Child]
  BY <1>1, <1>2, StatusTypes
<1>4. fds' \in 0 .. MaxFds
  BY <1>1, BoundAssumption DEF IInv, TypeOK, CallerInv
<1>5. result' \in BOOLEAN
  BY <1>1 DEF Succeeded
<1>6. TypeOK'
  BY <1>1, <1>2, <1>3, <1>4, <1>5 DEF IInv, TypeOK, Child
<1>7. CallerInv'
  BY <1>1 DEF CallerInv
<1>8. (\A q \in Pids : ChildInv(proc[q]))'
  <2> SUFFICES ASSUME NEW q \in Pids PROVE ChildInv(proc'[q])
    BY DEF ChildInv
  <2>1. ChildInv(NoProcess)
    BY DEF ChildInv, NoProcess
  <2> QED BY <1>3, <2>1 DEF IInv
<1>9. TrueMeansEnded'
  BY <1>1, <1>2, <1>3, StatusTypes DEF TrueMeansEnded
<1>10. ErrorsReported'
  <2> SUFFICES ASSUME result' = TRUE, fn # "do_system"
               PROVE  child.status.ran \/ child.status.ended = "killed"
    BY <1>1 DEF ErrorsReported
  <2>1. child.status.code # EXIT_FAILURE
    BY <1>1 DEF Succeeded, WEXITSTATUS
  <2> QED BY <1>1, <1>2, <2>1 DEF ChildInv
<1> QED BY <1>6, <1>7, <1>8, <1>9, <1>10 DEF IInv

(* A wait that fails makes the call fail and leaves the process behind.    *)
LEMMA WaitInterruptedKeepsIInv ==
  ASSUME IInv, WaitInterrupted
  PROVE  IInv'
<1>1. at' = "idle" /\ result' = FALSE /\ UNCHANGED <<fn, wait_status, pid, proc, fds>>
  BY DEF WaitInterrupted, ReturnFrom
<1> QED BY <1>1 DEF IInv, TypeOK, CallerInv, ChildInv, TrueMeansEnded, ErrorsReported

(* Every step keeps the inductive invariant.                               *)
LEMMA NextIInv == IInv /\ [Next]_vars => IInv'
<1> SUFFICES ASSUME IInv, [Next]_vars PROVE IInv'
  OBVIOUS
<1>1. CASE UNCHANGED vars
  BY <1>1 DEF vars, IInv, TypeOK, CallerInv, ChildInv, TrueMeansEnded, ErrorsReported
<1>2. CASE Next
  BY <1>2, CallKeepsIInv, OpenOutputKeepsIInv, ForkKeepsIInv, WaitKeepsIInv,
     WaitInterruptedKeepsIInv, ChildrenKeepIInv DEF Next, Caller
<1> QED BY <1>1, <1>2

(* The inductive invariant holds throughout.                               *)
LEMMA Invariance == Spec => []IInv
BY InitIInv, NextIInv, PTL DEF Spec

(* Every variable has its type, and no descriptor is closed that was not   *)
(* opened for the call (systemcalls.c:147, 180).                           *)
THEOREM CallTypes == Spec => []TypeOK
<1>1. IInv => TypeOK
  BY DEF IInv
<1> QED BY <1>1, Invariance, PTL

(* True means that the call's own child has ended (systemcalls.c:97, 176). *)
THEOREM TrueIsAfterTheEnd == Spec => []TrueMeansEnded
<1>1. IInv => TrueMeansEnded
  BY DEF IInv
<1> QED BY <1>1, Invariance, PTL

(* An error of dup2 or execv in the child makes do_exec and                *)
(* do_exec_redirect return false: true is of a child that became the       *)
(* command or was killed (systemcalls.c:90-105, 163-184).                  *)
THEOREM ChildErrorsAreReported == Spec => []ErrorsReported
<1>1. IInv => ErrorsReported
  BY DEF IInv
<1> QED BY <1>1, Invariance, PTL

(* A command writes where the function that started it says                *)
(* (systemcalls.c:163-168).                                                *)
THEOREM OutputGoesWhereAsked == Spec => []OutputWhereAsked
<1>1. IInv => OutputWhereAsked
  BY DEF IInv, ChildInv, OutputWhereAsked
<1> QED BY <1>1, Invariance, PTL

=============================================================================
