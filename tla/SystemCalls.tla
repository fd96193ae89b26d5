---------------------------- MODULE SystemCalls ----------------------------
(***************************************************************************)
(* The system call example (examples/systemcalls/systemcalls.c): a process  *)
(* that runs commands through do_system, do_exec and do_exec_redirect, and  *)
(* the children these start.  Every call of the kernel may fail, and a      *)
(* command may end with any status or be killed.                            *)
(***************************************************************************)
EXTENDS Integers

CONSTANTS
  Pids,              \* process ids the kernel may give a child
  NoPid, NoResult,
  MaxFds             \* bound on the output files the caller leaves open

ASSUME PidsAssumption == NoPid \notin Pids
ASSUME ResultAssumption == NoResult \notin BOOLEAN
ASSUME BoundAssumption == MaxFds \in Nat

EXIT_FAILURE == 1

Functions == {"do_system", "do_exec", "do_exec_redirect"}

(* How a child ended, and whether it was the command by then, of which     *)
(* waitpid tells nothing.  The exit status of a child that was killed      *)
(* reads 0, and that of a shell that system() could not start is 127.      *)
Statuses == [ran : BOOLEAN, ended : {"exited", "killed"}, code : {0, 1, 2, 127}]
Exited(ran, code) == [ran |-> ran, ended |-> "exited", code |-> code]
Killed(ran) == [ran |-> ran, ended |-> "killed", code |-> 0]
WEXITSTATUS(wait_status) == wait_status.code

\* A child: where it is, what started it, where it writes, how it ended.
NoProcess ==
  [at |-> "none", by |-> "do_system", out |-> "terminal", status |-> Killed(TRUE)]

VARIABLES
  fn,            \* the function called last
  at,            \* where the caller is in it
  result,        \* what it has returned
  wait_status,   \* the last status of a child
  pid,           \* the child of the call
  proc,          \* the children that waitpid has not returned yet
  fds            \* how many output files the caller has open

vars == <<fn, at, result, wait_status, pid, proc, fds>>

Init ==
  /\ fn = "do_system"
  /\ at = "idle"
  /\ result = NoResult
  /\ wait_status = Killed(TRUE)
  /\ pid = NoPid
  /\ proc = [p \in Pids |-> NoProcess]
  /\ fds = 0

-----------------------------------------------------------------------------
Call(f) ==
  /\ at = "idle"
  /\ f = "do_exec_redirect" => fds < MaxFds
  /\ fn' = f
  /\ at' = IF f = "do_exec_redirect" THEN "open" ELSE "fork"
  /\ result' = NoResult
  /\ pid' = NoPid
  /\ UNCHANGED <<wait_status, proc, fds>>

ReturnFrom(value) == at' = "idle" /\ result' = value

(* do_exec_redirect opens the file before it forks; if it cannot, it is    *)
(* the caller that exits.                                                  *)
OpenOutput ==
  /\ at = "open"
  /\ \/ at' = "fork" /\ fds' = fds + 1
     \/ at' = "exited" /\ UNCHANGED fds
  /\ UNCHANGED <<fn, result, wait_status, pid, proc>>

Fork ==
  /\ at = "fork"
  /\ \/ \E p \in Pids :
          /\ proc[p].at = "none"
          /\ proc' = [proc EXCEPT ![p] = [NoProcess EXCEPT !.at = "forked", !.by = fn]]
          /\ pid' = p
          /\ at' = "wait"
          /\ UNCHANGED result
     \/ ReturnFrom(FALSE) /\ UNCHANGED <<proc, pid>>
  /\ UNCHANGED <<fn, wait_status, fds>>

(* do_system takes any status but -1 for success, the others any but an    *)
(* exit with EXIT_FAILURE.                                                 *)
Succeeded(status) == fn = "do_system" \/ WEXITSTATUS(status) # EXIT_FAILURE

\* Mistake: the caller goes on whether or not the child has ended.
WaitNot ==
  /\ at = "wait"
  /\ wait_status' = proc[pid].status
  /\ fds' = IF fn = "do_exec_redirect" THEN fds - 1 ELSE fds
  /\ ReturnFrom(Succeeded(proc[pid].status))
  /\ UNCHANGED <<fn, pid, proc>>

\* Mistake: a file is closed whichever function was called.
WaitClosingAlways ==
  /\ at = "wait"
  /\ proc[pid].at = "zombie"
  /\ wait_status' = proc[pid].status
  /\ proc' = [proc EXCEPT ![pid] = NoProcess]
  /\ fds' = fds - 1
  /\ ReturnFrom(Succeeded(proc[pid].status))
  /\ UNCHANGED <<fn, pid>>

(* The caller waits for its own child; then it closes the file.            *)
Wait ==
  /\ at = "wait"
  /\ proc[pid].at = "zombie"
  /\ wait_status' = proc[pid].status
  /\ proc' = [proc EXCEPT ![pid] = NoProcess]
  /\ fds' = IF fn = "do_exec_redirect" THEN fds - 1 ELSE fds
  /\ ReturnFrom(Succeeded(proc[pid].status))
  /\ UNCHANGED <<fn, pid>>

(* A signal ends waitpid: the child, and the file that was opened for it,  *)
(* are left as they are.                                                   *)
WaitInterrupted ==
  /\ at = "wait"
  /\ fn # "do_system"
  /\ ReturnFrom(FALSE)
  /\ UNCHANGED <<fn, wait_status, pid, proc, fds>>

-----------------------------------------------------------------------------
ChildStep(p, next) ==
  /\ proc' = [proc EXCEPT ![p] = next]
  /\ UNCHANGED <<fn, at, result, wait_status, pid, fds>>

\* A child that is p now, after it has ended.
Ended(p, status) == [proc[p] EXCEPT !.at = "zombie", !.status = status]

\* Mistake: what dup2 returns is not looked at.
RedirectUnchecked(p) ==
  /\ proc[p].at = "forked"
  /\ \E out \in IF proc[p].by = "do_exec_redirect" THEN {"file", "terminal"}
                                                  ELSE {"terminal"} :
       ChildStep(p, [proc[p] EXCEPT !.at = "exec", !.out = out])

(* Before it becomes the command, the child of do_exec_redirect moves its  *)
(* output to the file.                                                     *)
Redirect(p) ==
  /\ proc[p].at = "forked"
  /\ \/ /\ proc[p].by # "do_exec_redirect"
        /\ ChildStep(p, [proc[p] EXCEPT !.at = "exec"])
     \/ /\ proc[p].by = "do_exec_redirect"
        /\ \/ ChildStep(p, [proc[p] EXCEPT !.at = "exec", !.out = "file"])
           \/ ChildStep(p, Ended(p, Exited(FALSE, EXIT_FAILURE)))

\* Mistake: after an execv that fails the child ends as if it had not.
ExecvFallingThrough(p) ==
  /\ proc[p].at = "exec"
  /\ \/ ChildStep(p, [proc[p] EXCEPT !.at = "running"])
     \/ ChildStep(p, Ended(p, Exited(FALSE, 0)))

Execv(p) ==
  /\ proc[p].at = "exec"
  /\ \/ ChildStep(p, [proc[p] EXCEPT !.at = "running"])
     \/ /\ proc[p].by # "do_system"
        /\ ChildStep(p, Ended(p, Exited(FALSE, EXIT_FAILURE)))
     \/ proc[p].by = "do_system" /\ ChildStep(p, Ended(p, Exited(FALSE, 127)))

(* A signal may end a child before it has become the command.              *)
KilledEarly(p) ==
  /\ proc[p].at \in {"forked", "exec"}
  /\ ChildStep(p, Ended(p, Killed(FALSE)))

CommandEnds(p) ==
  /\ proc[p].at = "running"
  /\ \E status \in {Exited(TRUE, code) : code \in 0 .. 2} \cup {Killed(TRUE)} :
       ChildStep(p, Ended(p, status))

-----------------------------------------------------------------------------
Caller ==
  \/ \E f \in Functions : Call(f)
  \/ OpenOutput \/ Fork \/ Wait \/ WaitInterrupted

Next ==
  \/ Caller
  \/ \E p \in Pids : Redirect(p) \/ Execv(p) \/ KilledEarly(p) \/ CommandEnds(p)

Spec == Init /\ [][Next]_vars

-----------------------------------------------------------------------------
(* Types, and no descriptor is closed that was not opened.                 *)
TypeOK ==
  /\ fn \in Functions
  /\ at \in {"idle", "open", "fork", "wait", "exited"}
  /\ result \in BOOLEAN \cup {NoResult}
  /\ wait_status \in Statuses
  /\ pid \in Pids \cup {NoPid}
  /\ proc \in [Pids -> [at : {"none", "forked", "exec", "running", "zombie"},
                        by : Functions, out : {"terminal", "file"},
                        status : Statuses]]
  /\ fds \in 0 .. MaxFds

(* A call that returns true has waited for its child to end, whatever      *)
(* children of earlier calls still run (systemcalls.c:97, 176).            *)
TrueMeansEnded == result = TRUE => pid \in Pids /\ proc[pid].at = "none"

(* "false if an error occurred, either in invocation of the fork, waitpid,   *)
(* or execv() command" (systemcalls.c:46-47): a child whose dup2 or execv    *)
(* failed tells the caller by the status it exits with, so that true from    *)
(* do_exec or do_exec_redirect is of a child that became the command or was  *)
(* killed (systemcalls.c:90-105, 163-184).  It may be of one killed before   *)
(* it was the command, whose status reads 0.                                 *)
ErrorsReported ==
  result = TRUE /\ fn # "do_system" => wait_status.ran \/ wait_status.ended = "killed"

(* A command writes to the file exactly when do_exec_redirect started it   *)
(* (systemcalls.c:163-168).                                                *)
OutputWhereAsked ==
  \A p \in Pids :
    proc[p].at = "running" =>
      (proc[p].out = "file" <=> proc[p].by = "do_exec_redirect")

(* "false if an error occurred, ... or if a non-zero return value was      *)
(* returned by the command" (systemcalls.c:10-13, 45-48).                  *)
TrueMeansSuccess == result = TRUE => wait_status = Exited(TRUE, 0)

=============================================================================
