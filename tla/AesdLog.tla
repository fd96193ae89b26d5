------------------------------ MODULE AesdLog ------------------------------
(***************************************************************************)
(* What /dev/aesdchar promises the processes that use it, every call taking *)
(* effect at one instant between its start and its return:                  *)
(*   - bytes written wait in `partial` until they hold a newline; then they *)
(*     become one command of the log, which keeps the last Capacity of them *)
(*     (aesd-char-driver/main.c:206-221);                                   *)
(*   - a read returns bytes of the commands laid end to end, from the       *)
(*     file's position to at most the end of one command, and moves the     *)
(*     position past them (main.c:98-122);                                  *)
(*   - a call that fails changes nothing;                                   *)
(*   - nothing outlives the module (main.c:265).                            *)
(***************************************************************************)
EXTENDS Integers, SequencesExt

CONSTANTS
  Procs,      \* processes, each with one open file
  Capacity,   \* commands the log keeps
  NL,         \* the newline byte
  Inputs,     \* what a process may pass to write()
  Counts,     \* how much a process may ask read() for
  Errors,     \* what a failed call returns
  MayFault,   \* whether a process's memory may turn out to be inaccessible
  MayReload,  \* whether the module may be unloaded and loaded again
  NoReply     \* the reply of a process whose call has not taken effect

VARIABLES log, partial, f_pos, ubuf, reply

vars == <<log, partial, f_pos, ubuf, reply>>

Push(s, e) == IF Len(s) = Capacity THEN Append(Tail(s), e) ELSE Append(s, e)

\* The first k bytes of an input of n bytes that a call transfers.
Transferred(n) == IF MayFault THEN 0 .. n ELSE {n}

Init ==
  /\ log = << >>
  /\ partial = << >>
  /\ f_pos = [p \in Procs |-> 0]
  /\ ubuf = [p \in Procs |-> << >>]
  /\ reply = [p \in Procs |-> NoReply]

Open(p) ==
  /\ reply[p] = NoReply
  /\ f_pos' = [f_pos EXCEPT ![p] = 0]
  /\ UNCHANGED <<log, partial, ubuf, reply>>

Write(p, s) ==
  LET line == partial \o s IN
  /\ reply[p] = NoReply
  /\ reply' = [reply EXCEPT ![p] = Len(s)]
  /\ IF Contains(line, NL)
     THEN log' = Push(log, line) /\ partial' = << >>
     ELSE partial' = line /\ UNCHANGED log
  /\ UNCHANGED <<f_pos, ubuf>>

\* The bytes from position pos to the end of the command it falls into.
RestOfCommand(pos) ==
  LET start(i) == Len(FlattenSeq(SubSeq(log, 1, i - 1)))
      at == {i \in 1 .. Len(log) : start(i) <= pos /\ pos < start(i) + Len(log[i])}
  IN IF at = {} THEN << >>
     ELSE LET i == CHOOSE i \in at : TRUE
          IN SubSeq(log[i], pos - start(i) + 1, Len(log[i]))

Read(p, count) ==
  LET rest == RestOfCommand(f_pos[p]) IN
  /\ reply[p] = NoReply
  /\ \E k \in Transferred(IF Len(rest) > count THEN count ELSE Len(rest)) :
       /\ ubuf' = [ubuf EXCEPT ![p] = SubSeq(rest, 1, k)]
       /\ f_pos' = [f_pos EXCEPT ![p] = @ + k]
       /\ reply' = [reply EXCEPT ![p] = k]
  /\ UNCHANGED <<log, partial>>

Fail(p, error) ==
  /\ reply[p] = NoReply
  /\ reply' = [reply EXCEPT ![p] = error]
  /\ UNCHANGED <<log, partial, f_pos, ubuf>>

Return(p) ==
  /\ reply[p] # NoReply
  /\ reply' = [reply EXCEPT ![p] = NoReply]
  /\ ubuf' = [ubuf EXCEPT ![p] = << >>]
  /\ UNCHANGED <<log, partial, f_pos>>

Reload ==
  /\ MayReload
  /\ \A p \in Procs : reply[p] = NoReply
  /\ log' = << >>
  /\ partial' = << >>
  /\ UNCHANGED <<f_pos, ubuf, reply>>

Next ==
  \/ Reload
  \/ \E p \in Procs :
    \/ Open(p)
    \/ \E s \in Inputs : \E k \in Transferred(Len(s)) : Write(p, SubSeq(s, 1, k))
    \/ \E count \in Counts : Read(p, count)
    \/ \E error \in Errors : Fail(p, error)
    \/ Return(p)

Spec == Init /\ [][Next]_vars

=============================================================================
