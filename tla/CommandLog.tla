----------------------------- MODULE CommandLog -----------------------------
(***************************************************************************)
(* What the circular buffer promises its callers (the comments of          *)
(* aesd-circular-buffer.c and .h): it remembers the entries of the last    *)
(* Capacity writes, oldest first, and an entry past the capacity displaces *)
(* the oldest one.                                                         *)
(***************************************************************************)
EXTENDS Naturals, Sequences

CONSTANTS Capacity, Entries

VARIABLE log

Push(s, e) == IF Len(s) = Capacity THEN Append(Tail(s), e) ELSE Append(s, e)

Init == log = << >>

Add(e) == log' = Push(log, e)

Next == \E e \in Entries : Add(e)

Spec == Init /\ [][Next]_log

=============================================================================
