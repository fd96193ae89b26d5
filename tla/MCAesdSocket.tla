---------------------------- MODULE MCAesdSocket ----------------------------
EXTENDS AesdSocket

CONSTANTS c1, c2, x, y

Scenario(message, mishaps) ==
  [message |-> message, mishaps |-> mishaps, unread |-> {}, held |-> << >>]

(* Nothing goes wrong, and a newline may end a recv before a client's last; *)
(* a client that stops in its line, and calls fail; a signal; a signal and  *)
(* a client that is silent, or one that does not read; a device that holds  *)
(* a line from before.                                                      *)
MCScenarios ==
  { Scenario((c1 :> <<NL, x, NL>>) @@ (c2 :> <<y, NL>>), {}),
    Scenario((c1 :> <<y, NL>>) @@ (c2 :> <<x>>), {"leave", "write", "call"}),
    Scenario((c1 :> <<NL>>) @@ (c2 :> <<NL>>), {"signal"}),
    Scenario((c1 :> <<y, NL>>) @@ (c2 :> << >>), {"signal"}),
    [Scenario((c1 :> <<y, NL>>) @@ (c2 :> << >>), {"signal"}) EXCEPT !.unread = {c1}],
    [Scenario((c1 :> <<y, NL>>) @@ (c2 :> <<NL>>), {}) EXCEPT !.held = <<<<NL>>>>] }

\* The shortest line, from everyone, and nothing goes wrong.
MCShortLines == {Scenario([c \in Clients |-> <<NL>>], {})}

=============================================================================
