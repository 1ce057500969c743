---------------------------- MODULE MCChatStream ----------------------------
(* Two requests that say the same, or one.                                  *)
EXTENDS ChatStream, TLC

CONSTANTS first, second, hello

\* The message of the second request is only ever put off or given up.
TwoAndNone == (first :> 2) @@ (second :> 0)
Two == [r \in Requests |-> 2]
SayHello == [r \in Requests |-> hello]
=============================================================================
