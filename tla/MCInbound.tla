------------------------------ MODULE MCInbound ------------------------------
(* Instances of Inbound: two user messages with the same text in one chat  *)
(* of a gateway channel, one of another channel, and two system messages.  *)
EXTENDS Inbound

CONSTANTS u1, u2, u3, s1, s2, kUser, kOther

Key(m) == IF m \in {u1, u2} THEN kUser ELSE kOther

Tries(m) == IF m = u3 THEN 1 ELSE 2
=============================================================================
