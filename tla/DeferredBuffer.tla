--------------------------- MODULE DeferredBuffer ---------------------------
(***************************************************************************)
(* The buffer of deferred replies that the outbound worker of              *)
(* src/src/channels/dispatch.rs keeps for the channels it may not send to  *)
(* now: a VecDeque<PcMsg>, oldest first, local to the worker's thread.     *)
(***************************************************************************)
EXTENDS OutboundMsg, Naturals, SequencesExt

CONSTANTS
  BufferMax,   \* COOLDOWN_BUFFER_MAX (16 on ESP, 64 on a host)
  NoReply      \* the reply of a message without req_id

ASSUME BufferAssumption == BufferMax \in Nat

First(S) == CHOOSE i \in S : \A j \in S : i <= j

\* Where a primary finds an older answer to its own request.
SameReply(buffer, m) ==
  {i \in DOMAIN buffer :
     /\ ~Supplemental(m) /\ m.reply # NoReply
     /\ ~Supplemental(buffer[i])
     /\ buffer[i].reply = m.reply
     /\ buffer[i].channel = m.channel}

\* Seeded fault: the length is compared with <=.
PushOneTooMany(buffer, m) ==
  LET same == SameReply(buffer, m)
  IN  CASE same # {} -> [buffer |-> ReplaceAt(buffer, First(same), m),
                         out |-> {buffer[First(same)]}]
        [] same = {} /\ Len(buffer) <= BufferMax ->
             [buffer |-> Append(buffer, m), out |-> {}]
        [] OTHER -> [buffer |-> buffer, out |-> {m}]

(* try_push_buffered_msg: the buffer afterwards, and the messages that are *)
(* no longer anywhere ("out" = {m} is Full for a primary, Dropped for a    *)
(* supplemental).                                                          *)
TryPush(buffer, m) ==
  LET same == SameReply(buffer, m)
      weak == {i \in DOMAIN buffer : Supplemental(buffer[i])}
  IN  CASE same # {} ->
             [buffer |-> ReplaceAt(buffer, First(same), m),
              out |-> {buffer[First(same)]}]
        [] same = {} /\ Len(buffer) < BufferMax ->
             [buffer |-> Append(buffer, m), out |-> {}]
        [] same = {} /\ Len(buffer) >= BufferMax /\ ~Supplemental(m) /\ weak # {} ->
             [buffer |-> Append(RemoveAt(buffer, First(weak)), m),
              out |-> {buffer[First(weak)]}]
        [] OTHER -> [buffer |-> buffer, out |-> {m}]

Refused(buffer, m) == m \in TryPush(buffer, m).out
=============================================================================
