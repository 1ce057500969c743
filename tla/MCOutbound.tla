----------------------------- MODULE MCOutbound -----------------------------
(* Instances of Outbound: an instant-messaging channel, the voice sink,    *)
(* and a channel nobody registered a sink for.                             *)
EXTENDS Outbound

CONSTANTS im, voice, ghost

Message(id, channel, reply, kind) ==
  [id |-> id, channel |-> channel, reply |-> reply, kind |-> kind]

\* Two primaries for the IM channel and a reply for a channel without a sink,
\* one more than the buffer holds.
HostMsgs ==
  {Message(1, im, "r1", "Primary"), Message(2, im, "r2", "Primary"),
   Message(3, ghost, NoReply, "Primary")}

\* Three primaries for the active channel, two of them answers to one request,
\* one for the voice channel, whose sink may be full; a supplemental; and a
\* reply to a channel without a sink.  The buffer holds two.
EspMsgs ==
  {Message(1, im, "r1", "Primary"), Message(2, im, "r2", "Primary"),
   Message(3, ghost, NoReply, "Primary"), Message(4, im, "r1", "Supplemental"),
   Message(5, im, "r1", "Primary"), Message(6, voice, NoReply, "Primary")}
=============================================================================
