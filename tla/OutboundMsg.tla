----------------------------- MODULE OutboundMsg -----------------------------
(***************************************************************************)
(* The messages of the outbound bus (PcMsg of src/src/bus.rs), as far as   *)
(* the outbound threads tell them apart: [id, channel, reply, kind].       *)
(*                                                                         *)
(* "reply" stands for the pair (req_id, chat_id): two primaries of one     *)
(* channel with one reply answer the same request in the same chat.        *)
(* "kind" is "Primary", "Supplemental" (OutboundKind), or "Silent" for     *)
(* what the worker consumes without sending: the content SILENT and the    *)
(* pseudo channel cron.                                                    *)
(***************************************************************************)
Supplemental(m) == m.kind = "Supplemental"
Primary(m)      == m.kind = "Primary"
Silent(m)       == m.kind = "Silent"
=============================================================================
