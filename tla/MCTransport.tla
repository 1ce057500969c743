----------------------------- MODULE MCTransport -----------------------------
(* Two gateways, the voice thread, two configuration requests, one caller.  *)
EXTENDS Transport

CONSTANTS qq, feishu, voice, save, scan, call
=============================================================================
