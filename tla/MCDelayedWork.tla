---------------------------- MODULE MCDelayedWork ----------------------------
(* Instances of DelayedWork: one coalesce key.                             *)
EXTENDS DelayedWork

CONSTANT k1
=============================================================================
