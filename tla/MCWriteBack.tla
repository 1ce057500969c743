----------------------------- MODULE MCWriteBack -----------------------------
(* The bounded instance of WriteBack. *)
EXTENDS WriteBack
=============================================================================
