------------------------------- MODULE MCLease -------------------------------
(* Symmetry for the bounded instances of Lease. *)
EXTENDS Lease, TLC

MCSymmetry == Permutations(Guards) \cup Permutations(Owners) \cup Permutations(Kinds)
=============================================================================
