---------------------------- MODULE MCGroupDedup ----------------------------
(* GroupDedup for TLC: callers, message IDs and members are interchangeable. *)
EXTENDS GroupDedup, TLC

Symmetry == Permutations(Callers) \cup Permutations(Ids) \cup Permutations(Members)
=============================================================================
