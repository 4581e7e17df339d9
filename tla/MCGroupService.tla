--------------------------- MODULE MCGroupService ---------------------------
(* GroupService for TLC: callers, and peers, are interchangeable. *)
EXTENDS GroupService, TLC

Symmetry == Permutations(Callers) \cup Permutations(Peers)
=============================================================================
