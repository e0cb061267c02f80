---------------------------- MODULE MCHierarchy ----------------------------
(* Instances of Hierarchy for TLC. *)
EXTENDS Hierarchy, TLC

Symmetry == Permutations(Nodes) \cup Permutations(Calls)
=============================================================================
