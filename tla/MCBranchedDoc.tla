---------------------------- MODULE MCBranchedDoc ----------------------------
(***************************************************************************)
(* Revisions for TLC with one client, and its refinement of BranchedDoc.   *)
(***************************************************************************)
EXTENDS Revisions, TLC

IdSymmetry == Permutations(Node) \cup Permutations(Branch)

=============================================================================
