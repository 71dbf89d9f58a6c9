----------------------------- MODULE MCRevisions -----------------------------
(***************************************************************************)
(* Revisions for TLC.  The ids of a kind are interchangeable.              *)
(***************************************************************************)
EXTENDS Revisions, TLC

IdSymmetry ==
  Permutations(Node) \cup Permutations(Branch) \cup Permutations(Sessions)

=============================================================================
