--------------------------- MODULE MCOutlineForest ---------------------------
(***************************************************************************)
(* OutlineService for TLC with one request rearranging bullets at a time,  *)
(* and the refinement of OutlineForest.                                    *)
(***************************************************************************)
EXTENDS ForestRefinement

=============================================================================
