------------------------------ MODULE MCOutline ------------------------------
(***************************************************************************)
(* OutlineService for TLC, with several requests in flight.                *)
(***************************************************************************)
EXTENDS OutlineService, TLC

SessionSymmetry == Permutations(Sessions)

(* -1 is what a client may send for the top; Move makes it 0. *)
MovePositions == {-1, 1}

=============================================================================
