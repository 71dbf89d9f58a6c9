----------------------------- MODULE MCIngestion -----------------------------
(***************************************************************************)
(* Ingestion for TLC: two files of one name, of two chunks and of one, or  *)
(* of one each where the program is started three times.                   *)
(***************************************************************************)
EXTENDS SearchRefinement, Sequences

CONSTANTS u1, u2

MCPieces == [u \in Upload |-> IF u = u1 THEN 2 ELSE 1]

MCOnePiece == [u \in Upload |-> 1]

MCFileName == [u \in Upload |-> "interview.txt"]

=============================================================================
