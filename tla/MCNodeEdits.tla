----------------------------- MODULE MCNodeEdits -----------------------------
(***************************************************************************)
(* NodeEdits for TLC.                                                      *)
(***************************************************************************)
EXTENDS NodeEdits, TLC

ClientSymmetry == Permutations(Client)

(* A prefix (from before the quote), an inner character, a suffix (to behind *)
(* the quote), and a selection of nothing.                                  *)
QuoteSelections == {<<-1, 1>>, <<1, 2>>, <<1, 4>>, <<2, 1>>}

=============================================================================
