----------------------------- MODULE MCCompute -----------------------------
(* Two embedding calls and a completion contend for the gate. *)
EXTENDS Compute

CONSTANTS e1, e2, l1

MCEmbeds == {e1, e2}
MCCompletes == {l1}
=============================================================================
