--------------------------- MODULE CorpusSessions ---------------------------
(* The sessions that share a corpus: processes started by cmd/shuttle, one *)
(* per project, each bound to the same corpus directory.                   *)
EXTENDS Naturals

CONSTANT Session
=============================================================================
