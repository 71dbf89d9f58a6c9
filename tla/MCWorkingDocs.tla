---------------------------- MODULE MCWorkingDocs ----------------------------
(***************************************************************************)
(* WorkingDocs for TLC.                                                    *)
(***************************************************************************)
EXTENDS WorkingDocs, TLC

=============================================================================
