--------------------------- MODULE MCSharedCorpus ---------------------------
(* Two sessions share a corpus, with three starts between them.  After two *)
(* of them raced for the lock only the lock goes on: the atlas claims      *)
(* nothing then, and its steps would multiply the states by ten.           *)
EXTENDS SharedCorpus

CONSTANTS s1, s2

MCSession == {s1, s2}

AtlasWhileNotRaced == raced => \/ UNCHANGED atlasVars
                               \/ \E s \in Session : Stop(s)

MCSpec == Init /\ [][Next /\ AtlasWhileNotRaced]_vars /\ Fairness
=============================================================================
