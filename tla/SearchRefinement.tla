--------------------------- MODULE SearchRefinement ---------------------------
(***************************************************************************)
(* The refinement from Ingestion to SearchableCorpus: found is what both   *)
(* the keyword and the passage index have of the chunks that are not       *)
(* superseded.  While the program is not serving, that is what it will     *)
(* find when it is.                                                        *)
(***************************************************************************)
EXTENDS Ingestion

Found == Live(row) \cap IF Serving THEN words \cap passages ELSE Chunk

Searchable == INSTANCE SearchableCorpus
                WITH found <- Found,
                     withdrawn <- {c \in Chunk : row[c] = "superseded"},
                     reported <- {u \in Upload : status[u] = "done"}

(* What is found behaves as SearchableCorpus: no restart, lost file or     *)
(* cancelled upload makes a found chunk disappear or a superseded one come *)
(* back, and done means that every chunk was found.                        *)
ImplementsSearchable == Searchable!Spec

=============================================================================
