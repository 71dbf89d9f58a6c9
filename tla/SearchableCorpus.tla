--------------------------- MODULE SearchableCorpus ---------------------------
(***************************************************************************)
(* What ingestion promises to a writer who searches, with no index, files, *)
(* goroutines or restarts: chunks come to be found, stay found, and are    *)
(* withdrawn with all others of their file when it is uploaded again; an   *)
(* upload reported done has all its chunks.  internal/pipeline and         *)
(* internal/indexer implement it (SearchRefinement), in whichever way and  *)
(* however often the program goes down.                                    *)
(***************************************************************************)
CONSTANTS
  Upload, Chunk,
  ChunksOf(_),      \* the chunks an upload makes
  SameFile(_, _)    \* whether two uploads are of one file

VARIABLES
  found,            \* the chunks a search can find
  withdrawn,        \* the chunks that never will be (again)
  reported          \* the uploads reported done

vars == <<found, withdrawn, reported>>

Init == found = {} /\ withdrawn = {} /\ reported = {}

Publish ==
  /\ \E cs \in SUBSET (Chunk \ (found \cup withdrawn)) : found' = found \cup cs
  /\ UNCHANGED <<withdrawn, reported>>

(* Chunks of the file that are stored and not yet found go with the rest.  *)
Withdraw(u) ==
  LET file == UNION {ChunksOf(v) : v \in {w \in Upload : SameFile(u, w)}}
  IN  /\ found' = found \ file
      /\ \E cs \in SUBSET (file \ (found \cup withdrawn)) :
           withdrawn' = withdrawn \cup cs \cup (found \cap file)
      /\ UNCHANGED reported

Report(u) ==
  /\ ChunksOf(u) \subseteq found \cup withdrawn
  /\ reported' = reported \cup {u}
  /\ UNCHANGED <<found, withdrawn>>

Next ==
  \/ Publish
  \/ \E u \in Upload : Withdraw(u) \/ Report(u)

Spec == Init /\ [][Next]_vars

=============================================================================
