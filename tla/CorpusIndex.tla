----------------------------- MODULE CorpusIndex -----------------------------
(***************************************************************************)
(* The chunks table of a corpus (internal/corpus) and the search index     *)
(* over it (internal/search) as values: which chunk has a row, which has   *)
(* an embedding and of which model, which the keyword and passage indexes  *)
(* hold, which the vector index holds.  A chunk is a piece of the file its *)
(* upload brought; its text is not looked at.                              *)
(***************************************************************************)
EXTENDS Naturals, FiniteSets

CONSTANTS
  Upload,    \* files handed in: ids of uploads, and of imported embedding files
  Pieces,    \* Pieces[u]: the number of chunks the file u makes
  FileName,  \* FileName[u]: its base name, by which a re-upload supersedes
  Model,     \* embedding models the program is built with over time
  None       \* no model, no chunk

ASSUME CorpusAssumption ==
  /\ Pieces \in [Upload -> Nat \ {0}]
  /\ DOMAIN FileName = Upload
  /\ None \notin Model

Chunk == UNION {{<<u, i>> : i \in 1..Pieces[u]} : u \in Upload}

ASSUME NoChunk == None \notin Chunk

ChunksOf(u) == {c \in Chunk : c[1] = u}

(* A chunk has no row yet, a row, or a row with deleted_at set.            *)
Row == {"none", "live", "superseded"}

(* A vector of each chunk, known by the model that computed it.            *)
Vectors == [Chunk -> Model \cup {None}]

NoVectors == [c \in Chunk |-> None]

Live(row) == {c \in Chunk : row[c] = "live"}

SameFile(u, v) == FileName[u] = FileName[v]

(* SoftDeleteChunksBySourceFile of the file u.                             *)
Superseded(row, u) ==
  [c \in Chunk |-> IF row[c] = "live" /\ SameFile(u, c[1]) THEN "superseded" ELSE row[c]]

Missing(row, emb) == {c \in Live(row) : emb[c] = None}

(* LoadAndReconcile: the files' contents, and what the table has that they *)
(* lack.  IndexChunk of a chunk the keyword index lacks brings its vector. *)
LackWords(row, file) == Live(row) \ file

(* Mutant: a snapshot, if there is one, is taken to be complete.           *)
LoadedWords(row, file) == IF file = {} THEN Live(row) ELSE file

ReconciledWords(row, file) == file \cup LackWords(row, file)

(* The passages are in no file and are rebuilt from every live chunk.      *)
RebuiltPassages(row, file) == Live(row)

(* Mutant: vectors are restored with the chunks the words file lacks only. *)
LackBoth(row, emb, file, vecs) == {c \in Live(row) : emb[c] # None /\ c \notin file}

LackVector(row, emb, file, vecs) ==
  {c \in Live(row) : emb[c] # None /\ (c \notin file \/ vecs[c] = None)}

ReconciledVectors(row, emb, file, vecs) ==
  [c \in Chunk |-> IF c \in LackVector(row, emb, file, vecs) THEN emb[c] ELSE vecs[c]]

=============================================================================
