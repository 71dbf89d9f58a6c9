------------------------------ MODULE Ingestion ------------------------------
(***************************************************************************)
(* From an uploaded transcript to a chunk that is found: the pipeline      *)
(* (internal/pipeline), the embedding backfiller, the snapshotter and the  *)
(* reconciliation on start (internal/indexer), the index they share        *)
(* (internal/search), and stops and starts of the program (cmd/shuttle).   *)
(*                                                                         *)
(* Each upload and each import runs in a goroutine of its own that nothing *)
(* waits for at shutdown; the backfiller and the snapshotter are one       *)
(* goroutine each.  A step is one statement on the corpus database, one    *)
(* locked operation on the in-memory index, or one file replaced.          *)
(* When the program goes down, all but the tables and two files is gone.   *)
(*                                                                         *)
(* job[u]: what the file u is at:                                          *)
(*   at      the next step ("idle": no goroutine works on it)              *)
(*   piece   the chunk it is at                                            *)
(* fill: the backfiller: at, the chunks of its batch to do, the one it is at *)
(* snap: the snapshotter: at, and whether this flush is the final one      *)
(***************************************************************************)
EXTENDS CorpusIndex

CONSTANTS
  Embedded,      \* the files that are imported with their embeddings
  Batch,         \* chunks embedded in one call
  MaxStarts,     \* bound: times the program is started
  MaxFailures    \* bound: failing statements, writes and unreadable files

ASSUME IngestionAssumption ==
  /\ Embedded \subseteq Upload
  /\ Batch \in Nat \ {0} /\ MaxStarts \in Nat /\ MaxFailures \in Nat

VARIABLES
  row, emb,        \* chunk -> its row, its stored embedding
  status,          \* upload -> its row's status, "none" without a row
  meta,            \* the model the stored embeddings are recorded to be of
  wordsFile, vectorsFile,      \* the two snapshot files
  words, passages, vectors,    \* the index in memory
  dirty,           \* the index has changes that are in no file
  phase, model,    \* where the program is between start and stop; its model
  job, fill, snap,
  starts, failures,
  raced,           \* history: uploads that ran beside another of their file,
                   \* or whose superseding failed
  leftover,        \* history: the vectors file of a former model was not removed
  brought,         \* history: import -> the model of the vectors it came with,
                   \* None once a change of models has cleared them
  broken           \* history: imports whose indexing broke off since the start

tables == <<row, emb, status, meta>>
files == <<wordsFile, vectorsFile>>
memory == <<words, passages, vectors, dirty>>
workers == <<job, fill, snap>>
history == <<raced, leftover, brought, broken>>
vars == <<tables, files, memory, phase, model, workers, starts, failures, history>>

Status == {"none", "pending", "transcribing", "done", "failed"}

Phase == {"down", "clear", "remove", "stamp", "load", "up", "stopping"}

JobAt == {"idle", "begin", "supersede", "create", "index", "vector", "mark",
          "finish", "fail"}

Job == [at : JobAt, piece : Nat]

Fill == [at : {"idle", "embed", "store", "index", "mark", "stopped"},
         todo : SUBSET Chunk, chunk : Chunk \cup {None}]

Snap == [at : {"idle", "words", "vectors", "stopped"}, final : BOOLEAN]

NoJob == [at |-> "idle", piece |-> 0]

Resting == [at |-> "idle", todo |-> {}, chunk |-> None]

Waiting == [at |-> "idle", final |-> FALSE]

Serving == phase \in {"up", "stopping"}

(* A new corpus, and the program not yet started on it.                    *)
Init ==
  /\ row = [c \in Chunk |-> "none"] /\ emb = NoVectors
  /\ status = [u \in Upload |-> "none"]
  /\ meta = None
  /\ wordsFile = {} /\ vectorsFile = NoVectors
  /\ words = {} /\ passages = {} /\ vectors = NoVectors /\ dirty = FALSE
  /\ phase = "down" /\ model = None
  /\ job = [u \in Upload |-> NoJob] /\ fill = Resting /\ snap = Waiting
  /\ starts = 0 /\ failures = 0
  /\ raced = {} /\ leftover = FALSE
  /\ brought = [u \in Upload |-> None] /\ broken = {}

(* A statement or a write fails, within the bound, or works.               *)
Fails == failures < MaxFailures /\ failures' = failures + 1

Works == UNCHANGED failures

-----------------------------------------------------------------------------
(* Files arrive while the program serves requests.  Accept makes the       *)
(* upload's row and Start runs the rest in a goroutine.  An import has no  *)
(* row: its chunks arrive with their vectors and are stored at once.       *)

Go(u, at) == job' = [job EXCEPT ![u].at = at]

End(u) == job' = [job EXCEPT ![u] = NoJob]

NotSeen(u) == status[u] = "none" /\ \A c \in ChunksOf(u) : row[c] = "none"

Beside(u) == {v \in Upload \ Embedded : job[v].at # "idle" /\ SameFile(u, v)}

Accept(u) ==
  /\ Serving /\ u \notin Embedded /\ NotSeen(u)
  /\ status' = [status EXCEPT ![u] = "pending"]
  /\ job' = [job EXCEPT ![u] = [at |-> "begin", piece |-> 1]]
  /\ raced' = IF Beside(u) = {} THEN raced ELSE raced \cup Beside(u) \cup {u}
  /\ UNCHANGED <<row, emb, meta, files, memory, phase, model, fill, snap, starts, failures, leftover, brought, broken>>

(* Nothing asks which model the vectors in the file are of.                *)
Import(u) ==
  /\ Serving /\ u \in Embedded /\ NotSeen(u)
  /\ row' = [c \in Chunk |-> IF c[1] = u THEN "live" ELSE row[c]]
  /\ \E m \in Model :
       /\ emb' = [c \in Chunk |-> IF c[1] = u THEN m ELSE emb[c]]
       /\ brought' = [brought EXCEPT ![u] = m]
  /\ job' = [job EXCEPT ![u] = [at |-> "index", piece |-> 1]]
  /\ UNCHANGED <<status, meta, files, memory, phase, model, fill, snap, starts, failures, raced, leftover, broken>>

-----------------------------------------------------------------------------
(* Ingester.run.  The errors of recording a status and of superseding are  *)
(* ignored; any other ends the upload as failed.                           *)

Record(u, st) ==
  \/ Works /\ status' = [status EXCEPT ![u] = st]
  \/ Fails /\ UNCHANGED status

(* Also reads and parses the file and stores its segments, which nothing   *)
(* else looks at.  An empty transcript fails, too.                         *)
Begin(u) ==
  /\ job[u].at = "begin"
  /\ Record(u, "transcribing")
  /\ \E at \in {"supersede", "fail"} : Go(u, at)
  /\ UNCHANGED <<row, emb, meta, files, memory, phase, model, fill, snap, starts, history>>

Supersede(u) ==
  /\ job[u].at = "supersede"
  /\ \/ Works /\ row' = Superseded(row, u) /\ UNCHANGED raced
     \/ Fails /\ UNCHANGED row /\ raced' = raced \cup {u}
  /\ Go(u, "create")
  /\ UNCHANGED <<emb, status, meta, files, memory, phase, model, fill, snap, starts, leftover, brought, broken>>

At(u) == <<u, job[u].piece>>

Create(u) ==
  /\ job[u].at = "create"
  /\ \/ Works /\ row' = [row EXCEPT ![At(u)] = "live"] /\ Go(u, "index")
     \/ Fails /\ UNCHANGED row /\ Go(u, "fail")
  /\ UNCHANGED <<emb, status, meta, files, memory, phase, model, fill, snap, starts, history>>

(* IndexChunk: the keyword and passage indexes, the vector if the chunk    *)
(* came with one, and the dirty flag last.                                 *)
Index(u) ==
  /\ job[u].at = "index"
  /\ words' = words \cup {At(u)}
  /\ passages' = passages \cup {At(u)}
  /\ Go(u, IF u \in Embedded THEN "vector" ELSE "mark")
  /\ UNCHANGED <<tables, files, vectors, dirty, phase, model, fill, snap, starts, failures, history>>

IndexVector(u) ==
  /\ job[u].at = "vector"
  /\ vectors' = [vectors EXCEPT ![At(u)] = emb[At(u)]]
  /\ Go(u, "mark")
  /\ UNCHANGED <<tables, files, words, passages, dirty, phase, model, fill, snap, starts, failures, history>>

(* The graph of vectors panics when handed one of another dimension than   *)
(* its own, as vectors of two models may be.  The request is answered with *)
(* an error, and the rest of the import stays out of the index until the   *)
(* next start.  (In the backfiller or on loading the same panic ends the   *)
(* program, which Crash covers.)                                           *)
Refuse(u) ==
  /\ job[u].at = "vector"
  /\ \E c \in Chunk : vectors[c] \notin {None, emb[At(u)]}
  /\ End(u)
  /\ broken' = broken \cup {u}
  /\ UNCHANGED <<tables, files, memory, phase, model, fill, snap, starts, failures, raced, leftover, brought>>

(* Mutant: the last chunk is forgotten.                                    *)
NextButLast(u) ==
  IF job[u].piece + 1 < Pieces[u]
  THEN job' = [job EXCEPT ![u] = [at |-> IF u \in Embedded THEN "index" ELSE "create",
                                  piece |-> @.piece + 1]]
  ELSE IF u \in Embedded THEN End(u) ELSE Go(u, "finish")

NextPiece(u) ==
  IF job[u].piece < Pieces[u]
  THEN job' = [job EXCEPT ![u] = [at |-> IF u \in Embedded THEN "index" ELSE "create",
                                  piece |-> @.piece + 1]]
  ELSE IF u \in Embedded THEN End(u) ELSE Go(u, "finish")

Mark(u) ==
  /\ job[u].at = "mark"
  /\ dirty' = TRUE
  /\ NextPiece(u)
  /\ UNCHANGED <<tables, files, words, passages, vectors, phase, model, fill, snap, starts, failures, history>>

(* AfterIngest only wakes the backfiller before its next tick.             *)
Finish(u) ==
  /\ job[u].at = "finish"
  /\ Record(u, "done")
  /\ End(u)
  /\ UNCHANGED <<row, emb, meta, files, memory, phase, model, fill, snap, starts, history>>

FailUpload(u) ==
  /\ job[u].at = "fail"
  /\ Record(u, "failed")
  /\ End(u)
  /\ UNCHANGED <<row, emb, meta, files, memory, phase, model, fill, snap, starts, history>>

Work(u) ==
  \/ Begin(u) \/ Supersede(u) \/ Create(u) \/ Index(u) \/ IndexVector(u)
  \/ Refuse(u) \/ Mark(u) \/ Finish(u) \/ FailUpload(u)

-----------------------------------------------------------------------------
(* The backfiller, on a tick or a nudge: drain lists and embeds batch      *)
(* after batch until none is missing, the embedder or a statement fails,   *)
(* or the program stops.  The batch is the oldest chunks; which those are  *)
(* is left open.                                                           *)

List ==
  /\ fill.at = "idle" /\ phase = "up"
  /\ LET lack == Missing(row, emb) IN
       \E b \in SUBSET lack \ {{}} :
         /\ Cardinality(b) <= Batch
         /\ Cardinality(b) = Batch \/ b = lack
         /\ fill' = [at |-> "embed", todo |-> b, chunk |-> None]
  /\ UNCHANGED <<tables, files, memory, phase, model, job, snap, starts, failures, history>>

(* Mutant: the backfiller ends with the first error.                       *)
GiveUpForGood ==
  /\ fill.at = "embed"
  /\ fill' = [Resting EXCEPT !.at = "stopped"]
  /\ UNCHANGED <<tables, files, memory, phase, model, job, snap, starts, failures, history>>

(* The embedder is not ready, or the program stops meanwhile.              *)
GiveUp ==
  /\ fill.at = "embed"
  /\ fill' = Resting
  /\ UNCHANGED <<tables, files, memory, phase, model, job, snap, starts, failures, history>>

(* The batch is embedded, or was before.  SetChunkEmbedding, whatever has   *)
(* become of the chunk since it was listed.                                *)
StoreEmbedding ==
  /\ fill.at \in {"embed", "store"}
  /\ \/ \E c \in fill.todo :
          /\ Works
          /\ emb' = [emb EXCEPT ![c] = model]
          /\ fill' = [fill EXCEPT !.at = "index", !.chunk = c]
     \/ Fails /\ UNCHANGED emb /\ fill' = Resting
  /\ UNCHANGED <<row, status, meta, files, memory, phase, model, job, snap, starts, history>>

(* SetChunkVector: the vector index, then the dirty flag.                  *)
AddVector ==
  /\ fill.at = "index"
  /\ vectors' = [vectors EXCEPT ![fill.chunk] = model]
  /\ fill' = [fill EXCEPT !.at = "mark"]
  /\ UNCHANGED <<tables, files, words, passages, dirty, phase, model, job, snap, starts, failures, history>>

AfterChunk(c) ==
  IF fill.todo = {c} THEN Resting
  ELSE [at |-> "store", todo |-> fill.todo \ {c}, chunk |-> None]

MarkVector ==
  /\ fill.at = "mark"
  /\ dirty' = TRUE
  /\ fill' = AfterChunk(fill.chunk)
  /\ UNCHANGED <<tables, files, words, passages, vectors, phase, model, job, snap, starts, failures, history>>

StopFill ==
  /\ fill.at = "idle" /\ phase = "stopping"
  /\ fill' = [fill EXCEPT !.at = "stopped"]
  /\ UNCHANGED <<tables, files, memory, phase, model, job, snap, starts, failures, history>>

Backfill == List \/ GiveUp \/ StoreEmbedding \/ AddVector \/ MarkVector \/ StopFill

-----------------------------------------------------------------------------
(* The snapshotter, on a tick, and once more when the program stops:       *)
(* clear the flag, replace both files (each at once: temporary file and    *)
(* rename), and set the flag again for a file that could not be written.   *)
(* A tick and the stop may come together: the flush is then either.        *)

Rest == [at |-> IF snap.final THEN "stopped" ELSE "idle", final |-> snap.final]

Flush ==
  /\ snap.at = "idle" /\ Serving
  /\ dirty
  /\ dirty' = FALSE
  /\ \E final \in BOOLEAN :
       /\ final => phase = "stopping"
       /\ snap' = [at |-> "words", final |-> final]
  /\ UNCHANGED <<tables, files, words, passages, vectors, phase, model, job, fill, starts, failures, history>>

SaveWords ==
  /\ snap.at = "words"
  /\ \/ Works /\ wordsFile' = words /\ UNCHANGED dirty
     \/ Fails /\ UNCHANGED wordsFile /\ dirty' = TRUE
  /\ snap' = [snap EXCEPT !.at = "vectors"]
  /\ UNCHANGED <<tables, vectorsFile, words, passages, vectors, phase, model, job, fill, starts, history>>

(* Mutant: the flag is cleared once both files are written.                *)
SaveThenClear ==
  /\ snap.at = "vectors"
  /\ \/ Works /\ vectorsFile' = vectors /\ dirty' = FALSE
     \/ Fails /\ UNCHANGED vectorsFile /\ dirty' = TRUE
  /\ snap' = Rest
  /\ UNCHANGED <<tables, wordsFile, words, passages, vectors, phase, model, job, fill, starts, history>>

SaveVectors ==
  /\ snap.at = "vectors"
  /\ \/ Works /\ vectorsFile' = vectors /\ UNCHANGED dirty
     \/ Fails /\ UNCHANGED vectorsFile /\ dirty' = TRUE
  /\ snap' = Rest
  /\ UNCHANGED <<tables, wordsFile, words, passages, vectors, phase, model, job, fill, starts, history>>

StopSnap ==
  /\ snap.at = "idle" /\ phase = "stopping" /\ ~dirty
  /\ snap' = [at |-> "stopped", final |-> TRUE]
  /\ UNCHANGED <<tables, files, memory, phase, model, job, fill, starts, failures, history>>

Snapshot == Flush \/ SaveWords \/ SaveVectors \/ StopSnap

-----------------------------------------------------------------------------
(* Starting: reconcileEmbeddingModel in three steps, then LoadAndReconcile *)
(* before anything is served.  A step that fails ends the program, as a    *)
(* crash does, but that a file could not be removed is ignored.            *)

Start(m) ==
  /\ phase = "down" /\ starts < MaxStarts
  /\ starts' = starts + 1
  /\ model' = m
  /\ phase' = IF meta \in {None, m} THEN "stamp" ELSE "clear"
  /\ UNCHANGED <<tables, files, memory, workers, failures, history>>

(* Mutant: the new model is recorded first.                                *)
StampThenClear ==
  /\ phase = "clear"
  /\ emb' = NoVectors /\ meta' = model
  /\ phase' = "remove"
  /\ UNCHANGED <<row, status, files, memory, model, workers, starts, failures, history>>

ClearAllEmbeddings ==
  /\ phase = "clear"
  /\ emb' = NoVectors
  /\ phase' = "remove"
  /\ UNCHANGED <<row, status, meta, files, memory, model, workers, starts, failures, history>>

RemoveVectorsFile ==
  /\ phase = "remove"
  /\ \/ Works /\ vectorsFile' = NoVectors /\ leftover' = FALSE
     \/ Fails /\ UNCHANGED vectorsFile /\ leftover' = TRUE
  /\ brought' = [u \in Upload |-> None]
  /\ phase' = "stamp"
  /\ UNCHANGED <<tables, wordsFile, memory, model, workers, starts, raced, broken>>

SetMeta ==
  /\ phase = "stamp"
  /\ meta' = model
  /\ phase' = "load"
  /\ UNCHANGED <<row, emb, status, files, memory, model, workers, starts, failures, history>>

LoadAndReconcile ==
  /\ phase = "load"
  /\ words' = ReconciledWords(row, wordsFile)
  /\ passages' = RebuiltPassages(row, wordsFile)
  /\ vectors' = ReconciledVectors(row, emb, wordsFile, vectorsFile)
  /\ dirty' = (LackWords(row, wordsFile) \cup LackVector(row, emb, wordsFile, vectorsFile) # {})
  /\ phase' = "up"
  /\ UNCHANGED <<tables, files, model, workers, starts, failures, history>>

(* A file that is missing or cannot be read leaves its index empty.        *)
LoseFile ==
  /\ phase = "down" /\ Fails
  /\ \/ wordsFile' = {} /\ UNCHANGED vectorsFile
     \/ vectorsFile' = NoVectors /\ UNCHANGED wordsFile
  /\ UNCHANGED <<tables, memory, phase, model, workers, starts, history>>

(* SIGTERM, or a switch to another project.                                *)
Stop ==
  /\ phase = "up"
  /\ phase' = "stopping"
  /\ UNCHANGED <<tables, files, memory, model, workers, starts, failures, history>>

GoDown ==
  /\ phase' = "down" /\ model' = None
  /\ words' = {} /\ passages' = {} /\ vectors' = NoVectors /\ dirty' = FALSE
  /\ job' = [u \in Upload |-> NoJob] /\ fill' = Resting /\ snap' = Waiting
  /\ broken' = {}
  /\ UNCHANGED <<tables, files, starts, failures, raced, leftover, brought>>

(* main waits for the backfiller and the snapshotter, not for uploads.     *)
Exit ==
  /\ phase = "stopping" /\ fill.at = "stopped" /\ snap.at = "stopped"
  /\ GoDown

Crash ==
  /\ phase # "down"
  /\ GoDown

Boot ==
  \/ \E m \in Model : Start(m)
  \/ ClearAllEmbeddings \/ RemoveVectorsFile \/ SetMeta \/ LoadAndReconcile

Next ==
  \/ \E u \in Upload : Accept(u) \/ Import(u) \/ Work(u)
  \/ Backfill \/ Snapshot \/ Boot
  \/ LoseFile \/ Stop \/ Exit \/ Crash

Spec == Init /\ [][Next]_vars

(* The scheduler runs the backfiller's goroutine, its ticker ticks, and    *)
(* the embedder, asked on every tick, is ready on some of them.            *)
FairSpec == Spec /\ WF_vars(Backfill) /\ SF_vars(StoreEmbedding)

-----------------------------------------------------------------------------
TypeOK ==
  /\ row \in [Chunk -> Row] /\ emb \in Vectors
  /\ status \in [Upload -> Status] /\ meta \in Model \cup {None}
  /\ wordsFile \subseteq Chunk /\ vectorsFile \in Vectors
  /\ words \subseteq Chunk /\ passages \subseteq Chunk /\ vectors \in Vectors
  /\ dirty \in BOOLEAN
  /\ phase \in Phase /\ model \in Model \cup {None}
  /\ job \in [Upload -> Job] /\ fill \in Fill /\ snap \in Snap
  /\ starts \in Nat /\ failures \in Nat
  /\ raced \subseteq Upload /\ leftover \in BOOLEAN
  /\ brought \in [Upload -> Model \cup {None}] /\ broken \subseteq Upload

(* Whoever stored c's row has still to index it.                           *)
InHand(c) ==
  LET j == job[c[1]]
  IN  \/ j.at = "index" /\ j.piece <= c[2]
      \/ c[1] \in Embedded /\ j.at \in {"vector", "mark"} /\ j.piece < c[2]

(* The chunk an import is about to hand to the vector index.               *)
VectorDue(c) == At(c[1]) = c /\ job[c[1]].at = "vector"

(* Every chunk that is not superseded is found by its words as long as the *)
(* program serves requests, across crashes, lost files and failing writes: *)
(* it is in the keyword index and in the passage index, or an upload or    *)
(* import is about to put it there.  (The rest of an import that broke off *)
(* at a vector is found again from the next start on.)                     *)
LiveFindable ==
  Serving => \A c \in Live(row) :
    c \in words \cap passages \/ InHand(c) \/ c[1] \in broken

(* A vector that an import brought and that is of another model hides the  *)
(* stored embedding of its chunk: it stays in the file when a change of    *)
(* models is cut short and taken back, and is then taken to be current.    *)
Hidden(c) == brought[c[1]] \notin {None, model} /\ vectors[c] # None

(* A stored embedding is in the vector index, or whoever stored it is      *)
(* about to put it there: no crash leaves a chunk that the backfiller      *)
(* takes for done and semantic search never finds.  (A vectors file that   *)
(* should have been removed and was not is taken to be current.)           *)
EmbeddingsFindable ==
  Serving => \A c \in Live(row) :
    \/ emb[c] \in {None, vectors[c]}
    \/ InHand(c) \/ VectorDue(c) \/ c[1] \in broken
    \/ fill.at = "index" /\ fill.chunk = c
    \/ leftover \/ Hidden(c)

(* What is stored can be found, by its words and by its vector.            *)
Findable == LiveFindable /\ EmbeddingsFindable

(* What is in memory and not in its file is known to be unsaved: the flag  *)
(* is up, or a flush has yet to write that file, or the change's author    *)
(* has yet to raise the flag (or broke off before).  A flush beside a      *)
(* change loses nothing.                                                   *)
Unmarked(c) ==
  \/ At(c[1]) = c /\ job[c[1]].at = "mark"
  \/ fill.at = "mark" /\ fill.chunk = c

UnsavedKnown ==
  Serving => \A c \in Chunk :
    /\ c \in words \ wordsFile =>
         dirty \/ snap.at = "words" \/ Unmarked(c) \/ VectorDue(c) \/ c[1] \in broken
    /\ vectors[c] # vectorsFile[c] =>
         dirty \/ snap.at \in {"words", "vectors"} \/ Unmarked(c)

(* While the program serves, every vector, stored or in memory, is of the  *)
(* model it runs or one that an import brought to that very chunk, and not *)
(* a vector of a model that ran before is left, wherever starting was cut  *)
(* short (unless the former model's vectors file could not be removed).    *)
(* Imports are not asked for their model, so vectors of two models do meet *)
(* in a program that takes in embeddings computed with another.            *)
OneModel ==
  Serving => \A c \in Chunk :
    /\ emb[c] \in {model, None, brought[c[1]]}
    /\ vectors[c] \in {model, None, brought[c[1]]} \/ leftover

(* Of two uploads of one file that did not run beside each other (and      *)
(* whose superseding worked) at most one has chunks that are found,        *)
(* whatever crashes and failures cut them short.                           *)
OneVersion ==
  \A u, v \in Upload :
    /\ u # v /\ SameFile(u, v)
    /\ "none" \notin {status[u], status[v]}
    /\ raced \cap {u, v} = {}
    => \/ Live(row) \cap ChunksOf(u) = {}
       \/ Live(row) \cap ChunksOf(v) = {}

(* An upload reported done has all its chunks stored, and (unless another  *)
(* ran beside it) they are found or superseded together: the report is     *)
(* never of half a transcript.                                             *)
DoneWhole ==
  \A u \in Upload : status[u] = "done" =>
    /\ \A c \in ChunksOf(u) : row[c] # "none"
    /\ u \notin raced => \E r \in {"live", "superseded"} : \A c \in ChunksOf(u) : row[c] = r

(* Uploads that do not run beside each other neither double a transcript   *)
(* nor leave half of one that was reported done.                           *)
UploadsWhole == OneVersion /\ DoneWhole

(* In a program that stays up the backlog of embeddings drains, whatever   *)
(* is uploaded, superseded or failing meanwhile.                           *)
BacklogDrains == <>[](phase = "up") => []<>(Missing(row, emb) = {})

=============================================================================
