--------------------------- MODULE IngestionProofs ---------------------------
(***************************************************************************)
(* What holds of Ingestion for any uploads, models and batches, however    *)
(* often the program is started and whatever fails: TypeOK, LiveFindable,  *)
(* EmbeddingsFindable, UnsavedKnown, OneModel, UploadsWhole, and that what *)
(* a search finds implements SearchableCorpus.                             *)
(*                                                                         *)
(* The argument.  Quiet: a program that is not serving has nothing in      *)
(* memory and nobody at work.  JobsSound: an upload that is at its i-th    *)
(* chunk has stored none after it, so whoever stores a chunk indexes it    *)
(* before going on.  FillSound: only stored chunks are embedded.           *)
(* OfMeta: what is stored is of the model on record, which is the running  *)
(* one from the moment the program loads its index, or came with an        *)
(* import, whose chunks were stored with it (BroughtSound).  FillOfModel:  *)
(* what the backfiller is about to index it has stored.  Uploads, on top of *)
(* these: an upload at work has stored all chunks behind the one it is at, *)
(* and of two of one file both at work both are raced.                     *)
(***************************************************************************)
EXTENDS SearchRefinement, TLAPS

(* A program that is not serving. *)
Quiet ==
  ~Serving =>
    /\ words = {} /\ passages = {} /\ vectors = NoVectors /\ dirty = FALSE
    /\ job = [u \in Upload |-> NoJob] /\ fill = Resting /\ snap = Waiting

JobSound(u) ==
  job[u].at # "idle" =>
    /\ job[u].piece \in 1..Pieces[u]
    /\ ~NotSeen(u)
    /\ u \in Embedded => job[u].at \in {"index", "vector", "mark"}
    /\ u \notin Embedded =>
         /\ job[u].at # "vector"
         /\ \A c \in ChunksOf(u) :
              \/ c[2] > job[u].piece
              \/ c[2] = job[u].piece /\ job[u].at \in {"begin", "supersede", "create"}
              => row[c] = "none"

JobsSound == \A u \in Upload : JobSound(u)

(* Only stored chunks have embeddings, or are about to. *)
Stored == {c \in Chunk : row[c] # "none"}

FillSound ==
  /\ fill.todo \subseteq Stored
  /\ fill.at \in {"index", "mark"} => fill.chunk \in Stored
  /\ \A c \in Chunk \ Stored : emb[c] = None

(* What is stored is of the model on record. *)
OfMeta ==
  /\ phase # "down" => model \in Model
  /\ phase \in {"load", "up", "stopping"} => meta = model
  /\ phase = "stamp" =>
       \/ meta \in {None, model}
       \/ emb = NoVectors /\ (vectorsFile = NoVectors \/ leftover)
  /\ phase = "remove" => emb = NoVectors
  /\ \A c \in Chunk : emb[c] \in {None, meta, brought[c[1]]}
  /\ \A c \in Chunk : vectorsFile[c] \in {None, meta, brought[c[1]]} \/ leftover

(* Vectors were brought by imports whose chunks are stored, and only an     *)
(* import breaks off at one.                                               *)
BroughtSound ==
  /\ \A u \in Upload : brought[u] = None \/ ~NotSeen(u)
  /\ broken \subseteq Embedded

(* The backfiller indexes what it has stored. *)
FillOfModel == fill.at = "index" => emb[fill.chunk] = model

(* EmbeddingsFindable without its excuse for chunks an upload has stored:  *)
(* those are stored without an embedding.                                  *)
EmbeddingFound(c) ==
  \/ emb[c] \in {None, vectors[c]}
  \/ c[1] \in Embedded /\ (InHand(c) \/ VectorDue(c))
  \/ c[1] \in broken
  \/ fill.at = "index" /\ fill.chunk = c
  \/ leftover \/ Hidden(c)

EmbeddingsFound == Serving => \A c \in Live(row) : EmbeddingFound(c)

IInv ==
  /\ TypeOK /\ Quiet /\ JobsSound /\ FillSound /\ OfMeta /\ OneModel
  /\ BroughtSound /\ FillOfModel
  /\ LiveFindable /\ EmbeddingsFound /\ UnsavedKnown

-----------------------------------------------------------------------------
(* Values. *)

(* A chunk is the pair of its upload and its place in it.                  *)
LEMMA ChunkPair ==
  ASSUME NEW c \in Chunk
  PROVE  c[1] \in Upload /\ c[2] \in 1..Pieces[c[1]] /\ c = <<c[1], c[2]>>
  BY DEF Chunk

(* A place within the file gives a chunk.                                  *)
LEMMA PairChunk ==
  ASSUME NEW u \in Upload, NEW i \in 1..Pieces[u]
  PROVE  <<u, i>> \in Chunk /\ <<u, i>>[1] = u /\ <<u, i>>[2] = i
  BY DEF Chunk

(* A file makes at least one chunk.                                        *)
LEMMA PiecesType == \A u \in Upload : Pieces[u] \in Nat \ {0}
  BY CorpusAssumption

(* The values that stand for nothing and nobody at work.                   *)
LEMMA ConstantTypes ==
  /\ NoVectors \in Vectors
  /\ NoJob \in Job /\ NoJob.at = "idle"
  /\ Resting \in Fill /\ Resting.at = "idle" /\ Resting.todo = {}
  /\ Waiting \in Snap /\ Waiting.at = "idle"
  BY DEF NoVectors, Vectors, NoJob, Job, JobAt, Resting, Fill, Waiting, Snap

(* What Go, End and NextPiece do to the jobs.                              *)
Becomes(u, at, piece) ==
  /\ job' \in [Upload -> Job]
  /\ job'[u].at = at /\ job'[u].piece = piece
  /\ \A v \in Upload \ {u} : job'[v] = job[v]

(* A job goes on with the same chunk.                                      *)
LEMMA GoBecomes ==
  ASSUME job \in [Upload -> Job], NEW u \in Upload, NEW at \in JobAt, Go(u, at)
  PROVE  Becomes(u, at, job[u].piece)
  BY DEF Go, Becomes, Job

(* A job ends.                                                             *)
LEMMA EndBecomes ==
  ASSUME job \in [Upload -> Job], NEW u \in Upload, End(u)
  PROVE  Becomes(u, "idle", 0)
  BY ConstantTypes DEF End, Becomes, NoJob

(* A job goes on with the next chunk, or ends, or is reported done.        *)
LEMMA NextBecomes ==
  ASSUME job \in [Upload -> Job], NEW u \in Upload, job[u].piece \in 1..Pieces[u],
         NextPiece(u)
  PROVE  \/ /\ job[u].piece + 1 \in 1..Pieces[u]
            /\ Becomes(u, IF u \in Embedded THEN "index" ELSE "create", job[u].piece + 1)
         \/ u \in Embedded /\ job[u].piece = Pieces[u] /\ Becomes(u, "idle", 0)
         \/ u \notin Embedded /\ job[u].piece = Pieces[u] /\ Becomes(u, "finish", job[u].piece)
<1>1. Pieces[u] \in Nat \ {0}  BY PiecesType
<1>2. CASE job[u].piece < Pieces[u]
  <2>1. job' = [job EXCEPT ![u] = [at |-> IF u \in Embedded THEN "index" ELSE "create",
                                   piece |-> job[u].piece + 1]]
    BY <1>2 DEF NextPiece
  <2>2. QED  BY <1>1, <1>2, <2>1 DEF Becomes, Job, JobAt
<1>3. CASE ~(job[u].piece < Pieces[u])
  <2>1. job[u].piece = Pieces[u]  BY <1>1, <1>3
  <2>2. CASE u \in Embedded  BY <1>3, <2>1, <2>2, EndBecomes DEF NextPiece
  <2>3. CASE u \notin Embedded  BY <1>3, <2>1, <2>3, GoBecomes DEF NextPiece, JobAt
  <2>4. QED  BY <2>2, <2>3
<1>4. QED  BY <1>2, <1>3


-----------------------------------------------------------------------------
(* Types. *)

(* Superseding gives rows.                                                 *)
LEMMA RowTypes ==
  ASSUME row \in [Chunk -> Row], NEW u \in Upload
  PROVE  Superseded(row, u) \in [Chunk -> Row]
  BY DEF Superseded, Row

(* What starting loads into memory is an index over chunks.                *)
LEMMA ReconciledTypes ==
  ASSUME TypeOK
  PROVE  /\ ReconciledWords(row, wordsFile) \subseteq Chunk
         /\ RebuiltPassages(row, wordsFile) \subseteq Chunk
         /\ ReconciledVectors(row, emb, wordsFile, vectorsFile) \in Vectors
<1>1. ReconciledWords(row, wordsFile) \subseteq Chunk
  BY DEF TypeOK, ReconciledWords, LackWords, Live
<1>2. RebuiltPassages(row, wordsFile) \subseteq Chunk
  BY DEF RebuiltPassages, Live
<1>3. ReconciledVectors(row, emb, wordsFile, vectorsFile) \in Vectors
  BY DEF TypeOK, Vectors, ReconciledVectors
<1>4. QED  BY <1>1, <1>2, <1>3

(* The chunk an upload is at. *)
LEMMA AtChunk ==
  ASSUME TypeOK, JobsSound, NEW u \in Upload, job[u].at # "idle"
  PROVE  /\ job[u].piece \in 1..Pieces[u]
         /\ At(u) \in Chunk /\ At(u) = <<u, job[u].piece>>
         /\ At(u)[1] = u /\ At(u)[2] = job[u].piece
  BY PairChunk DEF JobsSound, JobSound, At

(* What an upload's step does to the jobs. *)
LEMMA WorkJobs ==
  ASSUME IInv, NEW u \in Upload
  PROVE  /\ Accept(u) => Becomes(u, "begin", 1)
         /\ Import(u) => Becomes(u, "index", 1)
         /\ Begin(u) => \E at \in {"supersede", "fail"} : Becomes(u, at, job[u].piece)
         /\ Supersede(u) => Becomes(u, "create", job[u].piece)
         /\ Create(u) => \E at \in {"index", "fail"} : Becomes(u, at, job[u].piece)
         /\ Index(u) => Becomes(u, IF u \in Embedded THEN "vector" ELSE "mark", job[u].piece)
         /\ IndexVector(u) => Becomes(u, "mark", job[u].piece)
         /\ Refuse(u) \/ Finish(u) \/ FailUpload(u) => Becomes(u, "idle", 0)
<1> USE GoBecomes, EndBecomes DEF JobAt
<1>1. job \in [Upload -> Job]  BY DEF IInv, TypeOK
<1>2. Accept(u) => Becomes(u, "begin", 1)  BY <1>1 DEF Accept, Becomes, Job
<1>3. Import(u) => Becomes(u, "index", 1)  BY <1>1 DEF Import, Becomes, Job
<1>4. Begin(u) => \E at \in {"supersede", "fail"} : Becomes(u, at, job[u].piece)
  BY <1>1 DEF Begin
<1>5. Supersede(u) => Becomes(u, "create", job[u].piece)  BY <1>1 DEF Supersede
<1>6. Create(u) => \E at \in {"index", "fail"} : Becomes(u, at, job[u].piece)
  BY <1>1 DEF Create
<1>7. Index(u) => Becomes(u, IF u \in Embedded THEN "vector" ELSE "mark", job[u].piece)
  BY <1>1 DEF Index
<1>8. IndexVector(u) => Becomes(u, "mark", job[u].piece)  BY <1>1 DEF IndexVector
<1>9. Refuse(u) \/ Finish(u) \/ FailUpload(u) => Becomes(u, "idle", 0)
  BY <1>1 DEF Refuse, Finish, FailUpload
<1>10. QED  BY <1>2, <1>3, <1>4, <1>5, <1>6, <1>7, <1>8, <1>9

(* The steps of a program that serves, and Next as their disjunction with  *)
(* starting, stopping and what happens to the files meanwhile.             *)
UploadStep(u) ==
  \/ Accept(u) \/ Import(u) \/ Begin(u) \/ Supersede(u) \/ Create(u)
  \/ Index(u) \/ IndexVector(u) \/ Refuse(u) \/ Mark(u) \/ Finish(u)
  \/ FailUpload(u)

FillStep == List \/ GiveUp \/ StoreEmbedding \/ AddVector \/ MarkVector \/ StopFill

SnapStep == Flush \/ SaveWords \/ SaveVectors \/ StopSnap

(* Next by cases.                                                          *)
LEMMA NextCases ==
  ASSUME [Next]_vars
  PROVE  \/ \E u \in Upload : UploadStep(u)
         \/ FillStep \/ SnapStep
         \/ \E m \in Model : Start(m)
         \/ ClearAllEmbeddings \/ RemoveVectorsFile \/ SetMeta \/ LoadAndReconcile
         \/ LoseFile \/ Stop \/ GoDown
         \/ UNCHANGED vars
  BY DEF Next, Work, Backfill, Snapshot, Boot, Exit, Crash, UploadStep, FillStep, SnapStep

(* Types are kept.                                                         *)
LEMMA TypeStep ==
  ASSUME IInv, [Next]_vars
  PROVE  TypeOK'
<1> USE CorpusAssumption, IngestionAssumption
    DEF vars, tables, files, memory, workers, history
<1>1. TypeOK /\ JobsSound /\ FillSound  BY DEF IInv
<1>2. model \in Model \cup {None} /\ emb \in Vectors /\ vectors \in Vectors
  BY <1>1 DEF TypeOK
<1>3. ASSUME NEW u \in Upload, UploadStep(u)  PROVE TypeOK'
  <2>1. CASE Accept(u)
    <3>1. job' \in [Upload -> Job]  BY <2>1, WorkJobs DEF Becomes
    <3>2. Beside(u) \subseteq Upload  BY DEF Beside
    <3>3. QED  BY <1>1, <2>1, <3>1, <3>2 DEF TypeOK, Accept, Status
  <2>2. CASE Import(u)
    <3>1. job' \in [Upload -> Job]  BY <2>2, WorkJobs DEF Becomes
    <3>2. PICK m \in Model :
            /\ emb' = [c \in Chunk |-> IF c[1] = u THEN m ELSE emb[c]]
            /\ brought' = [brought EXCEPT ![u] = m]
      BY <2>2 DEF Import
    <3>3. emb' \in Vectors  BY <1>2, <3>2 DEF Vectors
    <3>4. brought' \in [Upload -> Model \cup {None}]  BY <1>1, <3>2 DEF TypeOK
    <3>5. QED  BY <1>1, <2>2, <3>1, <3>3, <3>4 DEF TypeOK, Import, Row
  <2>3. CASE Begin(u)
    <3>1. job' \in [Upload -> Job]  BY <2>3, WorkJobs DEF Becomes
    <3>2. QED  BY <1>1, <2>3, <3>1 DEF TypeOK, Begin, Record, Fails, Works, Status
  <2>4. CASE Supersede(u)
    <3>1. job' \in [Upload -> Job]  BY <2>4, WorkJobs DEF Becomes
    <3>2. row' \in [Chunk -> Row]  BY <1>1, <2>4, RowTypes DEF TypeOK, Supersede
    <3>3. QED  BY <1>1, <2>4, <3>1, <3>2 DEF TypeOK, Supersede, Fails, Works
  <2>5. CASE Create(u)
    <3>1. job' \in [Upload -> Job]  BY <2>5, WorkJobs DEF Becomes
    <3>2. row' \in [Chunk -> Row]  BY <1>1, <2>5 DEF TypeOK, Create, Row
    <3>3. QED  BY <1>1, <2>5, <3>1, <3>2 DEF TypeOK, Create, Fails, Works
  <2>6. CASE Index(u)
    <3>1. job' \in [Upload -> Job]  BY <2>6, WorkJobs DEF Becomes
    <3>2. At(u) \in Chunk  BY <1>1, <2>6, AtChunk DEF Index
    <3>3. QED  BY <1>1, <2>6, <3>1, <3>2 DEF TypeOK, Index
  <2>7. CASE IndexVector(u)
    <3>1. job' \in [Upload -> Job]  BY <2>7, WorkJobs DEF Becomes
    <3>2. At(u) \in Chunk  BY <1>1, <2>7, AtChunk DEF IndexVector
    <3>3. vectors' \in Vectors  BY <1>2, <2>7, <3>2 DEF IndexVector, Vectors
    <3>4. QED  BY <1>1, <2>7, <3>1, <3>3 DEF TypeOK, IndexVector
  <2>8. CASE Mark(u)
    <3>1. job[u].piece \in 1..Pieces[u]  BY <1>1, <2>8, AtChunk DEF Mark
    <3>2. job' \in [Upload -> Job]
      BY <1>1, <2>8, <3>1, NextBecomes DEF TypeOK, Mark, Becomes
    <3>3. QED  BY <1>1, <2>8, <3>2 DEF TypeOK, Mark
  <2>9. CASE Finish(u)
    <3>1. job' \in [Upload -> Job]  BY <2>9, WorkJobs DEF Becomes
    <3>2. QED  BY <1>1, <2>9, <3>1 DEF TypeOK, Finish, Record, Fails, Works, Status
  <2>10. CASE FailUpload(u)
    <3>1. job' \in [Upload -> Job]  BY <2>10, WorkJobs DEF Becomes
    <3>2. QED  BY <1>1, <2>10, <3>1 DEF TypeOK, FailUpload, Record, Fails, Works, Status
  <2>11. CASE Refuse(u)
    <3>1. job' \in [Upload -> Job]  BY <2>11, WorkJobs DEF Becomes
    <3>2. QED  BY <1>1, <2>11, <3>1 DEF TypeOK, Refuse
  <2>12. QED
    BY <1>3, <2>1, <2>2, <2>3, <2>4, <2>5, <2>6, <2>7, <2>8, <2>9, <2>10, <2>11
    DEF UploadStep
<1>4. CASE List
  <2>1. fill' \in Fill  BY <1>4 DEF List, Missing, Live, Fill
  <2>2. QED  BY <1>1, <1>4, <2>1 DEF TypeOK, List
<1>5. CASE GiveUp  BY <1>1, <1>5, ConstantTypes DEF TypeOK, GiveUp
<1>6. CASE StoreEmbedding
  <2>1. fill.todo \subseteq Chunk  BY <1>1 DEF FillSound, Stored
  <2>2. fill \in Fill  BY <1>1 DEF TypeOK
  <2>3. CASE \E c \in fill.todo :
               /\ Works
               /\ emb' = [emb EXCEPT ![c] = model]
               /\ fill' = [fill EXCEPT !.at = "index", !.chunk = c]
    <3>1. emb' \in Vectors  BY <1>2, <2>1, <2>3 DEF Vectors
    <3>2. fill' \in Fill  BY <2>1, <2>2, <2>3 DEF Fill
    <3>3. QED  BY <1>1, <1>6, <2>3, <3>1, <3>2 DEF TypeOK, StoreEmbedding, Works
  <2>4. CASE Fails /\ UNCHANGED emb /\ fill' = Resting
    <3>1. UNCHANGED <<row, status, meta, files, memory, phase, model, job, snap, starts, history>>
      BY <1>6 DEF StoreEmbedding
    <3>2. failures' \in Nat /\ fill' \in Fill
      BY <1>1, <2>4, ConstantTypes DEF TypeOK, Fails
    <3>3. QED  BY <1>1, <2>4, <3>1, <3>2 DEF TypeOK
  <2>5. QED  BY <1>6, <2>3, <2>4 DEF StoreEmbedding
<1>7. CASE AddVector
  <2>1. fill' \in Fill  BY <1>1, <1>7 DEF TypeOK, AddVector, Fill
  <2>2. vectors' \in Vectors  BY <1>2, <1>7 DEF AddVector, Vectors
  <2>3. QED  BY <1>1, <1>7, <2>1, <2>2 DEF TypeOK, AddVector
<1>8. CASE MarkVector
  <2>1. fill' \in Fill
    BY <1>1, <1>8, ConstantTypes DEF TypeOK, MarkVector, AfterChunk, Fill
  <2>2. QED  BY <1>1, <1>8, <2>1 DEF TypeOK, MarkVector
<1>9. CASE StopFill
  <2>1. fill' \in Fill  BY <1>1, <1>9 DEF TypeOK, StopFill, Fill
  <2>2. QED  BY <1>1, <1>9, <2>1 DEF TypeOK, StopFill
<1>10. CASE Flush
  <2>1. snap' \in Snap  BY <1>10 DEF Flush, Snap
  <2>2. QED  BY <1>1, <1>10, <2>1 DEF TypeOK, Flush
<1>11. CASE SaveWords
  <2>1. snap' \in Snap  BY <1>1, <1>11 DEF TypeOK, SaveWords, Snap
  <2>2. CASE Works /\ wordsFile' = words /\ UNCHANGED dirty
    BY <1>1, <1>11, <2>1, <2>2 DEF TypeOK, SaveWords, Works
  <2>3. CASE Fails /\ UNCHANGED wordsFile /\ dirty' = TRUE
    BY <1>1, <1>11, <2>1, <2>3 DEF TypeOK, SaveWords, Fails
  <2>4. QED  BY <1>11, <2>2, <2>3 DEF SaveWords
<1>12. CASE SaveVectors
  <2>1. snap' \in Snap  BY <1>1, <1>12 DEF TypeOK, SaveVectors, Rest, Snap
  <2>2. CASE Works /\ vectorsFile' = vectors /\ UNCHANGED dirty
    BY <1>1, <1>12, <2>1, <2>2 DEF TypeOK, SaveVectors, Works
  <2>3. CASE Fails /\ UNCHANGED vectorsFile /\ dirty' = TRUE
    BY <1>1, <1>12, <2>1, <2>3 DEF TypeOK, SaveVectors, Fails
  <2>4. QED  BY <1>12, <2>2, <2>3 DEF SaveVectors
<1>13. CASE StopSnap
  <2>1. snap' \in Snap  BY <1>13 DEF StopSnap, Snap
  <2>2. QED  BY <1>1, <1>13, <2>1 DEF TypeOK, StopSnap
<1>14. ASSUME NEW m \in Model, Start(m)  PROVE TypeOK'
  BY <1>1, <1>14 DEF TypeOK, Start, Phase
<1>15. CASE ClearAllEmbeddings
  BY <1>1, <1>15, ConstantTypes DEF TypeOK, ClearAllEmbeddings, Phase
<1>16. CASE RemoveVectorsFile
  <2>1. CASE Works /\ vectorsFile' = NoVectors /\ leftover' = FALSE
    BY <1>1, <1>16, <2>1, ConstantTypes DEF TypeOK, RemoveVectorsFile, Works, Phase
  <2>2. CASE Fails /\ UNCHANGED vectorsFile /\ leftover' = TRUE
    BY <1>1, <1>16, <2>2 DEF TypeOK, RemoveVectorsFile, Fails, Phase
  <2>3. QED  BY <1>16, <2>1, <2>2 DEF RemoveVectorsFile
<1>17. CASE SetMeta  BY <1>1, <1>17 DEF TypeOK, SetMeta, Phase
<1>18. CASE LoadAndReconcile
  <2>1. dirty' \in BOOLEAN  BY <1>18 DEF LoadAndReconcile
  <2>2. QED  BY <1>1, <1>18, <2>1, ReconciledTypes DEF TypeOK, LoadAndReconcile, Phase
<1>19. CASE LoseFile  BY <1>1, <1>19, ConstantTypes DEF TypeOK, LoseFile, Fails
<1>20. CASE Stop  BY <1>1, <1>20 DEF TypeOK, Stop, Phase
<1>21. CASE GoDown  BY <1>1, <1>21, ConstantTypes DEF TypeOK, GoDown, Phase
<1>22. CASE UNCHANGED vars  BY <1>1, <1>22 DEF TypeOK
<1>23. QED
  BY <1>3, <1>4, <1>5, <1>6, <1>7, <1>8, <1>9, <1>10, <1>11, <1>12, <1>13, <1>14,
     <1>15, <1>16, <1>17, <1>18, <1>19, <1>20, <1>21, <1>22, NextCases
     DEF FillStep, SnapStep

-----------------------------------------------------------------------------
(* Serving. *)

(* Uploads, the backfiller and the snapshotter work only in a program that *)
(* serves, and leave to others whether it does, and which model it runs.   *)
LEMMA WorkersServe ==
  ASSUME IInv, (\E u \in Upload : UploadStep(u)) \/ FillStep \/ SnapStep
  PROVE  Serving /\ UNCHANGED <<phase, model, meta, leftover>>
<1> USE DEF vars, tables, files, memory, workers, history
<1>1. /\ Serving \/ \A u \in Upload : job[u].at = "idle"
      /\ Serving \/ fill.at = "idle"
      /\ Serving \/ snap.at = "idle"
  BY ConstantTypes DEF IInv, Quiet
<1>2. ASSUME NEW u \in Upload, UploadStep(u)
      PROVE  Serving /\ UNCHANGED <<phase, model, meta, leftover>>
  <2>1. Serving
    BY <1>1, <1>2 DEF UploadStep, Accept, Import, Begin, Supersede, Create, Index,
         IndexVector, Refuse, Mark, Finish, FailUpload
  <2>2. UNCHANGED <<phase, model, meta, leftover>>
    BY <1>2 DEF UploadStep, Accept, Import, Begin, Supersede, Create, Index,
         IndexVector, Refuse, Mark, Finish, FailUpload
  <2>3. QED  BY <2>1, <2>2
<1>3. CASE FillStep
  <2>1. Serving
    BY <1>1, <1>3
    DEF FillStep, List, GiveUp, StoreEmbedding, AddVector, MarkVector, StopFill, Serving
  <2>2. UNCHANGED <<phase, model, meta, leftover>>
    BY <1>3 DEF FillStep, List, GiveUp, StoreEmbedding, AddVector, MarkVector, StopFill
  <2>3. QED  BY <2>1, <2>2
<1>4. CASE SnapStep
  <2>1. Serving
    BY <1>1, <1>4 DEF SnapStep, Flush, SaveWords, SaveVectors, StopSnap, Serving
  <2>2. UNCHANGED <<phase, model, meta, leftover>>
    BY <1>4 DEF SnapStep, Flush, SaveWords, SaveVectors, StopSnap
  <2>3. QED  BY <2>1, <2>2
<1>5. QED  BY <1>2, <1>3, <1>4

(* Nobody works before the program serves or after it is gone.             *)
LEMMA QuietStep ==
  ASSUME IInv, [Next]_vars
  PROVE  Quiet'
<1> USE DEF vars, tables, files, memory, workers, history
<1>1. Quiet  BY DEF IInv
<1>2. CASE (\E u \in Upload : UploadStep(u)) \/ FillStep \/ SnapStep
  BY <1>2, WorkersServe DEF Quiet, Serving
<1>3. ASSUME NEW m \in Model, Start(m)  PROVE Quiet'
  BY <1>1, <1>3 DEF Quiet, Serving, Start
<1>4. CASE ClearAllEmbeddings \/ RemoveVectorsFile \/ SetMeta
  BY <1>1, <1>4 DEF Quiet, Serving, ClearAllEmbeddings, RemoveVectorsFile, SetMeta
<1>5. CASE LoadAndReconcile \/ Stop
  BY <1>5 DEF Quiet, Serving, LoadAndReconcile, Stop
<1>6. CASE LoseFile  BY <1>1, <1>6 DEF Quiet, Serving, LoseFile
<1>7. CASE GoDown  BY <1>7 DEF Quiet, GoDown
<1>8. CASE UNCHANGED vars  BY <1>1, <1>8 DEF Quiet, Serving
<1>9. QED  BY <1>2, <1>3, <1>4, <1>5, <1>6, <1>7, <1>8, NextCases

-----------------------------------------------------------------------------
(* Models. *)

(* A step of a program that serves adds vectors of its model and those an  *)
(* import brings to its own chunks.                                        *)
LEMMA VectorsAdded ==
  ASSUME IInv, (\E u \in Upload : UploadStep(u)) \/ FillStep \/ SnapStep,
         NEW c \in Chunk
  PROVE  /\ emb'[c] \in {emb[c], model, brought'[c[1]]}
         /\ vectors'[c] \in {vectors[c], model, emb[c]}
         /\ vectorsFile'[c] \in {vectorsFile[c], vectors[c]}
         /\ brought[c[1]] \in {None, brought'[c[1]]}
<1> USE DEF vars, tables, files, memory, workers, history
<1>1. emb \in Vectors /\ vectors \in Vectors /\ brought \in [Upload -> Model \cup {None}]
  BY DEF IInv, TypeOK
<1>2. ASSUME NEW u \in Upload, UploadStep(u)
      PROVE  /\ emb'[c] \in {emb[c], model, brought'[c[1]]}
             /\ vectors'[c] \in {vectors[c], model, emb[c]}
             /\ UNCHANGED vectorsFile
             /\ brought[c[1]] \in {None, brought'[c[1]]}
  <2>1. CASE Import(u)
    <3>1. PICK m \in Model :
            /\ emb' = [d \in Chunk |-> IF d[1] = u THEN m ELSE emb[d]]
            /\ brought' = [brought EXCEPT ![u] = m]
      BY <2>1 DEF Import
    <3>2. c[1] = u => emb'[c] = brought'[c[1]]  BY <1>1, <3>1
    <3>3. c[1] # u => emb'[c] = emb[c]  BY <3>1
    <3>4. brought[u] = None  BY <2>1 DEF Import, IInv, BroughtSound
    <3>5. brought[c[1]] \in {None, brought'[c[1]]}
      <4>1. CASE c[1] = u  BY <3>4, <4>1
      <4>2. CASE c[1] # u  BY <3>1, <4>2, <1>1, ChunkPair
      <4>3. QED  BY <4>1, <4>2
    <3>6. UNCHANGED <<vectors, vectorsFile>>  BY <2>1 DEF Import
    <3>7. QED  BY <3>2, <3>3, <3>5, <3>6
  <2>2. CASE IndexVector(u)  BY <1>1, <2>2 DEF IndexVector, Vectors
  <2>3. CASE ~Import(u) /\ ~IndexVector(u)
    BY <1>2, <2>3 DEF UploadStep, Accept, Begin, Supersede, Create, Index, Refuse, Mark,
         Finish, FailUpload
  <2>4. QED  BY <2>1, <2>2, <2>3
<1>3. CASE FillStep
  <2>1. CASE StoreEmbedding  BY <1>1, <2>1 DEF StoreEmbedding, Vectors
  <2>2. CASE AddVector  BY <1>1, <2>2 DEF AddVector, Vectors
  <2>3. CASE ~StoreEmbedding /\ ~AddVector
    BY <1>3, <2>3 DEF FillStep, List, GiveUp, MarkVector, StopFill
  <2>4. QED  BY <2>1, <2>2, <2>3
<1>4. CASE SnapStep
  BY <1>4 DEF SnapStep, Flush, SaveWords, SaveVectors, StopSnap
<1>5. QED  BY <1>2, <1>3, <1>4

(* Memory is loaded of one model, and grows by vectors of that model.      *)
LEMMA OneModelStep ==
  ASSUME IInv, [Next]_vars
  PROVE  OneModel'
<1> USE DEF vars, tables, files, memory, workers, history
<1>1. OneModel /\ OfMeta  BY DEF IInv
<1>2. CASE (\E u \in Upload : UploadStep(u)) \/ FillStep \/ SnapStep
  <2>1. Serving /\ UNCHANGED <<phase, model, meta, leftover>>  BY <1>2, WorkersServe
  <2>2. \A c \in Chunk : /\ emb'[c] \in {emb[c], model, brought'[c[1]]}
                         /\ vectors'[c] \in {vectors[c], model, emb[c]}
                         /\ brought[c[1]] \in {None, brought'[c[1]]}
    BY <1>2, VectorsAdded
  <2>3. QED  BY <1>1, <2>1, <2>2 DEF OneModel
<1>3. CASE LoadAndReconcile
  <2>1. phase = "load" /\ UNCHANGED <<emb, model, leftover, brought>>
    BY <1>3 DEF LoadAndReconcile
  <2>2. meta = model  BY <1>1, <2>1 DEF OfMeta
  <2>3. \A c \in Chunk : vectors'[c] \in {emb[c], vectorsFile[c]}
    BY <1>3 DEF LoadAndReconcile, ReconciledVectors
  <2>4. QED  BY <1>1, <2>1, <2>2, <2>3 DEF OneModel, OfMeta
<1>4. CASE Stop  BY <1>1, <1>4 DEF OneModel, Serving, Stop
<1>5. ASSUME NEW m \in Model, Start(m)  PROVE OneModel'
  BY <1>5 DEF OneModel, Serving, Start
<1>6. CASE ClearAllEmbeddings \/ RemoveVectorsFile \/ SetMeta \/ LoseFile \/ GoDown
  BY <1>6 DEF OneModel, Serving, ClearAllEmbeddings, RemoveVectorsFile, SetMeta, LoseFile, GoDown
<1>7. CASE UNCHANGED vars  BY <1>1, <1>7 DEF OneModel, Serving
<1>8. QED  BY <1>2, <1>3, <1>4, <1>5, <1>6, <1>7, NextCases

(* The model on record is changed once what was of another is gone.        *)
LEMMA OfMetaStep ==
  ASSUME IInv, [Next]_vars
  PROVE  OfMeta'
<1> USE DEF vars, tables, files, memory, workers, history
<1>1. OneModel /\ OfMeta /\ TypeOK  BY DEF IInv
<1>2. CASE (\E u \in Upload : UploadStep(u)) \/ FillStep \/ SnapStep
  <2>1. Serving /\ UNCHANGED <<phase, model, meta, leftover>>  BY <1>2, WorkersServe
  <2>2. \A c \in Chunk : /\ emb'[c] \in {emb[c], model, brought'[c[1]]}
                         /\ vectorsFile'[c] \in {vectorsFile[c], vectors[c]}
                         /\ brought[c[1]] \in {None, brought'[c[1]]}
    BY <1>2, VectorsAdded
  <2>3. phase \in {"up", "stopping"} /\ meta = model  BY <1>1, <2>1 DEF OfMeta, Serving
  <2>4. \A c \in Chunk : emb'[c] \in {None, meta, brought'[c[1]]}
    BY <1>1, <2>2, <2>3 DEF OfMeta
  <2>5. \A c \in Chunk : vectorsFile'[c] \in {None, meta, brought'[c[1]]} \/ leftover
    BY <1>1, <2>1, <2>2, <2>3 DEF OfMeta, OneModel
  <2>6. QED  BY <1>1, <2>1, <2>3, <2>4, <2>5 DEF OfMeta
<1>3. ASSUME NEW m \in Model, Start(m)  PROVE OfMeta'
  BY <1>1, <1>3 DEF OfMeta, Start
<1>4. CASE ClearAllEmbeddings
  BY <1>1, <1>4 DEF OfMeta, ClearAllEmbeddings, NoVectors
<1>5. CASE RemoveVectorsFile
  <2>1. emb = NoVectors /\ phase' = "stamp" /\ UNCHANGED <<emb, meta, model>>
    BY <1>1, <1>5 DEF OfMeta, RemoveVectorsFile
  <2>2. vectorsFile' = NoVectors \/ leftover'  BY <1>5 DEF RemoveVectorsFile
  <2>3. model \in Model  BY <1>1, <1>5 DEF OfMeta, RemoveVectorsFile
  <2>4. QED  BY <2>1, <2>2, <2>3 DEF OfMeta, NoVectors
<1>6. CASE SetMeta
  <2>1. phase = "stamp" /\ phase' = "load" /\ meta' = model
        /\ UNCHANGED <<emb, vectorsFile, model, leftover, brought>>
    BY <1>6 DEF SetMeta
  <2>2. model \in Model  BY <1>1, <2>1 DEF OfMeta
  <2>3. \A c \in Chunk : emb[c] \in {None, model, brought[c[1]]}
    BY <1>1, <2>1 DEF OfMeta, NoVectors
  <2>4. \A c \in Chunk : vectorsFile[c] \in {None, model, brought[c[1]]} \/ leftover
    BY <1>1, <2>1 DEF OfMeta, NoVectors
  <2>5. QED  BY <2>1, <2>2, <2>3, <2>4 DEF OfMeta
<1>7. CASE LoadAndReconcile  BY <1>1, <1>7 DEF OfMeta, LoadAndReconcile
<1>8. CASE Stop  BY <1>1, <1>8 DEF OfMeta, Stop
<1>9. CASE LoseFile
  <2>1. phase = "down" /\ UNCHANGED <<phase, model, meta, emb, leftover, brought>>
    BY <1>9 DEF LoseFile
  <2>2. vectorsFile' \in {NoVectors, vectorsFile}  BY <1>9 DEF LoseFile
  <2>3. QED  BY <1>1, <2>1, <2>2 DEF OfMeta, NoVectors
<1>10. CASE GoDown  BY <1>1, <1>10 DEF OfMeta, GoDown
<1>11. CASE UNCHANGED vars  BY <1>1, <1>11 DEF OfMeta
<1>12. QED
  BY <1>2, <1>3, <1>4, <1>5, <1>6, <1>7, <1>8, <1>9, <1>10, <1>11, NextCases

-----------------------------------------------------------------------------
(* Rows. *)

(* Rows are never taken out of the tables, and a step of one upload stores *)
(* no other's chunk.                                                       *)
LEMMA RowsStay ==
  ASSUME IInv, [Next]_vars
  PROVE  /\ \A c \in Chunk : row[c] # "none" => row'[c] # "none"
         /\ \A u \in Upload : status[u] # "none" => status'[u] # "none"
<1> USE DEF vars, tables, files, memory, workers, history
<1>1. row \in [Chunk -> Row] /\ status \in [Upload -> Status]  BY DEF IInv, TypeOK
<1>2. ASSUME NEW u \in Upload, UploadStep(u)
      PROVE  /\ \A c \in Chunk : row[c] # "none" => row'[c] # "none"
             /\ \A v \in Upload : status[v] # "none" => status'[v] # "none"
  <2>1. CASE Accept(u) \/ Import(u)
    BY <1>1, <2>1 DEF Accept, Import
  <2>2. CASE Begin(u) \/ Finish(u) \/ FailUpload(u)
    BY <1>1, <2>2 DEF Begin, Finish, FailUpload, Record
  <2>3. CASE Supersede(u)  BY <2>3 DEF Supersede, Superseded
  <2>4. CASE Create(u)  BY <1>1, <2>4 DEF Create
  <2>5. CASE Index(u) \/ IndexVector(u) \/ Refuse(u) \/ Mark(u)
    BY <2>5 DEF Index, IndexVector, Refuse, Mark
  <2>6. QED  BY <1>2, <2>1, <2>2, <2>3, <2>4, <2>5 DEF UploadStep
<1>3. CASE FillStep
  BY <1>3 DEF FillStep, List, GiveUp, StoreEmbedding, AddVector, MarkVector, StopFill
<1>4. CASE SnapStep
  BY <1>4 DEF SnapStep, Flush, SaveWords, SaveVectors, StopSnap
<1>5. CASE (\E m \in Model : Start(m)) \/ SetMeta \/ LoadAndReconcile
  BY <1>5 DEF Start, SetMeta, LoadAndReconcile
<1>6. CASE ClearAllEmbeddings \/ RemoveVectorsFile
  BY <1>6 DEF ClearAllEmbeddings, RemoveVectorsFile
<1>7. CASE LoseFile \/ Stop \/ GoDown \/ UNCHANGED vars
  BY <1>7 DEF LoseFile, Stop, GoDown
<1>8. QED  BY <1>2, <1>3, <1>4, <1>5, <1>6, <1>7, NextCases

(* A step of one upload leaves jobs and live rows of others as they were.  *)
LEMMA OthersRows ==
  ASSUME IInv, NEW u \in Upload, UploadStep(u)
  PROVE  /\ \A v \in Upload \ {u} : job'[v] = job[v]
         /\ \A c \in Chunk :
              c[1] # u => /\ row[c] = "none" => row'[c] = "none"
                          /\ row'[c] = "live" => row[c] = "live"
<1> USE DEF vars, tables, files, memory, workers, history
<1>1. TypeOK /\ JobsSound  BY DEF IInv
<1>2. \A v \in Upload \ {u} : job'[v] = job[v]
  <2>1. CASE Mark(u)
    BY <1>1, <2>1, NextBecomes, AtChunk DEF TypeOK, Mark, Becomes
  <2>2. CASE ~Mark(u)  BY <2>2, WorkJobs DEF UploadStep, Becomes
  <2>3. QED  BY <2>1, <2>2
<1>3. ASSUME NEW c \in Chunk, c[1] # u
      PROVE  /\ row[c] = "none" => row'[c] = "none"
             /\ row'[c] = "live" => row[c] = "live"
  <2>1. CASE Create(u)
    <3>1. At(u) # c  BY <1>1, <1>3, <2>1, AtChunk DEF Create
    <3>2. QED  BY <1>1, <2>1, <3>1 DEF TypeOK, Create
  <2>2. CASE Supersede(u)  BY <2>2 DEF Supersede, Superseded
  <2>3. CASE Import(u)  BY <1>3, <2>3 DEF Import
  <2>4. CASE ~Create(u) /\ ~Supersede(u) /\ ~Import(u)
    BY <2>4 DEF UploadStep, Accept, Begin, Index, IndexVector, Refuse, Mark, Finish, FailUpload
  <2>5. QED  BY <2>1, <2>2, <2>3, <2>4
<1>4. QED  BY <1>2, <1>3

(* An upload that does not move stays sound. *)
LEMMA JobKept ==
  ASSUME IInv, [Next]_vars, NEW v \in Upload, job'[v] = job[v],
         \A c \in ChunksOf(v) : row[c] = "none" => row'[c] = "none"
  PROVE  JobSound(v)'
<1>1. JobSound(v)  BY DEF IInv, JobsSound
<1>2. ~NotSeen(v) => ~NotSeen(v)'
  BY RowsStay DEF NotSeen, ChunksOf
<1>3. QED  BY <1>1, <1>2 DEF JobSound, ChunksOf

(* Jobs stay in step with the rows they store.                             *)
LEMMA JobsStep ==
  ASSUME IInv, [Next]_vars
  PROVE  JobsSound'
<1> USE DEF vars, tables, files, memory, workers, history
<1>1. TypeOK /\ JobsSound  BY DEF IInv
<1>2. ASSUME NEW u \in Upload, UploadStep(u)  PROVE JobsSound'
  <2>1. ASSUME NEW v \in Upload \ {u}  PROVE JobSound(v)'
    BY <1>2, <2>1, OthersRows, JobKept DEF ChunksOf
  <2>2. JobSound(u)  BY <1>1 DEF JobsSound
  <2>3. ~NotSeen(u) => ~NotSeen(u)'  BY RowsStay DEF NotSeen, ChunksOf
  <2>4. Pieces[u] \in Nat \ {0}  BY PiecesType
  <2>5. ASSUME Accept(u)  PROVE JobSound(u)'
    <3>1. job'[u].at = "begin" /\ job'[u].piece = 1  BY <2>5, WorkJobs DEF Becomes
    <3>2. u \notin Embedded /\ \A c \in ChunksOf(u) : row'[c] = "none"
      BY <2>5 DEF Accept, NotSeen
    <3>3. status'[u] # "none"  BY <1>1, <2>5 DEF TypeOK, Accept
    <3>4. QED  BY <2>4, <3>1, <3>2, <3>3 DEF JobSound, NotSeen
  <2>6. ASSUME Import(u)  PROVE JobSound(u)'
    <3>1. job'[u].at = "index" /\ job'[u].piece = 1  BY <2>6, WorkJobs DEF Becomes
    <3>2. u \in Embedded  BY <2>6 DEF Import
    <3>3. <<u, 1>> \in ChunksOf(u)  BY <2>4, PairChunk DEF ChunksOf
    <3>4. row'[<<u, 1>>] # "none"  BY <2>6, <3>3 DEF Import, ChunksOf
    <3>5. QED  BY <2>4, <3>1, <3>2, <3>3, <3>4 DEF JobSound, NotSeen, ChunksOf
  <2>7. ASSUME Begin(u)  PROVE JobSound(u)'
    <3>1. row' = row /\ job[u].at = "begin"  BY <2>7 DEF Begin
    <3>2. job'[u].at \in {"supersede", "fail"} /\ job'[u].piece = job[u].piece
      BY <2>7, WorkJobs DEF Becomes
    <3>3. QED  BY <2>2, <2>3, <3>1, <3>2 DEF JobSound, ChunksOf
  <2>8. ASSUME Supersede(u)  PROVE JobSound(u)'
    <3>1. job[u].at = "supersede" /\ \A c \in ChunksOf(u) : row[c] = "none" => row'[c] = "none"
      BY <2>8 DEF Supersede, Superseded, ChunksOf
    <3>2. job'[u].at = "create" /\ job'[u].piece = job[u].piece
      BY <2>8, WorkJobs DEF Becomes
    <3>3. QED  BY <2>2, <2>3, <3>1, <3>2 DEF JobSound, ChunksOf
  <2>9. ASSUME Create(u)  PROVE JobSound(u)'
    <3>1. job[u].at = "create"  BY <2>9 DEF Create
    <3>2. At(u)[2] = job[u].piece  BY <1>1, <3>1, AtChunk
    <3>3. \A c \in ChunksOf(u) : c[2] # job[u].piece /\ row[c] = "none" => row'[c] = "none"
      BY <1>1, <2>9, <3>2 DEF TypeOK, Create, ChunksOf
    <3>4. job'[u].at \in {"index", "fail"} /\ job'[u].piece = job[u].piece
      BY <2>9, WorkJobs DEF Becomes
    <3>5. job[u].piece \in Nat /\ \A c \in ChunksOf(u) : c[2] \in Nat
      BY <1>1, <3>1, AtChunk, ChunkPair, <2>4 DEF ChunksOf
    <3>6. QED  BY <2>2, <2>3, <3>1, <3>3, <3>4, <3>5 DEF JobSound, ChunksOf
  <2>10. ASSUME Index(u)  PROVE JobSound(u)'
    <3>1. row' = row /\ job[u].at = "index"  BY <2>10 DEF Index
    <3>2. /\ job'[u].at = IF u \in Embedded THEN "vector" ELSE "mark"
          /\ job'[u].piece = job[u].piece
      BY <2>10, WorkJobs DEF Becomes
    <3>3. QED  BY <2>2, <2>3, <3>1, <3>2 DEF JobSound, ChunksOf
  <2>11. ASSUME IndexVector(u)  PROVE JobSound(u)'
    <3>1. row' = row /\ job[u].at = "vector"  BY <2>11 DEF IndexVector
    <3>2. job'[u].at = "mark" /\ job'[u].piece = job[u].piece
      BY <2>11, WorkJobs DEF Becomes
    <3>3. QED  BY <2>2, <2>3, <3>1, <3>2 DEF JobSound, ChunksOf
  <2>12. ASSUME Mark(u)  PROVE JobSound(u)'
    <3>1. row' = row /\ job[u].at = "mark" /\ NextPiece(u)  BY <2>12 DEF Mark
    <3>2. job[u].piece \in 1..Pieces[u]  BY <2>2, <3>1 DEF JobSound
    <3>3. \A c \in ChunksOf(u) : c[2] \in Nat  BY <2>4, ChunkPair DEF ChunksOf
    <3>4. CASE /\ job[u].piece + 1 \in 1..Pieces[u]
               /\ Becomes(u, IF u \in Embedded THEN "index" ELSE "create", job[u].piece + 1)
      <4>1. /\ job'[u].at = IF u \in Embedded THEN "index" ELSE "create"
            /\ job'[u].piece = job[u].piece + 1
        BY <3>4 DEF Becomes
      <4>2. \A c \in ChunksOf(u) :
              /\ c[2] > job[u].piece + 1 => c[2] > job[u].piece
              /\ c[2] = job[u].piece + 1 => c[2] > job[u].piece
        BY <2>4, <3>2, <3>3
      <4>3. u \notin Embedded => \A c \in ChunksOf(u) : c[2] > job[u].piece => row'[c] = "none"
        <5>1. job[u].at # "idle" /\ row' = row  BY <3>1
        <5>2. QED  BY <2>2, <5>1 DEF JobSound
      <4>4. CASE u \in Embedded
        BY <2>2, <2>3, <3>1, <3>4, <4>1, <4>4 DEF JobSound
      <4>5. CASE u \notin Embedded
        <5>1. job'[u].at = "create"  BY <4>1, <4>5
        <5>2. ~NotSeen(u)'  BY <2>2, <2>3, <3>1 DEF JobSound
        <5>3. \A c \in ChunksOf(u)' :
                c[2] > job'[u].piece \/ c[2] = job'[u].piece => row'[c] = "none"
          BY <4>1, <4>2, <4>3, <4>5 DEF ChunksOf
        <5>4. job'[u].piece \in 1..Pieces[u]  BY <3>4, <4>1
        <5>5. QED  BY <4>5, <5>1, <5>2, <5>3, <5>4 DEF JobSound
      <4>6. QED  BY <4>4, <4>5
    <3>5. CASE Becomes(u, "idle", 0)  BY <3>5 DEF JobSound, Becomes
    <3>6. CASE u \notin Embedded /\ Becomes(u, "finish", job[u].piece)
      BY <2>2, <2>3, <3>1, <3>2, <3>6 DEF JobSound, ChunksOf, Becomes
    <3>7. job \in [Upload -> Job]  BY <1>1 DEF TypeOK
    <3>8. QED  BY <3>1, <3>2, <3>4, <3>5, <3>6, <3>7, NextBecomes
  <2>13. ASSUME Refuse(u) \/ Finish(u) \/ FailUpload(u)  PROVE JobSound(u)'
    BY <2>13, WorkJobs DEF Becomes, JobSound
  <2>14. JobSound(u)'
    BY <1>2, <2>5, <2>6, <2>7, <2>8, <2>9, <2>10, <2>11, <2>12, <2>13 DEF UploadStep
  <2>15. QED  BY <2>1, <2>14 DEF JobsSound
<1>3. ASSUME UNCHANGED <<row, job>>  PROVE JobsSound'
  BY <1>3, JobKept DEF JobsSound
<1>4. CASE FillStep
  BY <1>3, <1>4 DEF FillStep, List, GiveUp, StoreEmbedding, AddVector, MarkVector, StopFill
<1>5. CASE SnapStep
  BY <1>3, <1>5 DEF SnapStep, Flush, SaveWords, SaveVectors, StopSnap
<1>6. CASE (\E m \in Model : Start(m)) \/ SetMeta \/ LoadAndReconcile
  BY <1>3, <1>6 DEF Start, SetMeta, LoadAndReconcile
<1>7. CASE ClearAllEmbeddings \/ RemoveVectorsFile \/ LoseFile \/ Stop
  BY <1>3, <1>7 DEF ClearAllEmbeddings, RemoveVectorsFile, LoseFile, Stop
<1>8. CASE GoDown  BY <1>8, ConstantTypes DEF GoDown, JobsSound, JobSound
<1>9. CASE UNCHANGED vars  BY <1>3, <1>9
<1>10. QED  BY <1>2, <1>4, <1>5, <1>6, <1>7, <1>8, <1>9, NextCases

(* Only stored chunks get embeddings.                                      *)
LEMMA FillSoundStep ==
  ASSUME IInv, [Next]_vars
  PROVE  FillSound'
<1> USE DEF vars, tables, files, memory, workers, history
<1>1. TypeOK /\ FillSound  BY DEF IInv
<1>2. Stored \subseteq Stored'  BY RowsStay DEF Stored
<1>3. emb \in Vectors /\ fill \in Fill  BY <1>1 DEF TypeOK
<1>4. ASSUME fill' = fill, \A c \in Chunk \ Stored' : emb'[c] = None
      PROVE  FillSound'
  BY <1>1, <1>2, <1>4 DEF FillSound
<1>5. ASSUME NEW u \in Upload, UploadStep(u)  PROVE FillSound'
  <2>1. CASE Import(u)
    BY <1>1, <1>2, <1>4, <2>1 DEF FillSound, Import, Stored
  <2>2. CASE ~Import(u)
    <3>1. fill' = fill /\ emb' = emb
      BY <1>5, <2>2 DEF UploadStep, Accept, Begin, Supersede, Create, Index, IndexVector, Refuse,
           Mark, Finish, FailUpload
    <3>2. QED  BY <1>1, <1>2, <1>4, <3>1 DEF FillSound
  <2>3. QED  BY <2>1, <2>2
<1>6. CASE List
  <2>1. fill'.todo \subseteq Live(row) /\ fill'.at = "embed"
    BY <1>6 DEF List, Missing
  <2>2. Live(row) \subseteq Stored /\ row' = row /\ emb' = emb
    BY <1>6 DEF Live, Stored, List
  <2>3. QED  BY <1>1, <2>1, <2>2 DEF FillSound, Stored
<1>7. CASE GiveUp  BY <1>1, <1>7, ConstantTypes DEF FillSound, Stored, GiveUp
<1>8. CASE StoreEmbedding
  <2>1. row' = row  BY <1>8 DEF StoreEmbedding
  <2>2. CASE fill' = Resting /\ UNCHANGED emb
    BY <1>1, <2>1, <2>2, ConstantTypes DEF FillSound, Stored
  <2>3. CASE \E c \in fill.todo :
               /\ emb' = [emb EXCEPT ![c] = model]
               /\ fill' = [fill EXCEPT !.at = "index", !.chunk = c]
    <3>1. PICK c \in fill.todo :
            /\ emb' = [emb EXCEPT ![c] = model]
            /\ fill' = [fill EXCEPT !.at = "index", !.chunk = c]
      BY <2>3
    <3>2. fill'.todo = fill.todo /\ fill'.chunk = c  BY <1>3, <3>1 DEF Fill
    <3>3. c \in Stored  BY <1>1, <3>1 DEF FillSound
    <3>4. \A d \in Chunk \ Stored : emb'[d] = None
      BY <1>1, <1>3, <3>1, <3>3 DEF FillSound, Vectors
    <3>5. QED  BY <1>1, <2>1, <3>2, <3>3, <3>4 DEF FillSound, Stored
  <2>4. QED  BY <1>8, <2>2, <2>3 DEF StoreEmbedding
<1>9. CASE AddVector  BY <1>1, <1>3, <1>9 DEF FillSound, Stored, AddVector, Fill
<1>10. CASE MarkVector
  BY <1>1, <1>3, <1>10, ConstantTypes DEF FillSound, Stored, MarkVector, AfterChunk, Fill
<1>11. CASE StopFill  BY <1>1, <1>3, <1>11 DEF FillSound, Stored, StopFill, Fill
<1>12. CASE SnapStep
  BY <1>1, <1>12 DEF FillSound, Stored, SnapStep, Flush, SaveWords, SaveVectors, StopSnap
<1>13. CASE (\E m \in Model : Start(m)) \/ SetMeta \/ LoadAndReconcile
  BY <1>1, <1>13 DEF FillSound, Stored, Start, SetMeta, LoadAndReconcile
<1>14. CASE ClearAllEmbeddings
  BY <1>1, <1>14 DEF FillSound, Stored, ClearAllEmbeddings, NoVectors
<1>15. CASE RemoveVectorsFile \/ LoseFile \/ Stop
  BY <1>1, <1>15 DEF FillSound, Stored, RemoveVectorsFile, LoseFile, Stop
<1>16. CASE GoDown  BY <1>1, <1>16, ConstantTypes DEF FillSound, Stored, GoDown
<1>17. CASE UNCHANGED vars  BY <1>1, <1>17 DEF FillSound, Stored
<1>18. QED
  BY <1>5, <1>6, <1>7, <1>8, <1>9, <1>10, <1>11, <1>12, <1>13, <1>14, <1>15, <1>16,
     <1>17, NextCases DEF FillStep

(* Vectors are brought with chunks that are stored then.                   *)
LEMMA BroughtStep ==
  ASSUME IInv, [Next]_vars
  PROVE  BroughtSound'
<1> USE DEF vars, tables, files, memory, workers, history
<1>1. TypeOK /\ BroughtSound /\ JobsSound  BY DEF IInv
<1>2. \A u \in Upload : ~NotSeen(u) => ~NotSeen(u)'  BY RowsStay DEF NotSeen, ChunksOf
<1>3. ASSUME brought' = brought, broken' \subseteq Embedded  PROVE BroughtSound'
  BY <1>1, <1>2, <1>3 DEF BroughtSound
<1>4. ASSUME NEW u \in Upload, Import(u)  PROVE BroughtSound'
  <2>1. \A v \in Upload \ {u} : brought'[v] = brought[v]
    BY <1>1, <1>4 DEF Import, TypeOK
  <2>2. <<u, 1>> \in ChunksOf(u)  BY PiecesType, PairChunk DEF ChunksOf
  <2>3. row'[<<u, 1>>] # "none"  BY <1>4, <2>2 DEF Import, ChunksOf
  <2>4. ~NotSeen(u)'  BY <2>2, <2>3 DEF NotSeen, ChunksOf
  <2>5. broken' = broken  BY <1>4 DEF Import
  <2>6. QED  BY <1>1, <1>2, <2>1, <2>4, <2>5 DEF BroughtSound
<1>5. ASSUME NEW u \in Upload, UploadStep(u), ~Import(u)
      PROVE  brought' = brought /\ broken' \subseteq Embedded
  <2>1. CASE Refuse(u)
    <3>1. u \in Embedded  BY <1>1, <2>1 DEF JobsSound, JobSound, Refuse
    <3>2. QED  BY <1>1, <2>1, <3>1 DEF BroughtSound, Refuse
  <2>2. CASE ~Refuse(u)
    BY <1>1, <1>5, <2>2 DEF BroughtSound, UploadStep, Accept, Begin, Supersede, Create, Index,
       IndexVector, Mark, Finish, FailUpload
  <2>3. QED  BY <2>1, <2>2
<1>6. CASE FillStep \/ SnapStep
  BY <1>1, <1>3, <1>6 DEF BroughtSound, FillStep, List, GiveUp, StoreEmbedding, AddVector, MarkVector,
     StopFill, SnapStep, Flush, SaveWords, SaveVectors, StopSnap
<1>7. CASE RemoveVectorsFile  BY <1>1, <1>7 DEF BroughtSound, RemoveVectorsFile
<1>8. CASE (\E m \in Model : Start(m)) \/ ClearAllEmbeddings \/ SetMeta
  BY <1>1, <1>3, <1>8 DEF BroughtSound, Start, ClearAllEmbeddings, SetMeta
<1>9. CASE LoadAndReconcile \/ LoseFile \/ Stop \/ GoDown \/ UNCHANGED vars
  BY <1>1, <1>3, <1>9 DEF BroughtSound, LoadAndReconcile, LoseFile, Stop, GoDown
<1>10. QED  BY <1>3, <1>4, <1>5, <1>6, <1>7, <1>8, <1>9, NextCases

(* No other touches what the backfiller has stored and not indexed yet.    *)
LEMMA FillModelStep ==
  ASSUME IInv, [Next]_vars
  PROVE  FillOfModel'
<1> USE DEF vars, tables, files, memory, workers, history
<1>1. TypeOK /\ FillSound /\ FillOfModel /\ Quiet  BY DEF IInv
<1>2. emb \in Vectors /\ fill \in Fill  BY <1>1 DEF TypeOK
<1>3. ASSUME NEW u \in Upload, UploadStep(u)  PROVE FillOfModel'
  <2>1. UNCHANGED <<fill, model>>
    BY <1>3 DEF UploadStep, Accept, Import, Begin, Supersede, Create, Index, IndexVector,
       Refuse, Mark, Finish, FailUpload
  <2>2. SUFFICES ASSUME fill.at = "index"  PROVE emb'[fill.chunk] = emb[fill.chunk]
    BY <1>1, <2>1 DEF FillOfModel
  <2>3. fill.chunk \in Chunk /\ row[fill.chunk] # "none"
    BY <1>1, <2>2 DEF FillSound, Stored
  <2>4. CASE Import(u)
    <3>1. fill.chunk[1] # u  BY <2>3, <2>4 DEF Import, NotSeen, ChunksOf
    <3>2. QED  BY <2>3, <2>4, <3>1 DEF Import
  <2>5. CASE ~Import(u)
    BY <1>3, <2>5 DEF UploadStep, Accept, Begin, Supersede, Create, Index, IndexVector,
       Refuse, Mark, Finish, FailUpload
  <2>6. QED  BY <2>4, <2>5
<1>4. CASE StoreEmbedding
  <2>1. CASE fill' = Resting  BY <2>1, ConstantTypes DEF FillOfModel
  <2>2. CASE \E c \in fill.todo :
               /\ emb' = [emb EXCEPT ![c] = model]
               /\ fill' = [fill EXCEPT !.at = "index", !.chunk = c]
    <3>1. PICK c \in fill.todo :
            /\ emb' = [emb EXCEPT ![c] = model]
            /\ fill' = [fill EXCEPT !.at = "index", !.chunk = c]
      BY <2>2
    <3>2. c \in Chunk  BY <1>1, <3>1 DEF FillSound, Stored
    <3>3. fill'.chunk = c /\ emb'[c] = model /\ model' = model
      BY <1>2, <1>4, <3>1, <3>2 DEF Fill, Vectors, StoreEmbedding
    <3>4. QED  BY <3>3 DEF FillOfModel
  <2>3. QED  BY <1>4, <2>1, <2>2 DEF StoreEmbedding
<1>5. CASE List \/ GiveUp \/ StopFill
  BY <1>2, <1>5, ConstantTypes DEF FillOfModel, Fill, List, GiveUp, StopFill
<1>6. CASE AddVector \/ MarkVector
  BY <1>2, <1>6, ConstantTypes DEF FillOfModel, Fill, AddVector, MarkVector, AfterChunk
<1>7. CASE SnapStep
  BY <1>1, <1>7 DEF FillOfModel, SnapStep, Flush, SaveWords, SaveVectors, StopSnap
<1>8. CASE (\E m \in Model : Start(m)) \/ ClearAllEmbeddings
  BY <1>1, <1>8, ConstantTypes DEF FillOfModel, Quiet, Serving, Start, ClearAllEmbeddings
<1>9. CASE RemoveVectorsFile \/ SetMeta \/ LoadAndReconcile \/ LoseFile \/ Stop
  BY <1>1, <1>9 DEF FillOfModel, RemoveVectorsFile, SetMeta, LoadAndReconcile, LoseFile, Stop
<1>10. CASE GoDown  BY <1>10, ConstantTypes DEF FillOfModel, GoDown
<1>11. CASE UNCHANGED vars  BY <1>1, <1>11 DEF FillOfModel
<1>12. QED
  BY <1>3, <1>4, <1>5, <1>6, <1>7, <1>8, <1>9, <1>10, <1>11, NextCases DEF FillStep

-----------------------------------------------------------------------------
(* Chunks. *)

(* What a step of u does to other uploads' chunks in memory, and to all.   *)
LEMMA IndexGrows ==
  ASSUME IInv, NEW u \in Upload, UploadStep(u)
  PROVE  /\ words \subseteq words' /\ passages \subseteq passages'
         /\ broken \subseteq broken'
         /\ UNCHANGED <<wordsFile, vectorsFile, fill, snap>>
         /\ \A c \in Chunk : c[1] # u => emb'[c] = emb[c] /\ vectors'[c] = vectors[c]
<1> USE DEF vars, tables, files, memory, workers, history
<1>1. TypeOK /\ JobsSound  BY DEF IInv
<1>2. CASE Import(u)  BY <1>1, <1>2 DEF TypeOK, Vectors, Import
<1>3. CASE IndexVector(u)
  <2>1. At(u)[1] = u  BY <1>1, <1>3, AtChunk DEF IndexVector
  <2>2. QED  BY <1>1, <1>3, <2>1 DEF TypeOK, Vectors, IndexVector
<1>4. CASE Accept(u) \/ Begin(u) \/ Supersede(u) \/ Create(u)
  BY <1>4 DEF Accept, Begin, Supersede, Create
<1>5. CASE Index(u) \/ Refuse(u) \/ Mark(u) \/ Finish(u) \/ FailUpload(u)
  BY <1>5 DEF Index, Refuse, Mark, Finish, FailUpload
<1>6. QED  BY <1>2, <1>3, <1>4, <1>5 DEF UploadStep

(* A chunk of an import in hand stays in hand, or is the one just indexed. *)
LEMMA HandMoves ==
  ASSUME IInv, NEW u \in Embedded, NEW c \in ChunksOf(u), InHand(c)
  PROVE  /\ Index(u) => c = At(u) \/ InHand(c)'
         /\ IndexVector(u) => InHand(c)'
         /\ Mark(u) => InHand(c)'
<1> USE IngestionAssumption
<1>1. TypeOK /\ JobsSound /\ c \in Chunk /\ c[1] = u /\ u \in Upload
  BY DEF IInv, ChunksOf
<1>2. c[2] \in 1..Pieces[u] /\ c = <<u, c[2]>> /\ Pieces[u] \in Nat \ {0}
  BY <1>1, ChunkPair, PiecesType
<1>3. job \in [Upload -> Job]  BY <1>1 DEF TypeOK
<1>4. ASSUME Index(u)  PROVE c = At(u) \/ InHand(c)'
  <2>1. job[u].at = "index"  BY <1>4 DEF Index
  <2>2. job[u].piece \in 1..Pieces[u] /\ At(u) = <<u, job[u].piece>>
    BY <1>1, <2>1, AtChunk
  <2>3. job[u].piece <= c[2]  BY <1>1, <2>1 DEF InHand
  <2>4. job'[u].at = "vector" /\ job'[u].piece = job[u].piece
    BY <1>1, <1>4, WorkJobs DEF Becomes
  <2>5. CASE job[u].piece = c[2]  BY <1>2, <2>2, <2>5
  <2>6. CASE job[u].piece < c[2]  BY <1>1, <2>4, <2>6 DEF InHand
  <2>7. QED  BY <1>2, <2>2, <2>3, <2>5, <2>6
<1>5. ASSUME IndexVector(u)  PROVE InHand(c)'
  <2>1. job[u].at = "vector"  BY <1>5 DEF IndexVector
  <2>2. job[u].piece < c[2]  BY <1>1, <2>1 DEF InHand
  <2>3. job'[u].at = "mark" /\ job'[u].piece = job[u].piece
    BY <1>1, <1>5, WorkJobs DEF Becomes
  <2>4. QED  BY <1>1, <2>2, <2>3 DEF InHand
<1>6. ASSUME Mark(u)  PROVE InHand(c)'
  <2>1. job[u].at = "mark" /\ NextPiece(u)  BY <1>6 DEF Mark
  <2>2. job[u].piece < c[2]  BY <1>1, <2>1 DEF InHand
  <2>3. job[u].piece \in 1..Pieces[u]  BY <1>1, <2>1, AtChunk
  <2>4. Becomes(u, "index", job[u].piece + 1)
    BY <1>1, <1>2, <1>3, <2>1, <2>2, <2>3, NextBecomes
  <2>5. job'[u].at = "index" /\ job'[u].piece = job[u].piece + 1  BY <2>4 DEF Becomes
  <2>6. QED  BY <1>1, <1>2, <2>2, <2>3, <2>5 DEF InHand
<1>7. QED  BY <1>4, <1>5, <1>6

(* Nothing is in hand of an upload that is at none of these steps.         *)
LEMMA NotInHand ==
  ASSUME NEW c \in Chunk,
         \/ job[c[1]].at \notin {"index", "vector", "mark"}
         \/ c[1] \notin Embedded /\ job[c[1]].at # "index"
  PROVE  ~InHand(c)
  BY DEF InHand

(* Of an upload, only the chunk it is at is in hand.                       *)
LEMMA UploadsHand ==
  ASSUME IInv, NEW u \in Upload \ Embedded, NEW c \in ChunksOf(u), row[c] # "none", InHand(c)
  PROVE  c = At(u) /\ job[u].at = "index"
<1>1. TypeOK /\ JobsSound /\ c \in Chunk /\ c[1] = u  BY DEF IInv, ChunksOf
<1>2. job[u].at = "index" /\ job[u].piece <= c[2]  BY <1>1 DEF InHand
<1>3. ~(c[2] > job[u].piece)  BY <1>1, <1>2 DEF JobsSound, JobSound
<1>4. job[u].piece \in 1..Pieces[u] /\ At(u) = <<u, job[u].piece>>
  BY <1>1, <1>2, AtChunk
<1>5. c[2] \in 1..Pieces[u] /\ c = <<u, c[2]>>  BY <1>1, ChunkPair
<1>6. Pieces[u] \in Nat  BY PiecesType
<1>7. job[u].piece = c[2]  BY <1>2, <1>3, <1>4, <1>5, <1>6
<1>8. QED  BY <1>2, <1>4, <1>5, <1>7

(* LiveFindable is kept.                                                   *)
LEMMA LiveFindableStep ==
  ASSUME IInv, [Next]_vars
  PROVE  LiveFindable'
<1> USE DEF vars, tables, files, memory, workers, history
<1>1. TypeOK /\ JobsSound /\ LiveFindable  BY DEF IInv
<1>2. ASSUME NEW u \in Upload, UploadStep(u)  PROVE LiveFindable'
  <2>1. Serving  BY <1>2, WorkersServe
  <2>2. SUFFICES ASSUME NEW c \in Chunk, row'[c] = "live", c[1] \notin broken'
                 PROVE  c \in words' \cap passages' \/ InHand(c)'
    BY DEF LiveFindable, Live
  <2>3. c[1] \in Upload  BY ChunkPair
  <2>4. row[c] = "live" => c \in words \cap passages \/ InHand(c)
    BY <1>1, <1>2, <2>1, <2>2, IndexGrows DEF LiveFindable, Live
  <2>5. words \subseteq words' /\ passages \subseteq passages'  BY <1>2, IndexGrows
  <2>6. CASE c[1] # u
    <3>1. job'[c[1]] = job[c[1]] /\ row[c] = "live"  BY <1>2, <2>2, <2>3, <2>6, OthersRows
    <3>2. InHand(c) => InHand(c)'  BY <3>1 DEF InHand
    <3>3. QED  BY <2>4, <2>5, <3>1, <3>2
  <2>7. CASE c[1] = u
    <3>1. c \in ChunksOf(u) /\ job[c[1]] = job[u]  BY <2>7 DEF ChunksOf
    <3>2. CASE Accept(u)  BY <2>2, <3>1, <3>2 DEF Accept, NotSeen
    <3>3. CASE Import(u)
      <4>1. job'[u].at = "index" /\ job'[u].piece = 1  BY <3>3, WorkJobs DEF Becomes
      <4>2. 1 <= c[2]  BY ChunkPair, PiecesType, <2>3
      <4>3. QED  BY <2>7, <4>1, <4>2 DEF InHand
    <3>4. CASE Begin(u) \/ Finish(u) \/ FailUpload(u)
      <4>1. row' = row /\ job[u].at \in {"begin", "finish", "fail"}
        BY <3>4 DEF Begin, Finish, FailUpload
      <4>2. QED  BY <2>2, <2>4, <2>5, <3>1, <4>1, NotInHand
    <3>5. CASE Supersede(u)
      <4>1. job[u].at = "supersede" /\ row[c] = "live"
        BY <2>2, <3>5 DEF Supersede, Superseded
      <4>2. QED  BY <2>4, <2>5, <3>1, <4>1, NotInHand
    <3>6. CASE Create(u)
      <4>1. job[u].at = "create"  BY <3>6 DEF Create
      <4>2. CASE row[c] = "live"  BY <2>4, <2>5, <3>1, <4>1, <4>2, NotInHand
      <4>3. CASE row[c] # "live"
        <5>1. c = At(u) /\ Go(u, "index")  BY <1>1, <2>2, <3>6, <4>3 DEF TypeOK, Create
        <5>2. Becomes(u, "index", job[u].piece)
          BY <1>1, <5>1, GoBecomes DEF TypeOK, JobAt
        <5>3. c[2] = job[u].piece  BY <1>1, <4>1, <5>1, AtChunk
        <5>4. c[2] <= c[2]  BY ChunkPair, PiecesType, <2>3
        <5>5. QED  BY <2>7, <5>2, <5>3, <5>4 DEF InHand, Becomes
      <4>4. QED  BY <4>2, <4>3
    <3>7. CASE Index(u)
      <4>1. row[c] = "live"  BY <2>2, <3>7 DEF Index
      <4>2. CASE c = At(u)  BY <3>7, <4>2 DEF Index
      <4>3. CASE c # At(u)
        <5>1. CASE u \in Embedded
          BY <2>4, <2>5, <3>1, <3>7, <4>1, <4>3, <5>1, HandMoves
        <5>2. CASE u \notin Embedded
          BY <2>4, <2>5, <3>1, <4>1, <4>3, <5>2, UploadsHand
        <5>3. QED  BY <5>1, <5>2
      <4>4. QED  BY <4>2, <4>3
    <3>8. CASE IndexVector(u) \/ Mark(u)
      <4>1. row[c] = "live" /\ job[u].at \in {"vector", "mark"}
        BY <2>2, <3>8 DEF IndexVector, Refuse, Mark
      <4>2. CASE u \in Embedded
        BY <2>4, <2>5, <3>1, <3>8, <4>1, <4>2, HandMoves
      <4>3. CASE u \notin Embedded  BY <2>4, <2>5, <2>7, <3>1, <4>1, <4>3, NotInHand
      <4>4. QED  BY <4>2, <4>3
    <3>9. CASE Refuse(u)  BY <2>2, <2>7, <3>9 DEF Refuse
    <3>10. QED
      BY <1>2, <3>2, <3>3, <3>4, <3>5, <3>6, <3>7, <3>8, <3>9 DEF UploadStep
  <2>8. QED  BY <2>6, <2>7
<1>3. CASE FillStep \/ SnapStep
  <2>1. UNCHANGED <<row, words, passages, job, broken>>
    BY <1>3 DEF FillStep, List, GiveUp, StoreEmbedding, AddVector, MarkVector, StopFill,
         SnapStep, Flush, SaveWords, SaveVectors, StopSnap
  <2>2. UNCHANGED phase  BY <1>3, WorkersServe
  <2>3. QED  BY <1>1, <2>1, <2>2 DEF LiveFindable, Live, InHand, Serving
<1>4. CASE LoadAndReconcile
  BY <1>4 DEF LiveFindable, Live, LoadAndReconcile, ReconciledWords, LackWords, RebuiltPassages
<1>5. CASE Stop  BY <1>1, <1>5 DEF LiveFindable, Live, InHand, Serving, Stop
<1>6. ASSUME NEW m \in Model, Start(m)  PROVE LiveFindable'
  BY <1>6 DEF LiveFindable, Serving, Start
<1>7. CASE ClearAllEmbeddings \/ RemoveVectorsFile \/ SetMeta \/ LoseFile \/ GoDown
  BY <1>7 DEF LiveFindable, Serving, ClearAllEmbeddings, RemoveVectorsFile, SetMeta,
       LoseFile, GoDown
<1>8. CASE UNCHANGED vars  BY <1>1, <1>8 DEF LiveFindable, Live, InHand, Serving
<1>9. QED  BY <1>2, <1>3, <1>4, <1>5, <1>6, <1>7, <1>8, NextCases

(* EmbeddingsFound is kept.                                                *)
LEMMA EmbeddingsFoundStep ==
  ASSUME IInv, [Next]_vars
  PROVE  EmbeddingsFound'
<1> USE DEF vars, tables, files, memory, workers, history
<1>1. /\ TypeOK /\ JobsSound /\ FillSound /\ OfMeta /\ OneModel /\ EmbeddingsFound
      /\ FillOfModel
  BY DEF IInv
<1>2. emb \in Vectors /\ vectors \in Vectors  BY <1>1 DEF TypeOK
<1>3. ASSUME NEW u \in Upload, UploadStep(u)  PROVE EmbeddingsFound'
  <2>1. Serving /\ UNCHANGED <<model, leftover>>  BY <1>3, WorkersServe
  <2>2. SUFFICES ASSUME NEW c \in Chunk, row'[c] = "live", ~leftover, c[1] \notin broken',
                        ~Hidden(c)'
                 PROVE  EmbeddingFound(c)'
    BY <2>1 DEF EmbeddingsFound, EmbeddingFound, Live
  <2>3. c[1] \in Upload  BY ChunkPair
  <2>4. row[c] = "live" => EmbeddingFound(c)
    BY <1>1, <2>1 DEF EmbeddingsFound, Live
  <2>5. fill' = fill /\ c[1] \notin broken  BY <1>3, <2>2, IndexGrows
  <2>6. row[c] = "live" /\ vectors'[c] = vectors[c] => ~Hidden(c)
    <3>1. ~Import(u) => brought' = brought
      BY <1>3 DEF UploadStep, Accept, Begin, Supersede, Create, Index, IndexVector, Refuse,
         Mark, Finish, FailUpload
    <3>2. Import(u) /\ c[1] # u => brought'[c[1]] = brought[c[1]]
      BY <1>1, <2>3 DEF Import, TypeOK
    <3>3. Import(u) /\ c[1] = u => row[c] = "none"  BY DEF Import, NotSeen, ChunksOf
    <3>4. QED  BY <2>1, <2>2, <3>1, <3>2, <3>3 DEF Hidden
  <2>7. CASE c[1] # u
    <3>1. job'[c[1]] = job[c[1]] /\ row[c] = "live"  BY <1>3, <2>2, <2>3, <2>7, OthersRows
    <3>2. emb'[c] = emb[c] /\ vectors'[c] = vectors[c]  BY <1>3, <2>7, IndexGrows
    <3>3. QED  BY <2>1, <2>2, <2>4, <2>5, <2>6, <2>7, <3>1, <3>2 DEF EmbeddingFound, InHand, VectorDue, At
  <2>8. CASE c[1] = u
    <3>1. c \in ChunksOf(u)  BY <2>8 DEF ChunksOf
    <3>2. CASE Accept(u)  BY <2>2, <3>1, <3>2 DEF Accept, NotSeen
    <3>3. CASE Import(u)
      <4>1. job'[u].at = "index" /\ job'[u].piece = 1  BY <3>3, WorkJobs DEF Becomes
      <4>2. 1 <= c[2]  BY ChunkPair, PiecesType, <2>3
      <4>3. u \in Embedded  BY <3>3 DEF Import
      <4>4. QED  BY <2>8, <4>1, <4>2, <4>3 DEF EmbeddingFound, InHand
    <3>4. CASE Begin(u) \/ Supersede(u) \/ Finish(u) \/ FailUpload(u)
      <4>1. row[c] = "live" /\ UNCHANGED <<emb, vectors>>
        BY <2>2, <3>4 DEF Begin, Supersede, Superseded, Finish, FailUpload
      <4>2. job[u].at \in {"begin", "supersede", "finish", "fail"}
        BY <3>4 DEF Begin, Supersede, Finish, FailUpload
      <4>3. ~Hidden(c)  BY <2>6, <4>1
      <4>4. emb[c] \in {None, vectors[c]} \/ (fill.at = "index" /\ fill.chunk = c)
        BY <2>2, <2>4, <2>5, <2>8, <4>1, <4>2, <4>3, NotInHand DEF EmbeddingFound, VectorDue
      <4>5. QED  BY <2>5, <4>1, <4>4 DEF EmbeddingFound
    <3>5. CASE Create(u)
      <4>1. job[u].at = "create" /\ UNCHANGED <<emb, vectors>>  BY <3>5 DEF Create
      <4>2. CASE row[c] = "live"
        <5>1. ~Hidden(c)  BY <2>6, <4>1, <4>2
        <5>2. emb[c] \in {None, vectors[c]} \/ (fill.at = "index" /\ fill.chunk = c)
          BY <2>2, <2>4, <2>5, <2>8, <4>1, <4>2, <5>1, NotInHand DEF EmbeddingFound, VectorDue
        <5>3. QED  BY <2>5, <4>1, <5>2 DEF EmbeddingFound
      <4>3. CASE row[c] # "live"
        <5>1. c = At(u)  BY <1>1, <2>2, <3>5, <4>3 DEF TypeOK, Create
        <5>2. c[2] = job[u].piece  BY <1>1, <4>1, <5>1, AtChunk
        <5>3. u \notin Embedded  BY <1>1, <4>1 DEF JobsSound, JobSound
        <5>4. row[c] = "none"  BY <1>1, <3>1, <4>1, <5>2, <5>3 DEF JobsSound, JobSound
        <5>5. emb[c] = None  BY <1>1, <5>4 DEF FillSound, Stored
        <5>6. QED  BY <4>1, <5>5 DEF EmbeddingFound
      <4>4. QED  BY <4>2, <4>3
    <3>6. CASE Index(u)
      <4>1. row[c] = "live" /\ job[u].at = "index" /\ UNCHANGED <<emb, vectors>>
        BY <2>2, <3>6 DEF Index
      <4>2. CASE u \in Embedded /\ c = At(u)
        <5>1. job'[u].at = "vector" /\ job'[u].piece = job[u].piece
          BY <3>6, <4>2, WorkJobs DEF Becomes
        <5>2. At(u)' = c  BY <4>2, <5>1 DEF At
        <5>3. QED  BY <2>8, <4>2, <5>1, <5>2 DEF EmbeddingFound, VectorDue
      <4>3. CASE u \in Embedded /\ InHand(c) /\ c # At(u)
        BY <2>8, <3>1, <3>6, <4>3, HandMoves DEF EmbeddingFound
      <4>4. CASE emb[c] \in {None, vectors[c]} \/ (fill.at = "index" /\ fill.chunk = c)
        BY <2>5, <4>1, <4>4 DEF EmbeddingFound
      <4>5. ~Hidden(c)  BY <2>6, <4>1
      <4>6. QED
        BY <2>2, <2>4, <2>5, <2>8, <4>1, <4>2, <4>3, <4>4, <4>5 DEF EmbeddingFound, VectorDue
    <3>7. CASE IndexVector(u)
      <4>1. row[c] = "live" /\ emb' = emb /\ vectors' = [vectors EXCEPT ![At(u)] = emb[At(u)]]
        BY <2>2, <3>7 DEF IndexVector
      <4>2. CASE c = At(u)
        <5>1. vectors'[c] = emb[c]  BY <1>2, <4>1, <4>2 DEF Vectors
        <5>2. QED  BY <4>1, <5>1 DEF EmbeddingFound
      <4>3. CASE c # At(u)
        <5>1. vectors'[c] = vectors[c]  BY <1>2, <4>1, <4>3 DEF Vectors
        <5>2. InHand(c) /\ u \in Embedded => InHand(c)'  BY <3>1, <3>7, HandMoves
        <5>3. ~Hidden(c)  BY <2>6, <4>1, <5>1
        <5>4. c # At(c[1])  BY <2>8, <4>3
        <5>5. QED
          BY <2>2, <2>4, <2>5, <2>8, <4>1, <5>1, <5>2, <5>3, <5>4
          DEF EmbeddingFound, VectorDue
      <4>4. QED  BY <4>2, <4>3
    <3>8. CASE Mark(u)
      <4>1. row[c] = "live" /\ job[u].at = "mark" /\ UNCHANGED <<emb, vectors>>
        BY <2>2, <3>8 DEF Mark
      <4>2. InHand(c) /\ u \in Embedded => InHand(c)'  BY <3>1, <3>8, HandMoves
      <4>3. ~Hidden(c)  BY <2>6, <4>1
      <4>4. QED
        BY <2>2, <2>4, <2>5, <2>8, <4>1, <4>2, <4>3 DEF EmbeddingFound, VectorDue
    <3>9. CASE Refuse(u)  BY <2>2, <2>8, <3>9 DEF Refuse
    <3>10. QED
      BY <1>3, <3>2, <3>3, <3>4, <3>5, <3>6, <3>7, <3>8, <3>9 DEF UploadStep
  <2>9. QED  BY <2>7, <2>8
<1>4. CASE FillStep
  <2>1. Serving /\ UNCHANGED <<phase, model, leftover>>  BY <1>4, WorkersServe
  <2>2. UNCHANGED <<row, job, brought, broken>>
    BY <1>4 DEF FillStep, List, GiveUp, StoreEmbedding, AddVector, MarkVector, StopFill
  <2>3. SUFFICES ASSUME NEW c \in Chunk, row[c] = "live"
                 PROVE  EmbeddingFound(c)'
    BY <2>2 DEF EmbeddingsFound, Live
  <2>4. EmbeddingFound(c) /\ (vectors' = vectors => (Hidden(c) => Hidden(c)'))
    BY <1>1, <2>1, <2>2, <2>3 DEF EmbeddingsFound, Live, Hidden
  <2>5. CASE StoreEmbedding
    <3>1. fill.at # "index" /\ vectors' = vectors  BY <2>5 DEF StoreEmbedding
    <3>2. CASE emb' = emb
      BY <2>1, <2>2, <2>4, <3>1, <3>2 DEF EmbeddingFound, InHand, VectorDue, At
    <3>3. CASE \E d \in fill.todo :
                 /\ emb' = [emb EXCEPT ![d] = model]
                 /\ fill' = [fill EXCEPT !.at = "index", !.chunk = d]
      <4>1. PICK d \in fill.todo :
              /\ emb' = [emb EXCEPT ![d] = model]
              /\ fill' = [fill EXCEPT !.at = "index", !.chunk = d]
        BY <3>3
      <4>2. fill'.at = "index" /\ fill'.chunk = d
        BY <1>1, <4>1 DEF TypeOK, Fill
      <4>3. c # d => emb'[c] = emb[c]  BY <1>2, <4>1 DEF Vectors
      <4>4. QED  BY <2>1, <2>2, <2>4, <3>1, <4>2, <4>3 DEF EmbeddingFound, InHand, VectorDue, At
    <3>4. QED  BY <2>5, <3>2, <3>3 DEF StoreEmbedding
  <2>6. CASE AddVector
    <3>1. emb' = emb /\ vectors' = [vectors EXCEPT ![fill.chunk] = model]
      BY <2>6 DEF AddVector
    <3>2. CASE c = fill.chunk
      <4>1. vectors'[c] = model  BY <1>2, <3>1, <3>2 DEF Vectors
      <4>2. emb[c] = model  BY <1>1, <2>6, <3>2 DEF FillOfModel, AddVector
      <4>3. QED  BY <3>1, <4>1, <4>2 DEF EmbeddingFound
    <3>3. CASE c # fill.chunk
      <4>1. vectors'[c] = vectors[c]  BY <1>2, <3>1, <3>3 DEF Vectors
      <4>2. Hidden(c) => Hidden(c)'  BY <2>1, <2>2, <4>1 DEF Hidden
      <4>3. QED
        BY <2>1, <2>2, <2>4, <3>1, <3>3, <4>1, <4>2 DEF EmbeddingFound, InHand, VectorDue, At
    <3>4. QED  BY <3>2, <3>3
  <2>7. CASE List \/ GiveUp \/ MarkVector \/ StopFill
    <3>1. fill.at # "index" /\ UNCHANGED <<emb, vectors>>
      BY <2>7 DEF List, GiveUp, MarkVector, StopFill
    <3>2. QED  BY <2>1, <2>2, <2>4, <3>1 DEF EmbeddingFound, InHand, VectorDue, At
  <2>8. QED  BY <1>4, <2>5, <2>6, <2>7 DEF FillStep
<1>5. CASE SnapStep
  <2>1. UNCHANGED <<row, emb, vectors, job, fill, brought, broken>>
    BY <1>5 DEF SnapStep, Flush, SaveWords, SaveVectors, StopSnap
  <2>2. UNCHANGED <<phase, model, leftover>>  BY <1>5, WorkersServe
  <2>3. QED
    BY <1>1, <2>1, <2>2
    DEF EmbeddingsFound, EmbeddingFound, Live, InHand, VectorDue, Hidden, At, Serving
<1>6. CASE LoadAndReconcile
  <2>1. /\ phase = "load" /\ UNCHANGED <<row, emb, model, leftover, brought>>
        /\ vectors' = ReconciledVectors(row, emb, wordsFile, vectorsFile)
    BY <1>6 DEF LoadAndReconcile
  <2>2. SUFFICES ASSUME NEW c \in Chunk, row[c] = "live", ~leftover, ~Hidden(c)'
                 PROVE  emb[c] \in {None, vectors'[c]}
    BY <2>1 DEF EmbeddingsFound, EmbeddingFound, Live
  <2>3. /\ emb[c] \in {None, model, brought[c[1]]}
        /\ vectorsFile[c] \in {None, model, brought[c[1]]}
        /\ brought[c[1]] \in {None, model} \/ vectors'[c] = None
    BY <1>1, <2>1, <2>2 DEF OfMeta, Hidden
  <2>4. c \in LackVector(row, emb, wordsFile, vectorsFile) => vectors'[c] = emb[c]
    BY <2>1 DEF ReconciledVectors
  <2>5. CASE c \notin LackVector(row, emb, wordsFile, vectorsFile)
    <3>1. vectors'[c] = vectorsFile[c]  BY <2>1, <2>5 DEF ReconciledVectors
    <3>2. emb[c] = None \/ vectorsFile[c] # None  BY <2>2, <2>5 DEF LackVector, Live
    <3>3. QED  BY <2>3, <3>1, <3>2
  <2>6. QED  BY <2>4, <2>5
<1>7. CASE Stop
  BY <1>1, <1>7
  DEF EmbeddingsFound, EmbeddingFound, Live, InHand, VectorDue, Hidden, At, Serving, Stop
<1>8. ASSUME NEW m \in Model, Start(m)  PROVE EmbeddingsFound'
  BY <1>8 DEF EmbeddingsFound, Serving, Start
<1>9. CASE ClearAllEmbeddings \/ RemoveVectorsFile \/ SetMeta \/ LoseFile \/ GoDown
  BY <1>9 DEF EmbeddingsFound, Serving, ClearAllEmbeddings, RemoveVectorsFile, SetMeta,
       LoseFile, GoDown
<1>10. CASE UNCHANGED vars
  BY <1>1, <1>10
  DEF EmbeddingsFound, EmbeddingFound, Live, InHand, VectorDue, Hidden, At, Serving
<1>11. QED  BY <1>3, <1>4, <1>5, <1>6, <1>7, <1>8, <1>9, <1>10, NextCases

-----------------------------------------------------------------------------
(* Files. *)

(* A change of memory in a step of u is of the chunk it is at, and its flag *)
(* is up after the step or still to be raised, or an import breaks off.     *)
LEMMA MarkFollows ==
  ASSUME IInv, NEW u \in Upload, UploadStep(u), NEW c \in Chunk
  PROVE  /\ dirty => dirty'
         /\ Unmarked(c) => dirty' \/ Unmarked(c)'
         /\ VectorDue(c) => VectorDue(c)' \/ Unmarked(c)' \/ c[1] \in broken'
         /\ c \in words' => c \in words \/ VectorDue(c)' \/ Unmarked(c)'
         /\ vectors'[c] = vectors[c] \/ Unmarked(c)'
<1> USE DEF vars, tables, files, memory, workers, history
<1>1. TypeOK /\ JobsSound  BY DEF IInv
<1>2. vectors \in Vectors /\ dirty \in BOOLEAN  BY <1>1 DEF TypeOK
<1>3. c[1] \in Upload /\ fill' = fill  BY ChunkPair, IndexGrows
<1>4. CASE Index(u)
  <2>1. job[u].at = "index" /\ words' = words \cup {At(u)} /\ UNCHANGED <<vectors, dirty>>
    BY <1>4 DEF Index
  <2>2. /\ job'[u].at \in {"vector", "mark"} /\ job'[u].piece = job[u].piece
        /\ \A v \in Upload \ {u} : job'[v] = job[v]
    BY <1>4, WorkJobs DEF Becomes
  <2>3. At(u)' = At(u) /\ At(u)[1] = u  BY <1>1, <2>1, <2>2, AtChunk DEF At
  <2>4. (Unmarked(c) => Unmarked(c)') /\ (VectorDue(c) => VectorDue(c)')
    BY <1>3, <2>1, <2>2 DEF Unmarked, VectorDue, At
  <2>5. c = At(u) => VectorDue(c)' \/ Unmarked(c)'
    BY <2>2, <2>3 DEF Unmarked, VectorDue
  <2>6. QED  BY <2>1, <2>4, <2>5
<1>5. CASE IndexVector(u)
  <2>1. job[u].at = "vector" /\ vectors' = [vectors EXCEPT ![At(u)] = emb[At(u)]]
        /\ UNCHANGED <<words, dirty>>
    BY <1>5 DEF IndexVector
  <2>2. /\ job'[u].at = "mark" /\ job'[u].piece = job[u].piece
        /\ \A v \in Upload \ {u} : job'[v] = job[v]
    BY <1>5, WorkJobs DEF Becomes
  <2>3. At(u)' = At(u) /\ At(u)[1] = u  BY <1>1, <2>1, <2>2, AtChunk DEF At
  <2>4. /\ Unmarked(c) => Unmarked(c)'
        /\ VectorDue(c) => VectorDue(c)' \/ Unmarked(c)'
    BY <1>3, <2>1, <2>2, <2>3 DEF Unmarked, VectorDue, At
  <2>5. c = At(u) => Unmarked(c)'  BY <2>2, <2>3 DEF Unmarked
  <2>6. c # At(u) => vectors'[c] = vectors[c]  BY <1>2, <2>1 DEF Vectors
  <2>7. QED  BY <2>1, <2>4, <2>5, <2>6
<1>6. CASE Mark(u)
  <2>1. dirty' = TRUE /\ UNCHANGED <<words, vectors>> /\ job[u].at = "mark"
    BY <1>6 DEF Mark
  <2>2. VectorDue(c) => c[1] \in Upload \ {u}  BY <1>3, <2>1 DEF VectorDue
  <2>3. \A v \in Upload \ {u} : job'[v] = job[v]  BY OthersRows
  <2>4. VectorDue(c) => VectorDue(c)'  BY <2>2, <2>3 DEF VectorDue, At
  <2>5. QED  BY <2>1, <2>4
<1>7. CASE Refuse(u)
  <2>1. /\ UNCHANGED <<words, vectors, dirty>> /\ u \in broken' /\ job[u].at = "vector"
        /\ broken \subseteq broken'
    BY <1>7 DEF Refuse
  <2>2. \A v \in Upload \ {u} : job'[v] = job[v]  BY OthersRows
  <2>3. c[1] # u => (Unmarked(c) => Unmarked(c)') /\ (VectorDue(c) => VectorDue(c)')
    BY <1>3, <2>2 DEF Unmarked, VectorDue, At
  <2>4. c[1] = u => (Unmarked(c) => Unmarked(c)')  BY <1>3, <2>1 DEF Unmarked
  <2>5. QED  BY <2>1, <2>3, <2>4
<1>8. CASE ~Index(u) /\ ~IndexVector(u) /\ ~Refuse(u) /\ ~Mark(u)
  <2>1. UNCHANGED <<words, vectors, dirty>>
    BY <1>8 DEF UploadStep, Accept, Import, Begin, Supersede, Create, Finish, FailUpload
  <2>2. job[u].at \notin {"vector", "mark"}
    <3>1. CASE Accept(u) \/ Import(u)
      BY <1>1, <3>1 DEF JobsSound, JobSound, Accept, Import
    <3>2. CASE ~Accept(u) /\ ~Import(u)
      BY <1>8, <3>2 DEF UploadStep, Begin, Supersede, Create, Finish, FailUpload
    <3>3. QED  BY <3>1, <3>2
  <2>3. \A v \in Upload \ {u} : job'[v] = job[v]  BY OthersRows
  <2>4. (Unmarked(c) => Unmarked(c)') /\ (VectorDue(c) => VectorDue(c)')
    BY <1>3, <2>2, <2>3 DEF Unmarked, VectorDue, At
  <2>5. QED  BY <2>1, <2>4
<1>9. QED  BY <1>4, <1>5, <1>6, <1>7, <1>8

(* UnsavedKnown is kept.                                                   *)
LEMMA UnsavedKnownStep ==
  ASSUME IInv, [Next]_vars
  PROVE  UnsavedKnown'
<1> USE DEF vars, tables, files, memory, workers, history
<1>1. TypeOK /\ UnsavedKnown  BY DEF IInv
<1>2. ASSUME NEW u \in Upload, UploadStep(u)  PROVE UnsavedKnown'
  <2>1. Serving  BY <1>2, WorkersServe
  <2>2. SUFFICES ASSUME NEW c \in Chunk
        PROVE /\ c \in words' \ wordsFile' =>
                   \/ dirty' \/ snap'.at = "words" \/ Unmarked(c)'
                   \/ VectorDue(c)' \/ c[1] \in broken'
              /\ vectors'[c] # vectorsFile'[c]
                 => dirty' \/ snap'.at \in {"words", "vectors"} \/ Unmarked(c)'
    BY DEF UnsavedKnown
  <2>3. /\ c \in words \ wordsFile => \/ dirty \/ snap.at = "words" \/ Unmarked(c)
                                      \/ VectorDue(c) \/ c[1] \in broken
        /\ vectors[c] # vectorsFile[c]
           => dirty \/ snap.at \in {"words", "vectors"} \/ Unmarked(c)
    BY <1>1, <2>1 DEF UnsavedKnown
  <2>4. UNCHANGED <<wordsFile, vectorsFile, snap>>  BY <1>2, IndexGrows
  <2>5. /\ dirty => dirty'
        /\ Unmarked(c) => dirty' \/ Unmarked(c)'
        /\ VectorDue(c) => VectorDue(c)' \/ Unmarked(c)' \/ c[1] \in broken'
        /\ c \in words' => c \in words \/ VectorDue(c)' \/ Unmarked(c)'
        /\ vectors'[c] = vectors[c] \/ Unmarked(c)'
    BY <1>2, MarkFollows
  <2>6. broken \subseteq broken'  BY <1>2, IndexGrows
  <2>7. QED  BY <2>3, <2>4, <2>5, <2>6
<1>3. CASE FillStep
  <2>1. Serving  BY <1>3, WorkersServe
  <2>2. UNCHANGED <<words, wordsFile, vectorsFile, snap, job, broken>>
    BY <1>3 DEF FillStep, List, GiveUp, StoreEmbedding, AddVector, MarkVector, StopFill
  <2>3. SUFFICES ASSUME NEW c \in Chunk
        PROVE /\ c \in words' \ wordsFile' =>
                   \/ dirty' \/ snap'.at = "words" \/ Unmarked(c)'
                   \/ VectorDue(c)' \/ c[1] \in broken'
              /\ vectors'[c] # vectorsFile'[c]
                 => dirty' \/ snap'.at \in {"words", "vectors"} \/ Unmarked(c)'
    BY DEF UnsavedKnown
  <2>4. /\ c \in words \ wordsFile => \/ dirty \/ snap.at = "words" \/ Unmarked(c)
                                      \/ VectorDue(c) \/ c[1] \in broken
        /\ vectors[c] # vectorsFile[c]
           => dirty \/ snap.at \in {"words", "vectors"} \/ Unmarked(c)
    BY <1>1, <2>1 DEF UnsavedKnown
  <2>5. CASE MarkVector
    <3>1. dirty' = TRUE  BY <2>5 DEF MarkVector
    <3>2. QED  BY <3>1
  <2>6. CASE AddVector
    <3>1. fill.at = "index" /\ dirty' = dirty /\ vectors' = [vectors EXCEPT ![fill.chunk] = model]
      BY <2>6 DEF AddVector
    <3>2. fill'.at = "mark" /\ fill'.chunk = fill.chunk
      BY <1>1, <2>6 DEF TypeOK, Fill, AddVector
    <3>3. (Unmarked(c) => Unmarked(c)') /\ (VectorDue(c) => VectorDue(c)')
      BY <2>2, <3>1 DEF Unmarked, VectorDue, At
    <3>4. CASE c = fill.chunk  BY <3>2, <3>4 DEF Unmarked
    <3>5. CASE c # fill.chunk
      <4>1. vectors'[c] = vectors[c]  BY <1>1, <3>1, <3>5 DEF TypeOK, Vectors
      <4>2. QED  BY <2>2, <2>4, <3>1, <3>3, <4>1
    <3>6. QED  BY <3>4, <3>5
  <2>7. CASE List \/ GiveUp \/ StoreEmbedding \/ StopFill
    <3>1. fill.at # "mark" /\ UNCHANGED <<vectors, dirty>>
      BY <2>7 DEF List, GiveUp, StoreEmbedding, StopFill
    <3>2. (Unmarked(c) => Unmarked(c)') /\ (VectorDue(c) => VectorDue(c)')
      BY <2>2, <3>1 DEF Unmarked, VectorDue, At
    <3>3. QED  BY <2>2, <2>4, <3>1, <3>2
  <2>8. QED  BY <1>3, <2>5, <2>6, <2>7 DEF FillStep
<1>4. CASE SnapStep
  <2>1. Serving  BY <1>4, WorkersServe
  <2>2. UNCHANGED <<words, vectors, job, fill, broken>>
    BY <1>4 DEF SnapStep, Flush, SaveWords, SaveVectors, StopSnap
  <2>3. SUFFICES ASSUME NEW c \in Chunk
        PROVE /\ c \in words' \ wordsFile' =>
                   \/ dirty' \/ snap'.at = "words" \/ Unmarked(c)'
                   \/ VectorDue(c)' \/ c[1] \in broken'
              /\ vectors'[c] # vectorsFile'[c]
                 => dirty' \/ snap'.at \in {"words", "vectors"} \/ Unmarked(c)'
    BY DEF UnsavedKnown
  <2>4. /\ c \in words \ wordsFile => \/ dirty \/ snap.at = "words" \/ Unmarked(c)
                                      \/ VectorDue(c) \/ c[1] \in broken
        /\ vectors[c] # vectorsFile[c]
           => dirty \/ snap.at \in {"words", "vectors"} \/ Unmarked(c)
    BY <1>1, <2>1 DEF UnsavedKnown
  <2>5. (Unmarked(c) => Unmarked(c)') /\ (VectorDue(c) => VectorDue(c)')
    BY <2>2 DEF Unmarked, VectorDue, At
  <2>6. snap \in Snap  BY <1>1 DEF TypeOK
  <2>7. CASE Flush
    <3>1. snap'.at = "words"  BY <2>7 DEF Flush
    <3>2. QED  BY <3>1
  <2>8. CASE SaveWords
    <3>1. snap'.at = "vectors" /\ vectorsFile' = vectorsFile
      BY <2>6, <2>8 DEF SaveWords, Snap
    <3>2. wordsFile' = words \/ dirty' = TRUE  BY <2>8 DEF SaveWords
    <3>3. QED  BY <2>2, <3>1, <3>2
  <2>9. CASE SaveVectors
    <3>1. snap.at = "vectors" /\ wordsFile' = wordsFile  BY <2>9 DEF SaveVectors
    <3>2. CASE vectorsFile' = vectors /\ UNCHANGED dirty
      BY <2>2, <2>4, <2>5, <3>1, <3>2
    <3>3. CASE dirty' = TRUE  BY <3>3
    <3>4. QED  BY <2>9, <3>2, <3>3 DEF SaveVectors
  <2>10. CASE StopSnap
    <3>1. snap.at = "idle" /\ UNCHANGED <<wordsFile, vectorsFile, dirty>>
      BY <2>10 DEF StopSnap
    <3>2. QED  BY <2>2, <2>4, <2>5, <3>1
  <2>11. QED  BY <1>4, <2>7, <2>8, <2>9, <2>10 DEF SnapStep
<1>5. CASE LoadAndReconcile
  <2>1. /\ UNCHANGED <<wordsFile, vectorsFile>>
        /\ words' = wordsFile \cup LackWords(row, wordsFile)
        /\ \A c \in Chunk : vectors'[c] # vectorsFile[c]
                            => c \in LackVector(row, emb, wordsFile, vectorsFile)
    BY <1>5 DEF LoadAndReconcile, ReconciledWords, ReconciledVectors
  <2>2. \A c \in LackWords(row, wordsFile) \cup LackVector(row, emb, wordsFile, vectorsFile) :
          dirty'
    BY <1>5 DEF LoadAndReconcile
  <2>3. QED  BY <2>1, <2>2 DEF UnsavedKnown
<1>6. CASE Stop  BY <1>1, <1>6 DEF UnsavedKnown, Unmarked, VectorDue, At, Serving, Stop
<1>7. ASSUME NEW m \in Model, Start(m)  PROVE UnsavedKnown'
  BY <1>7 DEF UnsavedKnown, Serving, Start
<1>8. CASE ClearAllEmbeddings \/ RemoveVectorsFile \/ SetMeta \/ LoseFile \/ GoDown
  BY <1>8 DEF UnsavedKnown, Serving, ClearAllEmbeddings, RemoveVectorsFile, SetMeta,
       LoseFile, GoDown
<1>9. CASE UNCHANGED vars  BY <1>1, <1>9 DEF UnsavedKnown, Unmarked, VectorDue, At, Serving
<1>10. QED  BY <1>2, <1>3, <1>4, <1>5, <1>6, <1>7, <1>8, <1>9, NextCases
-----------------------------------------------------------------------------
(* Uploads of one file.                                                    *)
(*                                                                         *)
(* UploadsWhole is not inductive.  What is missing is what an upload that  *)
(* is still at work has done, and that another of its file is not at work  *)
(* meanwhile unless both are known to run beside each other.               *)

Active(u) == job[u].at # "idle"

Storing(u) == job[u].at \in {"create", "index", "mark", "finish"}

(* The chunks the upload u has gone past, or the one it has just stored. *)
Behind(u, c) ==
  \/ c[2] < job[u].piece
  \/ c[2] = job[u].piece /\ job[u].at # "create"

(* An upload at work has stored what is behind it, and only another of its *)
(* file could have superseded that.  Imports have no row of their own.     *)
UploadSound(u) ==
  /\ u \in Embedded => status[u] = "none"
  /\ u \notin Embedded /\ Active(u) =>
       /\ status[u] \notin {"none", "done"}
       /\ job[u].at \in {"begin", "supersede"} => job[u].piece = 1
       /\ job[u].at = "finish" => job[u].piece = Pieces[u]
       /\ Storing(u) => \A c \in ChunksOf(u) : Behind(u, c) =>
            row[c] # "none" /\ (u \notin raced => row[c] = "live")

Unlive(u) == Live(row) \cap ChunksOf(u) = {}

(* Of two uploads of a file both at work both are raced; of two that are   *)
(* not, the one that stores chunks has superseded the other's.             *)
PairSound(u, v) ==
  u # v /\ SameFile(u, v) /\ {u, v} \cap Embedded = {} =>
    /\ Active(u) /\ Active(v) => {u, v} \subseteq raced
    /\ "none" \notin {status[u], status[v]} /\ raced \cap {u, v} = {} =>
         /\ Unlive(u) \/ Unlive(v)
         /\ Storing(u) => Unlive(v)

Uploads ==
  /\ \A u \in Upload : UploadSound(u)
  /\ \A u, v \in Upload : PairSound(u, v)
  /\ DoneWhole

(* What a step of u does to its own job, by what it was at.                *)
LEMMA OwnJob ==
  ASSUME IInv, NEW u \in Upload, UploadStep(u)
  PROVE  /\ u \in Embedded \/ job'[u].at # "vector"
         /\ Accept(u) \/ Import(u) \/ Active(u)
         /\ Accept(u) => ~Active(u)
         /\ u \in Embedded => Import(u) \/ Index(u) \/ IndexVector(u) \/ Refuse(u) \/ Mark(u)
<1> USE DEF vars, tables, files, memory, workers, history
<1>1. JobSound(u) /\ JobSound(u)'  BY JobsStep DEF IInv, JobsSound, UploadStep, Next, Work
<1>2. u \in Embedded \/ job'[u].at # "vector"  BY <1>1 DEF JobSound
<1>3. Accept(u) \/ Import(u) \/ Active(u)
  BY DEF UploadStep, Begin, Supersede, Create, Index, IndexVector, Refuse, Mark, Finish,
       FailUpload, Active
<1>4. Accept(u) => ~Active(u)  BY <1>1 DEF Accept, JobSound, Active
<1>5. u \in Embedded => Import(u) \/ Index(u) \/ IndexVector(u) \/ Refuse(u) \/ Mark(u)
  BY <1>1 DEF JobSound, UploadStep, Accept, Begin, Supersede, Create, Finish, FailUpload
<1>6. QED  BY <1>2, <1>3, <1>4, <1>5

(* What a step of u leaves of the others' rows and status, and of the      *)
(* history.                                                                *)
LEMMA OthersKept ==
  ASSUME IInv, NEW u \in Upload, UploadStep(u)
  PROVE  /\ \A v \in Upload \ {u} : job'[v] = job[v] /\ status'[v] = status[v]
         /\ raced \subseteq raced'
         /\ \A c \in Chunk : c[1] # u =>
              \/ row'[c] = row[c]
              \/ /\ job[u].at = "supersede" /\ SameFile(u, c[1])
                 /\ row[c] = "live" /\ row' = Superseded(row, u)
<1> USE DEF vars, tables, files, memory, workers, history
<1>1. TypeOK /\ JobsSound  BY DEF IInv
<1>2. \A v \in Upload \ {u} : job'[v] = job[v]  BY OthersRows
<1>3. \A v \in Upload \ {u} : status'[v] = status[v]
  <2>1. status \in [Upload -> Status]  BY <1>1 DEF TypeOK
  <2>2. CASE Accept(u)  BY <2>1, <2>2 DEF Accept
  <2>3. CASE Begin(u) \/ Finish(u) \/ FailUpload(u)
    BY <2>1, <2>3 DEF Begin, Finish, FailUpload, Record
  <2>4. CASE ~Accept(u) /\ ~Begin(u) /\ ~Finish(u) /\ ~FailUpload(u)
    BY <2>4 DEF UploadStep, Import, Supersede, Create, Index, IndexVector, Refuse, Mark
  <2>5. QED  BY <2>2, <2>3, <2>4
<1>4. raced \subseteq raced'
  BY DEF UploadStep, Accept, Import, Begin, Supersede, Create, Index, IndexVector, Refuse,
       Mark, Finish, FailUpload
<1>5. ASSUME NEW c \in Chunk, c[1] # u
      PROVE  \/ row'[c] = row[c]
             \/ /\ job[u].at = "supersede" /\ SameFile(u, c[1])
                /\ row[c] = "live" /\ row' = Superseded(row, u)
  <2>1. CASE Create(u)
    <3>1. At(u) # c  BY <1>1, <1>5, <2>1, AtChunk DEF Create
    <3>2. QED  BY <1>1, <2>1, <3>1 DEF TypeOK, Create
  <2>2. CASE Supersede(u)
    <3>1. row' = row \/ row' = Superseded(row, u)  BY <2>2 DEF Supersede
    <3>2. row' = Superseded(row, u) =>
            row'[c] = IF row[c] = "live" /\ SameFile(u, c[1]) THEN "superseded" ELSE row[c]
      BY DEF Superseded
    <3>3. job[u].at = "supersede"  BY <2>2 DEF Supersede
    <3>4. QED  BY <3>1, <3>2, <3>3
  <2>3. CASE Import(u)  BY <1>5, <2>3 DEF Import
  <2>4. CASE ~Create(u) /\ ~Supersede(u) /\ ~Import(u)
    BY <2>4 DEF UploadStep, Accept, Begin, Index, IndexVector, Refuse, Mark, Finish, FailUpload
  <2>5. QED  BY <2>1, <2>2, <2>3, <2>4
<1>6. QED  BY <1>2, <1>3, <1>4, <1>5

(* A step of u leaves what another upload has stored, or both are raced.   *)
LEMMA OtherUploadSound ==
  ASSUME IInv, Uploads, NEW u \in Upload, UploadStep(u), NEW v \in Upload \ {u}
  PROVE  UploadSound(v)'
<1>1. job'[v] = job[v] /\ status'[v] = status[v] /\ raced \subseteq raced'
  BY OthersKept
<1>2. UploadSound(v) /\ PairSound(u, v)  BY DEF Uploads
<1>3. SUFFICES ASSUME v \notin Embedded, Active(v), Storing(v),
                      NEW c \in ChunksOf(v), Behind(v, c)
               PROVE  row'[c] # "none" /\ (v \notin raced' => row'[c] = "live")
  BY <1>1, <1>2 DEF UploadSound, Active, Storing, Behind
<1>4. row[c] # "none" /\ (v \notin raced => row[c] = "live")
  BY <1>2, <1>3 DEF UploadSound
<1>5. c \in Chunk /\ c[1] = v  BY DEF ChunksOf
<1>6. row'[c] # "none"  BY <1>4, <1>5, OthersRows, OthersKept DEF Superseded
<1>7. CASE row'[c] = row[c]  BY <1>1, <1>4, <1>6, <1>7
<1>8. CASE job[u].at = "supersede" /\ SameFile(u, v)
  <2>1. u \notin Embedded  BY <1>8 DEF IInv, JobsSound, JobSound
  <2>2. v \in raced  BY <1>2, <1>3, <1>8, <2>1 DEF PairSound, Active
  <2>3. QED  BY <1>1, <1>6, <2>2
<1>9. QED  BY <1>5, <1>7, <1>8, OthersKept

(* An upload's own step stores the chunk it is at before it goes on.       *)
LEMMA OwnUploadSound ==
  ASSUME IInv, Uploads, NEW u \in Upload, UploadStep(u)
  PROVE  UploadSound(u)'
<1> USE DEF vars, tables, files, memory, workers, history
<1>1. TypeOK /\ JobSound(u) /\ UploadSound(u)  BY DEF IInv, JobsSound, Uploads
<1>2. status \in [Upload -> Status] /\ row \in [Chunk -> Row]  BY <1>1 DEF TypeOK
<1>3. Pieces[u] \in Nat \ {0} /\ \A c \in ChunksOf(u) : c \in Chunk /\ c[1] = u /\ c[2] \in Nat
  BY PiecesType, ChunkPair DEF ChunksOf
<1>4. raced \subseteq raced'  BY OthersKept
<1>5. CASE u \in Embedded
  <2>1. status' = status
    BY <1>5, OwnJob DEF Import, Index, IndexVector, Refuse, Mark
  <2>2. QED  BY <1>1, <1>5, <2>1 DEF UploadSound
<1>6. CASE u \notin Embedded
  <2>1. CASE Accept(u)
    <3>1. job'[u].at = "begin" /\ job'[u].piece = 1  BY <2>1, WorkJobs DEF Becomes
    <3>2. status'[u] = "pending"  BY <1>2, <2>1 DEF Accept
    <3>3. QED  BY <1>6, <3>1, <3>2 DEF UploadSound, Storing
  <2>2. CASE Begin(u)
    <3>1. job'[u].at \in {"supersede", "fail"} /\ job'[u].piece = job[u].piece
      BY <2>2, WorkJobs DEF Becomes
    <3>2. job[u].at = "begin" /\ status'[u] \in {"transcribing", status[u]}
      BY <1>2, <2>2 DEF Begin, Record
    <3>3. QED  BY <1>1, <1>6, <3>1, <3>2 DEF UploadSound, Storing, Active
  <2>3. CASE Supersede(u)
    <3>1. job'[u].at = "create" /\ job'[u].piece = job[u].piece
      BY <2>3, WorkJobs DEF Becomes
    <3>2. job[u].at = "supersede" /\ status' = status  BY <2>3 DEF Supersede
    <3>3. job[u].piece = 1  BY <1>1, <1>6, <3>2 DEF UploadSound, Active
    <3>4. \A c \in ChunksOf(u) : c[2] \in 1..Pieces[u]  BY ChunkPair DEF ChunksOf
    <3>5. \A c \in ChunksOf(u) : ~Behind(u, c)'
      BY <1>3, <3>1, <3>3, <3>4 DEF Behind
    <3>6. QED  BY <1>1, <1>6, <3>1, <3>2, <3>5 DEF UploadSound, Active, ChunksOf
  <2>4. CASE Create(u)
    <3>1. job'[u].at \in {"index", "fail"} /\ job'[u].piece = job[u].piece
      BY <2>4, WorkJobs DEF Becomes
    <3>2. job[u].at = "create" /\ status' = status  BY <2>4 DEF Create
    <3>3. CASE job'[u].at = "fail"
      BY <1>1, <1>6, <3>2, <3>3 DEF UploadSound, Storing, Active
    <3>4. CASE job'[u].at = "index"
      <4>1. row' = [row EXCEPT ![At(u)] = "live"]
        <5>1. Go(u, "fail") => job'[u].at = "fail"
          BY <1>1 DEF Go, TypeOK
        <5>2. QED  BY <2>4, <3>4, <5>1 DEF Create
      <4>2. At(u) = <<u, job[u].piece>> /\ At(u) \in Chunk
        BY <3>2, AtChunk DEF IInv
      <4>3. ASSUME NEW c \in ChunksOf(u), Behind(u, c)'
            PROVE  row'[c] # "none" /\ (u \notin raced' => row'[c] = "live")
        <5>1. c \in Chunk  BY DEF ChunksOf
        <5>2. CASE c = At(u)  BY <1>2, <4>1, <4>2, <5>2
        <5>3. CASE c # At(u)
          <6>1. c[2] # job[u].piece
            BY <1>3, <4>2, <5>1, <5>3, ChunkPair
          <6>2. Behind(u, c)  BY <3>1, <4>3, <6>1 DEF Behind
          <6>3. row[c] # "none" /\ (u \notin raced => row[c] = "live")
            BY <1>1, <1>6, <3>2, <6>2 DEF UploadSound, Storing, Active
          <6>4. row'[c] = row[c]  BY <1>2, <4>1, <5>1, <5>3
          <6>5. QED  BY <1>4, <6>3, <6>4
        <5>4. QED  BY <5>2, <5>3
      <4>4. QED  BY <1>1, <1>6, <3>2, <3>4, <4>3 DEF UploadSound, Active, ChunksOf
    <3>5. QED  BY <3>1, <3>3, <3>4
  <2>5. CASE Index(u)
    <3>1. job'[u].at = "mark" /\ job'[u].piece = job[u].piece
      BY <1>6, <2>5, WorkJobs DEF Becomes
    <3>2. job[u].at = "index" /\ UNCHANGED <<row, status, raced>>  BY <2>5 DEF Index
    <3>3. QED
      BY <1>1, <1>6, <3>1, <3>2 DEF UploadSound, Active, Storing, Behind, ChunksOf
  <2>6. CASE IndexVector(u) \/ Refuse(u)
    <3>1. job[u].at = "vector"  BY <2>6 DEF IndexVector, Refuse
    <3>2. QED  BY <1>1, <1>6, <3>1 DEF JobSound
  <2>7. CASE Mark(u)
    <3>1. job[u].at = "mark" /\ UNCHANGED <<row, status, raced>> /\ NextPiece(u)
      BY <2>7 DEF Mark
    <3>2. job[u].piece \in 1..Pieces[u]  BY <1>1, <3>1 DEF JobSound
    <3>3. status[u] \notin {"none", "done"}
      BY <1>1, <1>6, <3>1 DEF UploadSound, Active
    <3>4. \A c \in ChunksOf(u) : c[2] <= job[u].piece =>
            row[c] # "none" /\ (u \notin raced => row[c] = "live")
      BY <1>1, <1>3, <1>6, <3>1, <3>2 DEF UploadSound, Active, Storing, Behind
    <3>5. CASE /\ job[u].piece + 1 \in 1..Pieces[u]
               /\ Becomes(u, "create", job[u].piece + 1)
      <4>1. job'[u].at = "create" /\ job'[u].piece = job[u].piece + 1
        BY <3>5 DEF Becomes
      <4>2. \A c \in ChunksOf(u) : Behind(u, c)' => c[2] <= job[u].piece
        BY <1>3, <3>2, <4>1 DEF Behind
      <4>3. QED  BY <1>6, <3>1, <3>3, <3>4, <4>1, <4>2 DEF UploadSound, ChunksOf
    <3>6. CASE job[u].piece = Pieces[u] /\ Becomes(u, "finish", job[u].piece)
      <4>1. job'[u].at = "finish" /\ job'[u].piece = job[u].piece
        BY <3>6 DEF Becomes
      <4>2. \A c \in ChunksOf(u) : Behind(u, c)' => c[2] <= job[u].piece
        BY <1>3, <3>2, <4>1 DEF Behind
      <4>3. QED  BY <1>6, <3>1, <3>3, <3>4, <3>6, <4>1, <4>2 DEF UploadSound, ChunksOf
    <3>7. QED  BY <1>1, <1>6, <3>1, <3>2, <3>5, <3>6, NextBecomes DEF TypeOK
  <2>8. CASE Finish(u) \/ FailUpload(u)
    <3>1. job'[u].at = "idle"  BY <2>8, WorkJobs DEF Becomes
    <3>2. QED  BY <1>6, <3>1 DEF UploadSound, Active
  <2>9. QED
    BY <2>1, <2>2, <2>3, <2>4, <2>5, <2>6, <2>7, <2>8, <1>6 DEF UploadStep, Import
<1>7. QED  BY <1>5, <1>6

(* A step of u adds live chunks of u only, and if it is not storing it     *)
(* adds none.                                                              *)
LEMMA LiveGrows ==
  ASSUME IInv, NEW u \in Upload, UploadStep(u)
  PROVE  /\ \A v \in Upload \ {u} : Unlive(v) => Unlive(v)'
         /\ ~Create(u) /\ ~Import(u) => (Unlive(u) => Unlive(u)')
<1> USE DEF vars, tables, files, memory, workers, history
<1>1. \A v \in Upload \ {u} : Unlive(v) => Unlive(v)'
  BY OthersRows DEF Unlive, Live, ChunksOf
<1>2. ASSUME ~Create(u), ~Import(u)
      PROVE  \A c \in Chunk : row'[c] = "live" => row[c] = "live"
  <2>1. CASE Supersede(u)  BY <2>1 DEF Supersede, Superseded
  <2>2. CASE ~Supersede(u)
    BY <1>2, <2>2 DEF UploadStep, Accept, Begin, Index, IndexVector, Refuse, Mark, Finish, FailUpload
  <2>3. QED  BY <2>1, <2>2
<1>3. QED  BY <1>1, <1>2 DEF Unlive, Live

(* What a pair of uploads of one file says, said of the one that moves.    *)
Versions(u, v) ==
  /\ Active(u) /\ Active(v) => {u, v} \subseteq raced
  /\ "none" \notin {status[u], status[v]} /\ raced \cap {u, v} = {} =>
       /\ Unlive(u) \/ Unlive(v)
       /\ Storing(u) => Unlive(v)
       /\ Storing(v) => Unlive(u)

(* An upload that starts beside another of its file makes both raced; one  *)
(* that stores chunks has superseded the other's; one that does neither    *)
(* adds no live chunk.                                                     *)
LEMMA VersionsStep ==
  ASSUME IInv, Uploads, NEW u \in Upload, UploadStep(u),
         NEW v \in Upload \ {u}, SameFile(u, v), u \notin Embedded, v \notin Embedded
  PROVE  Versions(u, v)'
<1> USE DEF vars, tables, files, memory, workers, history
<1>1. TypeOK /\ UploadSound(u)  BY DEF IInv, Uploads
<1>2. Versions(u, v)
  <2>1. PairSound(u, v) /\ PairSound(v, u)  BY DEF Uploads
  <2>2. QED  BY <2>1 DEF PairSound, Versions, SameFile
<1>3. /\ job'[v] = job[v] /\ status'[v] = status[v] /\ raced \subseteq raced'
      /\ Unlive(v) => Unlive(v)'
  BY OthersKept, LiveGrows
<1>4. CASE Accept(u)
  <2>1. \A c \in ChunksOf(u) : row'[c] = "none"  BY <1>4 DEF Accept, NotSeen
  <2>2. Unlive(u)'  BY <2>1 DEF Unlive, Live, ChunksOf
  <2>3. job'[u].at = "begin"  BY <1>4, WorkJobs DEF Becomes
  <2>4. Active(v)' => v \in Beside(u)  BY <1>3 DEF Active, Beside
  <2>5. v \in Beside(u) => {u, v} \subseteq raced'  BY <1>4 DEF Accept
  <2>6. QED  BY <2>2, <2>3, <2>4, <2>5 DEF Versions, Storing
<1>5. CASE ~Accept(u)
  <2>1. Active(u) /\ status[u] # "none"
    BY <1>1, <1>5, OwnJob DEF UploadSound, Import
  <2>2. Active(v)' => {u, v} \subseteq raced'  BY <1>2, <1>3, <2>1 DEF Versions, Active
  <2>3. SUFFICES ASSUME ~Active(v), status[v] # "none", raced' \cap {u, v} = {}
                 PROVE  Unlive(v)' \/ (Unlive(u)' /\ ~Storing(u)')
    BY <1>3, <2>2 DEF Versions, Storing, Active
  <2>4. /\ Unlive(u) \/ Unlive(v)
        /\ Storing(u) => Unlive(v)
    BY <1>2, <1>3, <2>1, <2>3 DEF Versions
  <2>5. CASE Storing(u)  BY <1>3, <2>4, <2>5
  <2>6. CASE ~Storing(u) /\ ~Supersede(u)
    <3>1. Begin(u) \/ FailUpload(u)
      <4>1. job[u].at # "vector"  BY DEF IInv, JobsSound, JobSound
      <4>2. QED
        BY <1>5, <2>6, <4>1
        DEF UploadStep, Import, Create, Index, IndexVector, Refuse, Mark, Finish, Storing
    <3>2. ~Storing(u)'
      <4>1. job'[u].at \in {"supersede", "fail", "idle"}  BY <3>1, WorkJobs DEF Becomes
      <4>2. QED  BY <4>1 DEF Storing
    <3>3. ~Create(u) /\ ~Import(u)
      BY <2>6, <3>1 DEF Create, Import, Begin, FailUpload, Storing
    <3>4. Unlive(u) => Unlive(u)'  BY <3>3, LiveGrows
    <3>5. QED  BY <1>3, <2>4, <3>2, <3>4
  <2>7. CASE Supersede(u)
    <3>1. row' = Superseded(row, u)  BY <2>3, <2>7 DEF Supersede
    <3>2. ASSUME NEW c \in ChunksOf(v)  PROVE row'[c] # "live"
      <4>1. c \in Chunk /\ c[1] = v  BY DEF ChunksOf
      <4>2. QED  BY <3>1, <4>1 DEF Superseded
    <3>3. Unlive(v)'  BY <3>2 DEF Unlive, Live, ChunksOf
    <3>4. QED  BY <3>3
  <2>8. QED  BY <2>5, <2>6, <2>7
<1>6. QED  BY <1>4, <1>5

(* Pairs of uploads stay sound.                                            *)
LEMMA PairsStep ==
  ASSUME IInv, Uploads, NEW u \in Upload, UploadStep(u), NEW a \in Upload, NEW b \in Upload
  PROVE  PairSound(a, b)'
<1>1. SUFFICES ASSUME a # b, SameFile(a, b), {a, b} \cap Embedded = {}
               PROVE  Versions(a, b)'
  BY DEF PairSound, Versions
<1>2. CASE a = u
  <2>1. b \in Upload \ {u} /\ u \notin Embedded /\ b \notin Embedded /\ SameFile(u, b)
    BY <1>1, <1>2
  <2>2. Versions(u, b)'  BY <2>1, VersionsStep
  <2>3. QED  BY <1>2, <2>2
<1>3. CASE b = u
  <2>1. a \in Upload \ {u} /\ u \notin Embedded /\ a \notin Embedded /\ SameFile(u, a)
    BY <1>1, <1>3 DEF SameFile
  <2>2. Versions(u, a)'  BY <2>1, VersionsStep
  <2>3. QED  BY <1>3, <2>2 DEF Versions
<1>4. CASE u \notin {a, b}
  <2>1. /\ job'[a] = job[a] /\ status'[a] = status[a]
        /\ job'[b] = job[b] /\ status'[b] = status[b]
        /\ raced \subseteq raced'
    BY <1>4, OthersKept
  <2>2. (Unlive(a) => Unlive(a)') /\ (Unlive(b) => Unlive(b)')
    BY <1>4, LiveGrows
  <2>3. PairSound(a, b) /\ PairSound(b, a)  BY DEF Uploads
  <2>4. Versions(a, b)  BY <1>1, <2>3 DEF PairSound, Versions, SameFile
  <2>5. QED  BY <2>1, <2>2, <2>4 DEF Versions, Active, Storing
<1>5. QED  BY <1>2, <1>3, <1>4

(* Done is recorded once every chunk is stored; a finished upload is       *)
(* superseded as a whole.                                                  *)
LEMMA DoneWholeStep ==
  ASSUME IInv, Uploads, NEW u \in Upload, UploadStep(u)
  PROVE  DoneWhole'
<1> USE DEF vars, tables, files, memory, workers, history
<1>1. TypeOK /\ DoneWhole  BY DEF IInv, Uploads
<1>2. SUFFICES ASSUME NEW v \in Upload, status'[v] = "done"
      PROVE /\ \A c \in ChunksOf(v) : row'[c] # "none"
            /\ v \notin raced' =>
                 \E r \in {"live", "superseded"} : \A c \in ChunksOf(v) : row'[c] = r
  BY DEF DoneWhole, ChunksOf
<1>3. UploadSound(v) /\ raced \subseteq raced'  BY OthersKept DEF Uploads
<1>4. CASE v # u
  <2>1. status[v] = "done"  BY <1>2, <1>4, OthersKept
  <2>2. \A c \in ChunksOf(v) : row[c] # "none"  BY <1>1, <2>1 DEF DoneWhole
  <2>3. \A c \in ChunksOf(v) : row'[c] # "none"  BY <2>2, RowsStay DEF ChunksOf, UploadStep, Next, Work
  <2>4. ASSUME v \notin raced'
        PROVE  \E r \in {"live", "superseded"} : \A c \in ChunksOf(v) : row'[c] = r
    <3>1. PICK r \in {"live", "superseded"} : \A c \in ChunksOf(v) : row[c] = r
      BY <1>1, <1>3, <2>1, <2>4 DEF DoneWhole
    <3>2. CASE \A c \in ChunksOf(v) : row'[c] = row[c]  BY <3>1, <3>2
    <3>3. CASE \E c \in ChunksOf(v) : row'[c] # row[c]
      <4>1. /\ row' = Superseded(row, u)
            /\ SameFile(u, v)
        BY <1>4, <3>3, OthersKept DEF ChunksOf
      <4>2. \A c \in ChunksOf(v) : row'[c] = "superseded"
        BY <3>1, <4>1 DEF Superseded, ChunksOf
      <4>3. QED  BY <4>2
    <3>4. QED  BY <3>2, <3>3
  <2>5. QED  BY <2>3, <2>4
<1>5. CASE v = u
  <2>1. CASE Finish(u) /\ status[u] # "done"
    <3>1. job[u].at = "finish" /\ row' = row /\ raced' = raced  BY <2>1 DEF Finish
    <3>2. u \notin Embedded  BY <3>1 DEF IInv, JobsSound, JobSound
    <3>3. job[u].piece = Pieces[u]  BY <1>3, <1>5, <3>1, <3>2 DEF UploadSound, Active
    <3>4. \A c \in ChunksOf(u) : c[2] \in 1..Pieces[u]  BY ChunkPair DEF ChunksOf
    <3>5. Pieces[u] \in Nat  BY PiecesType
    <3>6. \A c \in ChunksOf(u) : Behind(u, c)  BY <3>1, <3>3, <3>4, <3>5 DEF Behind
    <3>7. \A c \in ChunksOf(u) : row[c] # "none" /\ (u \notin raced => row[c] = "live")
      BY <1>3, <1>5, <3>1, <3>2, <3>6 DEF UploadSound, Active, Storing
    <3>8. QED  BY <1>5, <3>1, <3>7
  <2>2. CASE ~(Finish(u) /\ status[u] # "done")
    <3>1. status[u] = "done"
      <4>1. status \in [Upload -> Status]  BY <1>1 DEF TypeOK
      <4>2. CASE Accept(u)  BY <1>2, <1>5, <4>1, <4>2 DEF Accept
      <4>3. CASE Begin(u) \/ FailUpload(u)
        BY <1>2, <1>5, <4>1, <4>3 DEF Begin, FailUpload, Record
      <4>4. CASE Finish(u)  BY <2>2, <4>4
      <4>5. CASE ~Accept(u) /\ ~Begin(u) /\ ~Finish(u) /\ ~FailUpload(u)
        BY <1>2, <1>5, <4>5
        DEF UploadStep, Import, Supersede, Create, Index, IndexVector, Refuse, Mark
      <4>6. QED  BY <4>2, <4>3, <4>4, <4>5
    <3>2. u \notin Embedded /\ ~Active(u)  BY <1>3, <1>5, <3>1 DEF UploadSound
    <3>3. Accept(u)  BY <3>2, OwnJob DEF Import
    <3>4. QED  BY <3>1, <3>3 DEF Accept, NotSeen
  <2>3. QED  BY <2>1, <2>2
<1>6. QED  BY <1>4, <1>5

(* What uploads of one file leave each other is kept by every step.        *)
LEMMA UploadsStep ==
  ASSUME IInv, Uploads, [Next]_vars
  PROVE  Uploads'
<1> USE DEF vars, tables, files, memory, workers, history
<1>1. ASSUME NEW u \in Upload, UploadStep(u)  PROVE Uploads'
  <2>1. \A v \in Upload : UploadSound(v)'
    BY <1>1, OwnUploadSound, OtherUploadSound
  <2>2. \A a, b \in Upload : PairSound(a, b)'  BY <1>1, PairsStep
  <2>3. DoneWhole'  BY <1>1, DoneWholeStep
  <2>4. QED  BY <2>1, <2>2, <2>3 DEF Uploads
<1>2. ASSUME UNCHANGED <<row, status, raced, job>>  PROVE Uploads'
  BY <1>2 DEF Uploads, UploadSound, PairSound, DoneWhole, Active, Storing, Behind,
       Unlive, Live, ChunksOf
<1>3. CASE GoDown
  <2>1. UNCHANGED <<row, status, raced>> /\ \A u \in Upload : job'[u].at = "idle"
    BY <1>3, ConstantTypes DEF GoDown
  <2>2. ASSUME NEW u \in Upload  PROVE UploadSound(u)'
    BY <2>1 DEF Uploads, UploadSound, Active
  <2>3. ASSUME NEW u \in Upload, NEW v \in Upload  PROVE PairSound(u, v)'
    BY <2>1 DEF Uploads, PairSound, Active, Storing, Unlive, Live, ChunksOf
  <2>4. DoneWhole'  BY <2>1 DEF Uploads, DoneWhole, ChunksOf
  <2>5. QED  BY <2>2, <2>3, <2>4 DEF Uploads
<1>4. CASE FillStep \/ SnapStep
  BY <1>2, <1>4 DEF FillStep, List, GiveUp, StoreEmbedding, AddVector, MarkVector,
       StopFill, SnapStep, Flush, SaveWords, SaveVectors, StopSnap
<1>5. CASE (\E m \in Model : Start(m)) \/ ClearAllEmbeddings \/ RemoveVectorsFile
           \/ SetMeta \/ LoadAndReconcile \/ LoseFile \/ Stop
  BY <1>2, <1>5 DEF Start, ClearAllEmbeddings, RemoveVectorsFile, SetMeta,
       LoadAndReconcile, LoseFile, Stop
<1>6. CASE UNCHANGED vars  BY <1>2, <1>6
<1>7. QED  BY <1>1, <1>3, <1>4, <1>5, <1>6, NextCases

(* A new corpus has no uploads.                                            *)
LEMMA InitUploads ==
  ASSUME Init
  PROVE  Uploads
<1>1. \A u \in Upload : status[u] = "none" /\ job[u].at = "idle"
  BY ConstantTypes DEF Init
<1>2. QED  BY <1>1 DEF Uploads, UploadSound, PairSound, DoneWhole, Active, Storing

-----------------------------------------------------------------------------
(* The invariant and what follows from it. *)

(* A new corpus has the inductive invariant.                               *)
LEMMA InitIInv ==
  ASSUME Init
  PROVE  IInv
<1> USE DEF Init
<1>1. ~Serving /\ phase = "down"  BY DEF Serving
<1>2. TypeOK
  <2>1. job \in [Upload -> Job]  BY ConstantTypes
  <2>2. row \in [Chunk -> Row] /\ status \in [Upload -> Status]  BY DEF Row, Status
  <2>3. QED  BY <2>1, <2>2, ConstantTypes DEF TypeOK, Phase
<1>3. Quiet  BY DEF Quiet
<1>4. JobsSound  BY ConstantTypes DEF JobsSound, JobSound
<1>5. FillSound  BY ConstantTypes DEF FillSound, NoVectors
<1>6. OfMeta  BY DEF OfMeta, NoVectors
<1>7. OneModel /\ LiveFindable /\ EmbeddingsFound /\ UnsavedKnown
  BY <1>1 DEF OneModel, LiveFindable, EmbeddingsFound, UnsavedKnown
<1>8. BroughtSound /\ FillOfModel  BY ConstantTypes DEF BroughtSound, FillOfModel
<1>9. QED  BY <1>2, <1>3, <1>4, <1>5, <1>6, <1>7, <1>8 DEF IInv

(* Every step of an upload, of the backfiller, of the snapshotter, of a    *)
(* start or stop and every failure keeps the inductive invariant.          *)
THEOREM InvariantKept ==
  ASSUME IInv, [Next]_vars
  PROVE  IInv'
<1>1. TypeOK' /\ Quiet' /\ JobsSound' /\ FillSound'
  BY TypeStep, QuietStep, JobsStep, FillSoundStep
<1>2. OfMeta' /\ OneModel' /\ BroughtSound' /\ FillOfModel'
  BY OfMetaStep, OneModelStep, BroughtStep, FillModelStep
<1>3. LiveFindable' /\ EmbeddingsFound' /\ UnsavedKnown'
  BY LiveFindableStep, EmbeddingsFoundStep, UnsavedKnownStep
<1>4. QED  BY <1>1, <1>2, <1>3 DEF IInv

(* The inductive invariant holds in every reachable state.                 *)
LEMMA Invariance == Spec => []IInv
<1>1. Init => IInv  BY InitIInv
<1>2. IInv /\ [Next]_vars => IInv'  BY InvariantKept
<1>3. QED  BY <1>1, <1>2, PTL DEF Spec

(* The tables, the files, the index and the goroutines' states stay in     *)
(* their types.                                                            *)
THEOREM TypeCorrect == Spec => []TypeOK
<1>1. IInv => TypeOK  BY DEF IInv
<1>2. QED  BY <1>1, Invariance, PTL

(* Every chunk that is not superseded is found by its words while the      *)
(* program serves, or the goroutine that stored it is about to index it,   *)
(* or broke off at a vector of another dimension.                          *)
THEOREM LiveChunksFindable == Spec => []LiveFindable
<1>1. IInv => LiveFindable  BY DEF IInv
<1>2. QED  BY <1>1, Invariance, PTL

(* A stored embedding is in the vector index while the program serves, or  *)
(* whoever stored it is about to put it there: the backfiller, which looks *)
(* for chunks without one, never passes over a chunk that is not found.    *)
THEOREM StoredEmbeddingsFindable == Spec => []EmbeddingsFindable
<1>1. IInv => EmbeddingsFindable
  BY DEF IInv, EmbeddingsFound, EmbeddingFound, EmbeddingsFindable
<1>2. QED  BY <1>1, Invariance, PTL

(* Both at once: no crash, failure or lost file hides a stored chunk from  *)
(* either search.                                                          *)
THEOREM StoredIsFindable == Spec => []Findable
<1>1. IInv => LiveFindable  BY DEF IInv
<1>2. IInv => EmbeddingsFindable
  BY DEF IInv, EmbeddingsFound, EmbeddingFound, EmbeddingsFindable
<1>3. IInv => Findable  BY <1>1, <1>2 DEF Findable
<1>4. QED  BY <1>3, Invariance, PTL

(* The index never differs from its files without the dirty flag up, a     *)
(* flush under way that still writes the file, or a goroutine about to     *)
(* raise the flag: a flush beside a change does not lose the change.       *)
THEOREM UnsavedIsKnown == Spec => []UnsavedKnown
<1>1. IInv => UnsavedKnown  BY DEF IInv
<1>2. QED  BY <1>1, Invariance, PTL

(* While the program serves, all vectors are of the model it runs, but for *)
(* those an import brought to its own chunks: no vector of a model that    *)
(* ran before is left, however often the model was changed and wherever    *)
(* the change was cut short.                                               *)
THEOREM OneModelServed == Spec => []OneModel
<1>1. IInv => OneModel  BY DEF IInv
<1>2. QED  BY <1>1, Invariance, PTL

-----------------------------------------------------------------------------
(* What a search finds. *)

Withdrawn == {c \in Chunk : row[c] = "superseded"}

Reported == {u \in Upload : status[u] = "done"}

(* A step after which more is found of what is not withdrawn publishes.    *)
LEMMA Publishes ==
  ASSUME Found \subseteq Found', Found' \cap Withdrawn = {},
         Withdrawn' = Withdrawn, Reported' = Reported
  PROVE  Searchable!Next
<1>1. Found' \ Found \in SUBSET (Chunk \ (Found \cup Withdrawn))
  BY DEF Found, Live
<1>2. Found' = Found \cup (Found' \ Found)  OBVIOUS
<1>3. QED
  BY <1>1, <1>2 DEF Searchable!Next, Searchable!Publish, Withdrawn, Reported

(* What is found is stored and not superseded.                             *)
LEMMA FoundLive ==
  ASSUME TypeOK
  PROVE  /\ Found \subseteq Live(row)
         /\ Serving => Found = Live(row) \cap (words \cap passages)
         /\ ~Serving => Found = Live(row)
  BY DEF Found, Live

(* Rows that are as before keep what is withdrawn.                         *)
LEMMA SameRows ==
  ASSUME row' = row
  PROVE  Withdrawn' = Withdrawn /\ Live(row)' = Live(row) /\ Live(row) \cap Withdrawn = {}
  BY DEF Withdrawn, Live

(* Accepting, importing and storing a chunk, indexing it and going on.     *)
LEMMA UploadPublishes ==
  ASSUME IInv, IInv', Uploads, NEW u \in Upload, UploadStep(u),
         ~Supersede(u), ~Finish(u)
  PROVE  Searchable!Next
<1> USE DEF vars, tables, files, memory, workers, history
<1>1. TypeOK /\ TypeOK' /\ JobSound(u) /\ UploadSound(u)
  BY DEF IInv, JobsSound, Uploads
<1>2. Serving /\ Serving'  BY WorkersServe DEF Serving
<1>3. /\ Found = Live(row) \cap (words \cap passages)
      /\ Found' = Live(row)' \cap (words' \cap passages')
  BY <1>1, <1>2, FoundLive DEF Found
<1>4. words \subseteq words' /\ passages \subseteq passages'
  BY DEF UploadStep, Accept, Import, Begin, Supersede, Create, Index, IndexVector, Refuse,
       Mark, Finish, FailUpload
<1>5. \A c \in Chunk : row'[c] # row[c] => row[c] = "none" /\ row'[c] = "live"
  <2>1. CASE Create(u)
    <3>1. job[u].at = "create"  BY <2>1 DEF Create
    <3>2. /\ At(u) \in Chunk /\ At(u) \in ChunksOf(u)
          /\ At(u)[2] = job[u].piece
      BY <3>1, AtChunk DEF IInv, ChunksOf
    <3>3. u \notin Embedded  BY <1>1, <3>1 DEF JobSound
    <3>4. row[At(u)] = "none"  BY <1>1, <3>1, <3>2, <3>3 DEF JobSound
    <3>5. row' = row \/ row' = [row EXCEPT ![At(u)] = "live"]  BY <2>1 DEF Create
    <3>6. QED  BY <1>1, <3>2, <3>4, <3>5 DEF TypeOK
  <2>2. CASE Import(u)  BY <2>2 DEF Import, NotSeen, ChunksOf
  <2>3. CASE ~Create(u) /\ ~Import(u)
    BY <2>3 DEF UploadStep, Accept, Begin, Index, IndexVector, Refuse, Mark, FailUpload
  <2>4. QED  BY <2>1, <2>2, <2>3
<1>6. Live(row) \subseteq Live(row)' /\ Withdrawn' = Withdrawn
  BY <1>5 DEF Live, Withdrawn
<1>7. Live(row)' \cap Withdrawn = {}  BY <1>6 DEF Live, Withdrawn
<1>8. Reported' = Reported
  <2>1. status \in [Upload -> Status]  BY <1>1 DEF TypeOK
  <2>2. CASE Accept(u)  BY <2>1, <2>2 DEF Accept, NotSeen, Reported
  <2>3. CASE Begin(u) \/ FailUpload(u)
    <3>1. u \notin Embedded /\ Active(u)
      BY <1>1, <2>3 DEF Begin, FailUpload, JobSound, Active
    <3>2. status[u] # "done"  BY <1>1, <3>1 DEF UploadSound
    <3>3. status'[u] # "done" /\ \A v \in Upload \ {u} : status'[v] = status[v]
      BY <2>1, <2>3, <3>2 DEF Begin, FailUpload, Record
    <3>4. QED  BY <3>2, <3>3 DEF Reported
  <2>4. CASE ~Accept(u) /\ ~Begin(u) /\ ~FailUpload(u)
    <3>1. status' = status
      BY <2>4 DEF UploadStep, Import, Supersede, Create, Index, IndexVector, Refuse, Mark
    <3>2. QED  BY <3>1 DEF Reported
  <2>5. QED  BY <2>2, <2>3, <2>4
<1>9. QED  BY <1>3, <1>4, <1>6, <1>7, <1>8, Publishes

(* Superseding withdraws what is stored of the file.                       *)
LEMMA SupersedeWithdraws ==
  ASSUME IInv, NEW u \in Upload, Supersede(u)
  PROVE  Searchable!Next \/ UNCHANGED <<Found, Withdrawn, Reported>>
<1> USE DEF vars, tables, files, memory, workers, history
<1>1. TypeOK  BY DEF IInv
<1>2. Serving /\ Serving'  BY WorkersServe DEF Serving, UploadStep
<1>3. /\ Found = Live(row) \cap (words \cap passages)
      /\ Found' = Live(row)' \cap (words \cap passages)
  BY <1>1, <1>2, FoundLive DEF Found, Supersede
<1>4. Reported' = Reported  BY DEF Supersede, Reported
<1>5. CASE row' = row  BY <1>3, <1>4, <1>5, SameRows
<1>6. CASE row' = Superseded(row, u)
  <2> DEFINE file == UNION {ChunksOf(v) : v \in {w \in Upload : SameFile(u, w)}}
  <2>1. \A c \in Chunk : c \in file <=> SameFile(u, c[1])
    BY ChunkPair DEF ChunksOf
  <2>2. \A c \in Chunk : row'[c] = IF row[c] = "live" /\ c \in file THEN "superseded" ELSE row[c]
    BY <1>6, <2>1 DEF Superseded
  <2>3. Live(row)' = Live(row) \ file  BY <2>2 DEF Live
  <2>4. Withdrawn' = Withdrawn \cup (Live(row) \cap file)  BY <2>2 DEF Live, Withdrawn
  <2>5. Found' = Found \ file  BY <1>3, <2>3
  <2>6. (Live(row) \ Found) \cap file \in SUBSET (file \ (Found \cup Withdrawn))
    BY DEF Live, Withdrawn
  <2>7. Withdrawn' = Withdrawn \cup ((Live(row) \ Found) \cap file) \cup (Found \cap file)
    BY <1>3, <2>4
  <2>8. Searchable!Withdraw(u)
    BY <1>4, <2>5, <2>6, <2>7 DEF Searchable!Withdraw, Withdrawn, Reported
  <2>9. QED  BY <2>8 DEF Searchable!Next
<1>7. QED  BY <1>5, <1>6 DEF Supersede

(* An upload that finishes has every chunk found or superseded.            *)
LEMMA FinishReports ==
  ASSUME IInv, Uploads, NEW u \in Upload, Finish(u)
  PROVE  Searchable!Next \/ UNCHANGED <<Found, Withdrawn, Reported>>
<1> USE DEF vars, tables, files, memory, workers, history
<1>1. TypeOK /\ JobSound(u) /\ UploadSound(u) /\ LiveFindable /\ BroughtSound
  BY DEF IInv, JobsSound, Uploads
<1>2. Serving /\ Serving'  BY WorkersServe DEF Serving, UploadStep
<1>3. job[u].at = "finish" /\ UNCHANGED <<row, words, passages>>  BY DEF Finish
<1>4. Found' = Found  BY <1>2, <1>3 DEF Found
<1>5. Withdrawn' = Withdrawn  BY <1>3, SameRows
<1>6. u \notin Embedded /\ job[u].piece = Pieces[u]
  BY <1>1, <1>3 DEF JobSound, UploadSound, Active
<1>7. ASSUME NEW c \in ChunksOf(u)  PROVE c \in Found \cup Withdrawn
  <2>1. c \in Chunk /\ c[1] = u /\ c[2] \in 1..Pieces[u]  BY ChunkPair DEF ChunksOf
  <2>2. Pieces[u] \in Nat  BY PiecesType
  <2>3. Behind(u, c)  BY <1>3, <1>6, <2>1, <2>2 DEF Behind
  <2>4. row[c] # "none"  BY <1>1, <1>3, <1>6, <2>3 DEF UploadSound, Active, Storing
  <2>5. row[c] \in {"live", "superseded"}  BY <1>1, <2>1, <2>4 DEF TypeOK, Row
  <2>6. ~InHand(c) /\ c[1] \notin broken
    BY <1>1, <1>3, <1>6, <2>1 DEF InHand, BroughtSound
  <2>7. row[c] = "live" => c \in words \cap passages
    BY <1>1, <1>2, <2>1, <2>6 DEF LiveFindable, Live
  <2>8. QED  BY <1>2, <2>1, <2>5, <2>7 DEF Found, Live, Withdrawn
<1>8. CASE status' = [status EXCEPT ![u] = "done"]
  <2>1. Reported' = Reported \cup {u}  BY <1>1, <1>8 DEF Reported, TypeOK
  <2>2. Searchable!Report(u)
    BY <1>4, <1>5, <1>7, <2>1 DEF Searchable!Report, Withdrawn, Reported
  <2>3. QED  BY <2>2 DEF Searchable!Next
<1>9. CASE status' = status  BY <1>4, <1>5, <1>9 DEF Reported
<1>10. QED  BY <1>8, <1>9 DEF Finish, Record

(* Every other step changes what is found only by going down, when what is *)
(* stored counts, or not at all: starting finds all that is stored.        *)
LEMMA RestKeepsFound ==
  ASSUME IInv, [Next]_vars, ~(\E u \in Upload : UploadStep(u))
  PROVE  Searchable!Next \/ UNCHANGED <<Found, Withdrawn, Reported>>
<1> USE DEF vars, tables, files, memory, workers, history
<1>1. TypeOK  BY DEF IInv
<1>2. UNCHANGED <<row, status>>
  BY NextCases DEF FillStep, List, GiveUp, StoreEmbedding, AddVector, MarkVector, StopFill,
     SnapStep, Flush, SaveWords, SaveVectors, StopSnap, Start, ClearAllEmbeddings,
     RemoveVectorsFile, SetMeta, LoadAndReconcile, LoseFile, Stop, GoDown
<1>3. UNCHANGED <<Withdrawn, Reported>> /\ Live(row)' = Live(row)
      /\ Live(row) \cap Withdrawn = {}
  BY <1>2, SameRows DEF Reported
<1>4. CASE UNCHANGED <<words, passages>> /\ Serving' = Serving
  BY <1>2, <1>3, <1>4 DEF Found
<1>5. CASE FillStep \/ SnapStep
  <2>1. UNCHANGED <<words, passages>>
    BY <1>5 DEF FillStep, List, GiveUp, StoreEmbedding, AddVector, MarkVector, StopFill,
       SnapStep, Flush, SaveWords, SaveVectors, StopSnap
  <2>2. QED  BY <1>4, <1>5, <2>1, WorkersServe DEF Serving
<1>6. CASE (\E m \in Model : Start(m)) \/ ClearAllEmbeddings \/ RemoveVectorsFile
           \/ SetMeta \/ LoseFile \/ Stop \/ UNCHANGED vars
  <2>1. UNCHANGED <<words, passages>> /\ Serving' = Serving
    BY <1>6 DEF Start, ClearAllEmbeddings, RemoveVectorsFile, SetMeta, LoseFile, Stop,
       Serving
  <2>2. QED  BY <1>4, <2>1
<1>7. CASE LoadAndReconcile
  <2>1. /\ ~Serving /\ Serving'
        /\ words' = ReconciledWords(row, wordsFile) /\ passages' = RebuiltPassages(row, wordsFile)
    BY <1>7 DEF LoadAndReconcile, Serving
  <2>2. Live(row) \subseteq words' /\ Live(row) \subseteq passages'
    BY <2>1 DEF ReconciledWords, LackWords, RebuiltPassages
  <2>3. Found = Live(row) /\ Found' = Live(row)
    BY <1>3, <2>1, <2>2 DEF Found, Live
  <2>4. QED  BY <1>3, <2>3
<1>8. CASE GoDown
  <2>1. ~Serving'  BY <1>8 DEF GoDown, Serving
  <2>2. Found' = Live(row)' /\ Found \subseteq Live(row)  BY <2>1 DEF Found, Live
  <2>3. QED  BY <1>3, <2>2, Publishes
<1>9. QED  BY <1>5, <1>6, <1>7, <1>8, NextCases

(* Every step is one of SearchableCorpus, or one it does not see.          *)
LEMMA StepSearchable ==
  ASSUME IInv, Uploads, [Next]_vars
  PROVE  [Searchable!Next]_(Searchable!vars)
<1>1. IInv'  BY InvariantKept
<1>2. Searchable!Next \/ UNCHANGED <<Found, Withdrawn, Reported>>
  BY <1>1, UploadPublishes, SupersedeWithdraws, FinishReports, RestKeepsFound
<1>3. QED  BY <1>2 DEF Searchable!vars, Withdrawn, Reported

(* A new corpus has nothing to find.                                       *)
LEMMA InitSearchable ==
  ASSUME Init
  PROVE  Searchable!Init
<1>1. /\ \A c \in Chunk : row[c] = "none"
      /\ \A u \in Upload : status[u] = "none"
  BY DEF Init
<1>2. Found = {}  BY <1>1 DEF Found, Live
<1>3. QED  BY <1>1, <1>2 DEF Searchable!Init

(* Together with what uploads of one file leave each other.                *)
LEMMA UploadsInvariance == Spec => [](IInv /\ Uploads)
<1>1. Init => IInv /\ Uploads  BY InitIInv, InitUploads
<1>2. (IInv /\ Uploads) /\ [Next]_vars => (IInv /\ Uploads)'
  BY InvariantKept, UploadsStep
<1>3. QED  BY <1>1, <1>2, PTL DEF Spec

(* Uploads that do not run beside each other leave one version of a        *)
(* transcript, however many there are, whatever crashes and failures cut   *)
(* them short; and an upload reported done is stored whole and superseded  *)
(* whole.                                                                  *)
THEOREM OneWholeVersion == Spec => []UploadsWhole
<1>1. Uploads => OneVersion
  <2>1. SUFFICES ASSUME Uploads, NEW u \in Upload, NEW v \in Upload, u # v, SameFile(u, v),
                        "none" \notin {status[u], status[v]}, raced \cap {u, v} = {}
                 PROVE  Unlive(u) \/ Unlive(v)
    BY DEF OneVersion, Unlive
  <2>2. UploadSound(u) /\ UploadSound(v) /\ PairSound(u, v)  BY <2>1 DEF Uploads
  <2>3. QED  BY <2>1, <2>2 DEF UploadSound, PairSound
<1>2. Uploads => UploadsWhole  BY <1>1 DEF Uploads, UploadsWhole
<1>3. QED  BY <1>2, UploadsInvariance, PTL

(* What a search finds behaves as SearchableCorpus says, for any uploads   *)
(* and imports beside each other and wherever the program goes down: what  *)
(* is found stays found until its file is uploaded again, what is          *)
(* superseded never comes back, and done means that all of it was found.   *)
THEOREM ImplementsSearch == Spec => ImplementsSearchable
<1>1. Init => Searchable!Init  BY InitSearchable
<1>2. (IInv /\ Uploads) /\ [Next]_vars => [Searchable!Next]_(Searchable!vars)
  BY StepSearchable
<1>3. QED
  BY <1>1, <1>2, UploadsInvariance, PTL DEF Spec, ImplementsSearchable, Searchable!Spec

=============================================================================
