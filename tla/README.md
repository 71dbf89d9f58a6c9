# Flying Shuttle in TLA+

Flying Shuttle is a Go program for outlining from transcripts: one process per
project serves a web page on which a writer arranges bullets, cites passages
of ingested sources under them, and keeps snapshots and branches of the whole
outline.  This directory holds TLA+ modules translated from its source, TLC
configurations that check them on small instances, and TLAPS proofs about them
for every value of their constants.

`PROJECT.json` says for each definition which lines of the source it models,
which run checks which property, which change of the code each property would
notice (`mutants`), which hazard of the code each property is for, and what
was found.

    tlc -workers 2 -config outline_forest.cfg MCOutlineForest.tla
    tlapm RevisionsProofs.tla

## The system

| Part | State | Operations | Runs as |
|---|---|---|---|
| Document store `internal/doc` | SQLite tables nodes, edges, threads, thread_nodes, evidence, snapshots, branches; one connection (`SetMaxOpenConns(1)`), foreign keys on | one statement or transaction per method | called by everyone below |
| Outline `internal/outline` | none of its own: reads the tables into a tree (`BuildTree`), plans an edit on it, writes | Add*, Indent, Unindent, Move, Attach, Set*, Edit*, Delete | in the request's goroutine |
| Graph checks `internal/dag` | none | cycle search, validation, sorting, reading a thread or the whole graph in order, conditions | in the request's goroutine |
| Web `internal/web` | none but the broadcaster's subscribers | one handler per button of the page; server-sent events | a goroutine per request (net/http) |
| Working documents `internal/workingdocs` | `outline.md`, `state.json` beside the database | render and write both every few seconds when the state has changed; import on start into an empty database | one goroutine, and start-up |
| Project `internal/project` | project and corpus directories, `project.json`, `config.json`, corpus lock file | create, bind to a corpus, switch, lock and unlock the corpus; `shuttle migrate` splits the former directories in two | start-up and shutdown, requests, a command |
| Corpus store `internal/corpus` | SQLite tables chunks (with embeddings, soft-deleted by `deleted_at`), uploads, transcript_segments, meta; shared between projects | one statement or transaction per method | pipeline, indexer, handlers |
| Ingestion `internal/pipeline`, `internal/ingest`, `internal/api` | uploads' rows | upload: record, parse, supersede the file's old chunks, store and index chunk by chunk, record done or failed; import of chunks with their embeddings | a goroutine per upload that nothing waits for |
| Compute `internal/ingest`, `python/` | a child process each for the embedder and the language model, a gate between them | start, ask, stop, replace | requests, the backfiller, a supervisor |
| Index `internal/indexer`, `internal/search` | keyword, passage and vector indexes in memory, a dirty flag, two snapshot files | index a chunk; backfill missing embeddings; write the files; load and reconcile on start; locate, rank and fuse | a backfiller and a snapshotter goroutine, uploads, start-up, requests |
| Atlas `internal/atlas` | builds and their clusters and digests in SQLite | build in the background, publish, prune, cancel, load | one build at a time, and requests |
| Stitch and export `internal/stitch`, `internal/export`, `internal/mdrender`, `internal/transcript` | none | text out of the document | in the request's goroutine |
| Main `cmd/shuttle` | the store, the corpus, all the goroutines | start, migrate, doctor, switch project, shut down | the process |

How they meet:

- All document state is in the database.  Handlers hold nothing between two
  requests, but within one request they read rows, decide, and write in later
  statements.  With one connection the statements and transactions are
  serial; requests are not.  **Between any two statements of a request any
  statement of another can run**, and a request can end there (client error,
  failing statement, killed process).
- The corpus is written by the pipeline and read by the index and the search;
  the document keeps a copy of the text it cites and refers to chunks by id
  with no foreign key.
- The embedder and the language model share the machine's memory through a
  gate: one of the two is loaded at a time.
- The flusher reads the tables as a snapshot does, on a timer.

What makes each part correct, and what is hard about it:

- *Outline*: linear edges are an ordered forest on which every bullet is shown
  once; exits and linear edges together are acyclic.  Hard: every edit decides
  on a tree read earlier; positions are taken for weights, which have gaps.
- *Snapshots and branches*: a stored document is the document of one instant
  and can be restored; switching loses nothing; a project with branches has
  one active.  Hard: the document is read in many statements, outside the
  transaction that uses it.
- *Node edits*: a title or a quote is not overwritten by somebody who has not
  seen it (the version column); a quote and its evidence agree.  Hard: two
  statements, a version that a restore takes back.
- *Working documents*: after a crash the newest written state comes back, and
  never an older one over a newer one.  Hard: two files, an import that fails,
  an empty database that is empty on purpose.
- *Corpus lock*: one writer among the sessions of a corpus, the others read
  only.  Hard: stale locks, two reclaimers, a file without a pid yet.
- *Homes*: nothing of a former home is lost by the migration, wherever it is
  cut short.  Hard: databases, files and directories moved one by one.
- *Ingestion and index*: every chunk that is not superseded is found and stays
  found; one version of each file; done means the whole transcript; nothing
  embedded is forgotten.  Hard: two databases of truth (tables and files), a
  crash between any two steps, uploads beside each other, a flush beside a
  change, a change of embedding model cut short.
- *Compute*: one child loaded, every waiter served, a dead child replaced.
  Hard: a supervisor, a health poll and requests race.
- *Atlas*: every session shows one complete build and comes to show the newest.
  Hard: publish, prune, restart, and a reader of another process in between.
- *Change notification*: a window comes to show the last state.  Hard: events
  dropped for slow subscribers, and those sent before one subscribes.
- *Pure algorithms* (reading order, diff, locating, ranking, clustering): each
  has inputs nobody thinks of, a loop in a baseline or a selection over blanks.

## Modules

Part 1, the outline:

| Module | Models |
|---|---|
| `DocTables` | The nodes and edges tables as values, and the store's transactions on them as operators: `InsertNode`, `DropNode`, `CascadeEdges`, `CanInsertEdge`, `MoveNode` (detach, make room, insert). |
| `OutlineTree` | `outline.BuildTree` and what the service asks of the tree: roots, children in order, parents, siblings, the subtree below a node, which nodes the tree contains. |
| `OutlineService` | The state machine: sessions with a request in flight each, whose statements interleave.  One action per statement, `Plan*` for what the service computes between reading the tree and writing. |
| `OutlineForest` | The abstract specification: an ordered forest, as each bullet's set of children and the order of siblings, in which an edit adds, places or deletes one bullet. |
| `ForestRefinement` | The refinement mapping: what a tree read from the tables shows. |
| `MCOutline`, `MCOutlineForest` | The instances. |
| `OutlineServiceProofs` | The proofs. |

A request of `OutlineService` starts in `Ask` and goes through the
statements the code runs: `ReadNodes` and `ReadEdges` (`Service.Tree`: two
statements), the plan (in `ReadEdges`: the code runs no statement between
reading and planning), `CreateNode`, `PlaceNode` (the transaction of
`MoveNode`), `CiteChunk`, and for exits `ProbeCycle` once per visited node
(`dfsReaches` lists one node's edges at a time) and `LinkExit`.  `DeleteNode`
and `DeleteExit` are one statement each.  `Abort` ends a request at any
statement.  The nodes' ids stand for creation time too, which is how BuildTree
breaks ties.

Part 2, snapshots, branches and threads:

| Module | Models |
|---|---|
| `DocState` | A whole document as a value (`model.SnapshotData`: nodes, edges, threads, paths, evidence, by key), the foreign keys (`Sound`), and what single statements do to it. |
| `Revisions` | The state machine: the live tables, the snapshots and branches tables, and requests: `gatherDAGState` statement by statement, then the transaction that stores, switches or restores; the deletion of branches with its check outside the transaction; toggling and appending a bullet on a thread's path.  It ends with the refinement mapping to `BranchedDoc`. |
| `BranchedDoc` | The abstract specification: a document being worked on, the branches left as they were left, the snapshots taken in one instant. |
| `MCRevisions`, `MCBranchedDoc` | The instances. |
| `RevisionsProofs` | The proofs. |

Both parts describe the same tables.  `OutlineService` looks at their structure
and leaves snapshots out; `Revisions` takes the outline's edits as atomic
statements on rows (`EditLive`), because the documents it copies are told
apart by their keys only.

Part 3, from an upload to a chunk that is found:

| Module | Models |
|---|---|
| `CorpusIndex` | The chunks table and the index as values: which chunk has a live or a superseded row, which embedding, what superseding does (`Superseded`), what the reconciliation adds to what the files hold (`ReconciledWords`, `RebuiltPassages`, `ReconciledVectors`). |
| `Ingestion` | The state machine: a goroutine per upload, the backfiller, the snapshotter, the start (change of model in three steps, then the reconciliation), stop, exit and crash. |
| `SearchableCorpus` | The abstract specification: chunks come to be found, stay found until their file is uploaded again, and done means all of them. |
| `SearchRefinement` | The refinement mapping. |
| `MCIngestion` | The instances. |
| `IngestionProofs` | The proofs. |

A step of `Ingestion` is one statement on the corpus database, one locked
operation on the in-memory index, or one file replaced.  `job[u]` says which
step of `Ingester.run` the file u is at and with which chunk: `Begin` (status
transcribing, reading, parsing), `Supersede`, then `Create`, `Index`, `Mark`
for each chunk, and `Finish` or `FailUpload`.  An import has its chunks stored
in one transaction, with vectors of any model, because the code does not ask
of which they are, and indexes them with `IndexVector`.  The vector graph
panics on a vector whose dimension is not that of the others, so where vectors
of two models meet the index may refuse one instead (`Refuse`): the request is
answered with an error and the rest of the import is not indexed.  In the
backfiller and on loading the same panic ends the program, which is a `Crash`.
The backfiller goes
through `List`, `StoreEmbedding`, `AddVector`, `MarkVector` or ends a pass in
`GiveUp`; the snapshotter through `Flush`, `SaveWords`, `SaveVectors`.
`Start`, `ClearAllEmbeddings`, `RemoveVectorsFile`, `SetMeta` and
`LoadAndReconcile` are `cmd/shuttle`'s way up; `Crash` may come at any moment
of all this and leaves the tables and the two files (`GoDown`).

Histories keep known weaknesses apart from what else could go wrong.  `raced`
has the uploads that ran beside another of the same file name, or whose
superseding failed.  `leftover` is set when the former model's vectors file
could not be removed, an error the code ignores.  `brought[u]` is the model of
the vectors import u came with, until a change of models has cleared them:
`OneModel` allows such a vector at that import's own chunks, and no other of a
model that is not running.  `broken` has the imports the index refused a
vector of since the start: their other chunks are found again from the next
one on.  An imported vector of another model can also hide a newer embedding
of its chunk (`Hidden`): when a change of models is cut short after the
embeddings are cleared, and the former model is started again, the vector
comes back from the file, and a crash between storing the new embedding and
indexing it leaves the old one, which nothing replaces.

Simplifications of Part 3.  Which of the chunks without an embedding are the
oldest is left open, so any of them can form a batch.  A file lost or unreadable leaves its index empty;
a vectors file that loads half is not modelled.  The embedder's answers are
taken to be non-empty.  Chunks have no text, and the transcript's segments are
left out.

Part 4, what bullets and quotes say:

| Module | Models |
|---|---|
| `NodeEdits` | SetTitle and the reader's anchor under the version a page carries, EditQuote (trim, splice out) and SetQuoteText, a snapshot and its restore. |
| `MCNodeEdits` | The instance. |
| `NodeEditsProofs` | The proofs. |

`row[n]` is a nodes row (text and version), `excerpt[q]` the evidence row of a
quote, `page[c]` what a browser has of the bullets, `req[c]` the request in
flight.  A quote's text is the sequence of the positions of the source it
consists of, so cutting and clamping are modelled by what they do to it.  The
actions are the statements: `GetNode`, `ListEvidence`, `UpdateEvidence`,
`UpdateNode`.  A restore brings old version numbers back; the history `rolled`
has the clients whose page is older than one, and `split` the quotes of which
an edit ended between its two statements or ran on beyond a restore.

Part 5, the mirror of a project on disk and in windows:

| Module | Models |
|---|---|
| `WorkingDocs` | The flusher (its gather a statement per table, then two files), import of `state.json` on start, orderly shutdown and switch of projects, crashes; the broadcaster and the preview windows that follow it. |
| `MCWorkingDocs` | The instance. |
| `WorkingDocsProofs` | The proof. |

A signal cancels the context the flusher runs under at once, also in the
middle of a switch of projects (`Signal`): requests are then served beside the
final flush, and after it until the server is shut down.  A switch that no
signal cuts short shuts the server down first, for five seconds at most
(`Drained`, with `late` when a request outlives them).

Histories: `stale` says that an edit came since the flusher last listed the
nodes, `left` is the document at an orderly exit, `half` says that outline.md
was replaced and state.json was not, `missed` has the windows that loaded the
page and had not subscribed when a ping went out.  An exit is orderly when its
final flush succeeded and either no edit came while or after that flush read
the document, whether a signal or a switch brought the exit about, or no edit
should have come: a switch that drained.  What an edit changes beside or after
the final flush of a signal is in the database only; when it takes the last
bullet away the next start finds the database empty and imports the older
`state.json` (a finding).

Part 6, several sessions on one corpus:

| Module | Models |
|---|---|
| `CorpusSessions` | The processes bound to one corpus. |
| `CorpusLock` | `AcquireCorpusLock` and `Release`, where creating the file and writing the pid, and judging a lock stale and removing it, are steps of their own. |
| `Atlas` | A build's row and the four tables of its body, written and read one by one; publishing, pruning, failing, the digest cache, and what a session shows. |
| `SharedCorpus` | The composition: the result of the lock makes a session read-only for good; the writer rebuilds, the others refresh. |
| `MCSharedCorpus` | The instance.  Once two sessions have raced for the lock only the lock goes on (`AtlasWhileNotRaced`): the properties of the atlas claim nothing then. |
| `SharedCorpusProofs` | The proofs. |

`raced` says that two sessions were acquiring the lock while no live session
held it: the one way to two writers.

Part 7, the local models:

| Module | Models |
|---|---|
| `Compute` | The gate, calls on it (with a client that goes away at any moment), the embedder's supervisor with its health poll, restarts and giving up, and the language model, which the call that needs it starts and which ends itself when idle. |
| `MCCompute` | The instance. |
| `ComputeProofs` | The proof. |

`abandoned` says that a client left while its job was computing: the gate is
free then and the job goes on in the child.

Part 8, algorithms and files:

| Module | Models |
|---|---|
| `ReadingOrder` | `internal/dag`'s sort, linearisation, conditional walk and cycle search; the passages that are stitched; the notes and links of an export; the exits of the pane. |
| `BaselineDiff` | `outline.Diff`: the ghosts of deleted bullets, where they are anchored, drawn and rescued to. |
| `Locator` | Tokens, sentences, passages, the window a search marks in a passage, and finding a selection again. |
| `Transcripts` | Parsing an upload, cutting it into chunks, and the window of the reader. |
| `EvidencePane` | The keyword index's counts, the fusion of the arms, pages, snippets under a budget, and the stability of what is shown while one types. |
| `AtlasRegions` | `ClusterChunks`: bisecting and merging, as a state machine over the clusters; which of two equals is taken, and where a cluster is cut, are left open. |
| `AtlasGraph` | Links between regions, chunks and transcripts, and the transcripts' colours. |
| `Homes` | The directories of projects and corpora, the project the program starts on, and the migration of a former home, one statement or file a step, with failures and kills. |
| `MCAlgorithms` | The instance: a behaviour takes one area and asks it one small input, or runs the steps of `AtlasRegions` or `Homes`; the invariants judge the answer. |
| `Subsequences` | The elements of a sequence at some of its places, in their order: what a loop that skips the others leaves.  Used by the three text and search modules. |
| `AlgorithmsProofs` | The proofs about all of these but `Locator` and `Transcripts`. |

Words, similarities and scores are small values given as input: what is
computed from them is modelled, how a vector or a frequency is made is not.
None of the modules recurses through an operator: a loop of the code is a
recursive function of its number of rounds, with a bound on the rounds that is
part of the model (`Kahn`, `dfsReaches`, `ConditionalWalk`, `Climb`), or a
fold, so that the loops can be proved about as well as run.
Token and rune are one thing in `Locator` and `Transcripts`, but a wide
character has two bytes where the code counts bytes.  In `Homes` the migration
runs offline, as its own messages ask; the order in which the names of a
directory are taken is left open, and a directory is made with its
subdirectories in one step.

## Runs

| Run | Instance | Shows |
|---|---|---|
| `outline_concurrent` | 2 sessions, 3 requests, 4 ids (2 there at first), positions -1 and 1, all operations but AddChildAt | Whatever the interleaving, `TreeSound`: types, no dangling, doubled or reflexive edge, one parent, distinct sibling weights, evidence on existing quotes only.  Bystanders keep their order (`SiblingOrderKept`); no exit goes but by its own deletion (`ExitsKept`). |
| `outline_forest` | 1 session rearranging, deletions at any moment, 3 requests, 4 ids (3 at first), positions 0 and 1, all operations | The outline is an ordered forest (`LinearAcyclic`) and implements `OutlineForest`; no bullet is lost but below a quote that lost its parent (`BulletsShown`); an added exit closes no loop; every request is answered. |
| `moves_race` (violated) | 2 sessions, Move only | Two Moves at once put two bullets under each other. |
| `revisions_concurrent` | 2 clients, 3 requests, 3 edits, 2 nodes, 1 thread, 3 branches, 1 snapshot, all operations and edits | The live tables stay sound, a gather without insertions can be restored, inactive branches are not written to, and there is never exactly one branch. |
| `revisions_one_client` | 1 client, 5 requests, 3 edits, same ids | The abstract branched document is implemented; every stored document can be restored. |
| `ingestion_uploads` | 2 uploads of one file name, of 2 chunks and 1, none imported, 1 model, batches of 2, 2 starts, no failures but crashes | What a search finds implements `SearchableCorpus`; uploads one after the other leave one version, and done is the whole transcript (`UploadsWhole`). |
| `ingestion_recovery` | an import and an upload of 1 chunk each, 2 models, batches of 1, 3 starts, 1 failure | Live chunks and stored embeddings can be found (`Findable`); what is unsaved is known to be; no vector is left of a former model, but for those an import brought, which may be of any (`OneModel`); the backlog drains. |
| `node_edits` | 2 clients, 1 bullet with 2 titles, 1 quote of 3 characters with a blank in the middle, 3 requests, 1 restore | A quote says what its evidence says (`QuoteAgrees`) and, until rewritten, what its source says between its bounds (`QuoteInSource`); no bullet's title is overwritten by one who has not seen it, but over a restore (`NoBlindOverwrite`). |
| `working_docs` | 1 bullet, 1 window, 3 edits, 2 starts, 1 failure | After an orderly exit, by a switch of projects or by a signal at any moment, the next start has the document of the exit, the database lost or not (`OrderlyRestartKeeps`); once edits stop, the files hold the document (`FilesCatchUp`) and subscribed windows show it (`WindowsFollow`). |
| `shared_corpus` | 2 sessions, 3 starts, 2 builds, 1 chunk, 1 fault | One writer; once a build is ready one is from then on, with its whole body (`AtlasKept`); a summary by the model is not replaced by a provisional one and a stored vector is that of its summary (`DigestCache`); readers that show a build come to show the newest ready one (`ReadersCatchUp`). |
| `compute` | 2 embedding calls, 1 completion, 4 calls, 2 exits of the embedder, 1 exit of the language model while it loads, 2 fast failures | One large job at a time; every call returns; the readiness shown follows the child. |
| `algorithms` | documents of 4 nodes, conditional walks of 3 edges, baselines with any parents of 4 bullets, texts of 6 tokens, 3 results an arm, 6 chunks in at most 4 regions, 2 names and 1 fault | The pure algorithms against what they should compute, and the migration: everything a former home held is where the program or its user finds it, and nothing new is overwritten (`HomeSound`). |

The violated run is a finding of `PROJECT.json`, which quotes the sentence of
the repository that the code does not keep.  The other findings have no run of
their own: they were met while modelling, and the models contain the behaviour
and say so, by a property that allows for it or by a history that keeps it
apart (`raced`, `leftover`, `brought`, `broken`, `stale`, `half`, `missed`,
`abandoned`, `rolled`, `split`).
`BulletsShown` and `OutlineForest` allow for the orphaned quote and for
AddChild's wrong position; `StoredRestorable` is checked with one client
because with two a torn snapshot is stored.  Deleting a `~ raced` or
`~ abandoned` from a property shows the corresponding behaviour.

Bounds.  `MaxNode`, `Node`, `Branch`, `Snapshot`, `Thread` bound the ids,
`MaxRequests` and `MaxEdits` what clients do, `Positions` what they send.
Three requests suffice for the interesting cases: a race takes two, and the
third builds the nesting or the gap they race over.  Four bullets give a
grandparent, a parent, and two siblings; two initial roots leave two ids for
new bullets or quotes.  Three branches are what the first split (two rows) and
a second one make, and the least with which deleting one leaves two.  Two
nodes are an edge's ends.  Two chunks in one upload are a transcript that can
be half stored or half superseded; two uploads of one name are a re-upload.
Three starts are the least with which a change of model that was cut short is
followed by another change; one failure, beside any number of crashes within
the starts, meets each single error path.  Three characters with a blank in
the middle are the least in which a selection can begin, end or lie in the
blank.  Three edits make the mirror's document leave a content and come back
to it while a flush is under way.  Two sessions and three starts let one die
with the lock and two reclaim it; two builds let one be pruned while it is
read; one chunk more than the first build makes a digest stale.  Three calls
on the gate are one inside, one waiting, and one that comes.  Four nodes hold
a diamond and a loop of two beside a path; six tokens hold two sentences, a
hit that spans them and a margin.  Weights and positions are not bounded
otherwise: at most `MaxRequests` rows are shifted.

`CHECK_DEADLOCK FALSE` in every configuration: when the bound on requests, or
on starts, is reached and nothing is in flight the instance stops; the program
waits for the next request, or to be started.  The algorithms stop at their
answer.

Fairness.  `FairSpec` of `OutlineService` (run `outline_forest`) is weak
fairness of `Step(s)` for each session: net/http runs each request in a
goroutine, the Go scheduler is preemptive, and the one connection serves
waiting statements in turn.  No fairness is assumed of clients, deletions or
aborts.  `Answered` is not a matter of course: the cycle search follows edges
that others add and remove meanwhile.  `FairSpec` of `Ingestion` (run
`ingestion_recovery`) is weak fairness of the backfiller, a goroutine woken by
a ticker, and strong fairness of `StoreEmbedding`: the embedder is asked on
every tick while a chunk lacks its embedding, and is ready on some of them.
An embedder that is never ready drains nothing, and the code does not claim
it.  `BacklogDrains` holds although superseding, uploads and failures take
turns with the backfiller.  `FairSpec` of `WorkingDocs` is weak fairness of
the flusher, a ticker's loop, and of a window's subscribing and loading again,
which its script does on every event; none of edits or of starting.  `Fairness` of `SharedCorpus` is weak
fairness of loading at start, of the poll every ten seconds, and of reading a
build on; nothing is assumed of the writer.  `FairSpec` of `Compute` is weak
fairness of each call's next step, because each of its waits has a timeout,
and of the supervisor's and the health poll's loops, which run on timers; none
of the children, of clients or of a child's coming up.

Symmetry is used for sessions, nodes and branches, which are interchangeable
in every property checked with it, and never together with liveness.

## Proofs

No bound is used: the theorems hold for any number of bullets, sessions,
branches, snapshots, requests, uploads, chunks, models, builds, calls, starts
and failures, and any positions, texts and selections.

What is assumed are the `ASSUME`s of the modules on their constants, which TLC
evaluates on every run: counts are natural numbers, the operations an instance
asks for are among those there are, sets of ids that stand for different
things are disjoint, and values for "nothing" are not ids (`NoFile` is no
document, `Nothing` no name, `None` no chunk).  `Chunk` of `AtlasRegions` is a
finite set of numbers and not empty, because the code compares ids and
clusters nothing without chunks.  Theorems that hold for one request at a time
only have the hypothesis `Alone`, which says that `Sessions` has at most one
member; a project has one writer, at one page, most of the time, and
`moves_race` shows what is lost without it.

### The outline (`OutlineServiceProofs`)

For any number of requests in flight: `TreeSound` by its parts, `ExitsKept`
and `SiblingOrderKept`.  The invariants are not inductive alone: a request that
would place a node under itself, or cite a bullet, breaks them in one step.
`IInv` adds `RequestOK`, what a request in flight can rely on whatever the
others do: ids it holds have been handed out, its node is not its new parent,
and the node of an attachment is not a bullet.  Deletions only take away, so
these facts are stable.  The two action properties rest on `IInv` and on what
one transaction of MoveNode does: making room adds one to the weights from a
position on, whatever tree the position was computed from, so the order of two
rows it does not move cannot change.

For one request at a time and deletions at any moment:

- `LinearAcyclic`.  `FInv` adds that a request about to move knows a set of
  bullets that contains the one it moves, is closed under children and does
  not contain the new parent (`Separated`).  A loop closed by the move would
  have to leave that set by an edge.  The set is the subtree the service
  computed, and deletions do not open it; other moves would.
- `BulletsShown` follows from `FInv`: without loops, going up from a bullet
  ends, at a root or at a quote without a parent (by well-founded induction
  over the linear edges; there are finitely many bullets).
- `ExitsKeepAcyclic`.  `SInv` says of a running search that every edge from a
  node it has visited leads to a node it has visited or will visit, and of a
  finished one that some set has the target, lacks the source, and is left by
  no edge: the search is complete although each of its reads is of another
  instant.
- `ImplementsForest`, the refinement.  `Kids` and `Before` read the tables as
  BuildTree does.  Each step of a request is mapped: creating a row adds a
  bullet, MoveNode places one (the set of `FInv` shows that its new parent is
  not below it, `BeforeFollows` that all others keep their order), deleting a
  row with its edges takes one away and leaves its children at the top, and
  every other step changes neither the rows nor the order (`SameRowsSameForest`).

`OutlineForest` is written with sets and a relation, not with sequences of
children, for the sake of this proof; a sequence and a strict total order of
its elements are the same thing.

### Snapshots and branches (`RevisionsProofs`)

For any number of clients: TypeOK, LiveSound, NeverOneBranch, GatherRestorable
and InactiveKept.  `IInv` adds `GatherOK`, what a gather half-way knows: unless
a node was added since it listed the nodes, every node there is was in that
list, so every row it reads next refers to a row it has.  This is where the
order in which gatherDAGState reads matters.

For one client: `StoredRestorable`, and that `BranchedDoc` is implemented.
`OneInv` adds that what a gather has read of a table is what the table holds
(`ReadOK`), that the row a restore or a switch looked up is still that row
(`LoadOK`), and that the active branch is one there is.  The five statements of
a gather are stutters of the abstract document, and the transaction after them
is its step.

### Ingestion (`IngestionProofs`)

TypeOK, `Findable` (by LiveFindable and EmbeddingsFindable), UnsavedKnown,
OneModel, `UploadsWhole`, and that `SearchableCorpus` is implemented.  `IInv`
adds six facts.  `Quiet`: a program that is not serving has nothing in memory
and nobody at work, so a start begins with the tables and files alone.
`JobsSound`: an upload at its i-th chunk has stored none after it, so every
chunk it stored is indexed already or is the one in hand; without this InHand
would excuse too little or too much.  `FillSound`: the backfiller holds and
embeds stored chunks only.  `OfMeta`: embeddings and vectors file are of the
model on record, or brought by an import, or gone, at every step of a change
of model; from there the start makes them of the running one.  `BroughtSound`:
who brought vectors has its chunks stored, and only imports break off.
`FillOfModel`: what the backfiller is about to index it has stored as of the
running model.  `EmbeddingsFound` strengthens EmbeddingsFindable: an upload
that has a chunk in hand is no excuse for one that has an embedding, only an
import is.

`UploadsWhole` needs `Uploads`: an upload at work has stored all chunks behind
the one it is at (`UploadSound`), and of two uploads of one file that are not
raced the one that stores chunks has superseded the other's (`PairSound`).
The refinement needs no more than these.  The proofs hold for imports of
several chunks, which the instances leave out.

### Bullets and quotes (`NodeEditsProofs`)

`QuoteAgrees`, `QuoteInSource` and `NoBlindOverwrite`.  QuoteAgrees is not
inductive: an edit about to write the row could put any text there.
`Agreement` says why it does not.  Of the edits that wrote the excerpt of a
quote and not yet its row, either all will be refused, their version being
old, or one of them wrote the excerpt last; whoever commits makes all others
old.  A snapshot copies this in two statements (`Copies`), and a restore
excuses every edit under way.  `Sources` is kept by each trim and splice
because what is cut out at an end moves the bound by its length.  `Pages` says
that a page loaded since the last restore has the text its version stands for.

### Working documents (`WorkingDocsProofs`)

`OrderlyRestartKeeps`.  `DocsInv` follows a flush (`Gathered`): unless an edit
came since it listed the nodes, what it has gathered, and what it writes or
finds written already, is the document.  The final flush of a switch that
drained (`FinalFlush`) begins when no request is served and no late one is
left (`Quiet`), so none comes after it; that of a signal has this only when no
edit did come, which is when its exit counts as orderly.  After such an exit the
tables are that document or are empty, and state.json is that document
(`LeftOrderly`), which is what the import on start needs.

### The shared corpus (`SharedCorpusProofs`)

`OneWriter` for any number of sessions.  `LockInv` adds, while no race
happened, `LockHeld`: the file is the writer's, or that of the session about
to be the writer, and what a session is about to remove is not a live lock.
Not having raced means that whoever removes a stale lock does so alone.

`AtlasKept` and `DigestCache` rest on the lock: only the writer builds
(`WritersBuild`), so there is one build under way, and `StoreSound` says how
far it has come: all its parts are stored before it is published, nothing is
pruned before that, and the digest whose vector is about to be stored is still
that digest.

### The gate (`ComputeProofs`)

`OneBigJob` for any number of calls.  `GateInv` adds that at most one call is
inside the gate, the one it is held by (`OneInside`), and that a job in a
child is awaited by that call unless somebody gave up (`Awaited`).

### Regions, links and homes (`AlgorithmsProofs`)

`Partition` is inductive: bisecting a cluster, merging two and giving a cluster
up lose and double no chunk.  `SizesRight` (a part of what the run checks as
AtlasDrawn) counts on top of it: a split makes one cluster more and is made
below MaxRegions only, a merge makes one fewer.

`LinksRight`, `TranscriptsRight` and `TagsRight` prove the other parts of
AtlasDrawn for any finite set of chunks, files and regions and any whole
similarities.  Each sorts by a total order, so `AtlasGraph` gives an element
its rank, the number of those before it; `Ranks` shows that the ranks in a
finite total order are 0, 1, 2 and so on, and `FirstRanks` that K of them are
below K.  From there `DroppedForStronger` counts the stronger links at each end
of a pair that is left out, and `RoomForAll` shows that nothing is left out
when a node may ask for all others.

`HomeSound`: `HomeInv` says what the two new directories hold before each
statement of splitOne (`SplitSound`), that what is still to be split is as it
was (`Untouched`), and that the program and the migration do not run at once
(`ServerSound`); a step that fails leaves what was copied in both places.

### Loops over data (`AlgorithmsProofs`)

The theorems of this section are about every document, baseline, index,
ranking and list of sentences, of any size.  An induction schema cannot be
cited, so induction goes by sets: `Least` says that a set of numbers that is
not empty has a least one, and `UptoN` that a set with 0 in it, and with k + 1
whenever it has k, has all numbers up to n.  The instance of the hypothesis is
then a set, which the provers can build.  `LoopFn` and `FoldFn` use it to show
that a recursive function on the rounds of a loop, or a fold of the library,
takes the values its equations say; a proof about a loop gives the values and
an invariant of them.  `PickedRight` says what a subsequence holds and
`PickedJoin` when two of them meet.

Ghosts.  The climb of a removed bullet takes at most as many steps as there
are bullets, or repeats one: `ClimbInside` keeps it in the removed bullets
above, which `GhostsRight` counts.  `RescueRight` shows that a rescue changes
no other row of the comparison.

Order.  `SortRight`: the invariant of Kahn's loop says that a node's degree
counts the edges into it from nodes not sorted yet, and that the queue holds
exactly those of degree 0; a set of nodes that is never sorted has an edge into
each from within, hence a cycle.  `CycleCheckRight`: the open calls of the
depth-first search are a list of nodes that everything reached and not visited
can be reached from.  `WalkRight` is about the same kind of list, of edges
still to be looked at, and `ManuscriptRight` about two folds, one of nodes
inside one of excerpts, and the glue.  `PaneRight` is about the exits.

Candidates.  `IndexRight` gives the value the index has after any additions:
that of the last text of each document (`IndexedIs`).  `FusionRight` takes any
denominator that the ranks divide (`CommonDenominator`, which stands for the
fractions of the code): a chunk that no arm ranks above another gets less from
each arm that has it.  `PagesRight` joins the pages as subsequences that meet; they are pages of one
ranking, while the code ranks anew for each, ties in any order (a finding).
`SnippetRight` compares groups by an order that is total because groups of
sentences are apart, and `StableRight` carries what is shown from the first
answer with the same chunks to the last.

`ReadingSound`, `GhostsAnchored`, `CandidatesSound` and `AtlasDrawn` are what
the run `algorithms` checks.  `ReadingStaysSound`, `GhostsStayAnchored`,
`CandidatesStaySound` and `AtlasStaysDrawn` prove them of its specification:
the inductive invariants (`ReadAsked`, `DiffAsked`, `CandidatesAsked`,
`AtlasAsked`) say only what may have been asked, and the theorems above say the
answer is right.  The bound on the edges of a walk (`MaxEdges`) is not used;
the others belong to what the instance asks, and the theorems about any input
are the ones that say more.

### Only model-checked

Liveness is beyond the prover: `Answered`, `BacklogDrains`, `CallsReturn`,
`ReadyFollows`, `FilesCatchUp`, `WindowsFollow`, `ReadersCatchUp`.  So is, so
far, `QuotesLocated`: it rests on selections from a sequence by a predicate
(SelectSeq with a LAMBDA), which the provers cannot look into, and on joining
texts whose blanks were run together.


## Not modelled

Rendering: pages, components, scripts, the text of outline.md and the layout
of a PDF.  Arithmetic on vectors, the scores of words, keywords, summaries and
chunk labels, and the cosines of the semantic locator, of which the models
take the results.  RenameBranch and UpdateThread, which no route reaches;
StartPending and Rechunk, which nothing calls; the legacy node_chunks of old
snapshots; time stamps; routing headers and logging; the doctor command, which
reads and reports; what runs inside the Python servers.

Modelled though a running program does not reach it: ConditionalWalk,
ValidateGraph and FindRoots.  Neither reached nor modelled: the prompt
stitcher, the query translator, the context checker, and the clusterer that
asks a language model.  Parts listed as not_modelled in `PROJECT.json` each
have their reason there.

Two limits of what is claimed.  Rescuing a ghost leaves the ghost, because the
copy has an id of its own; `GhostsAnchored` claims where it is drawn, not that
it goes.  After two sessions raced for a corpus lock nothing is claimed of the
corpus they share.

## Plan

Every part that changes state is modelled, and every safety property that a
run checks is proved, but `QuotesLocated`.  What is left, in order:

1. `QuotesLocated`: the hits of `Locator` as subsequences in place of
   SelectSeq, then that tokens and sentences do not overlap, which windows,
   marks and passages all rest on.
2. The type invariants of `Compute`, `WorkingDocs` and `SharedCorpus` whole,
   where the proofs above need a part only.
3. Chunk labels of the atlas, and imports of several chunks in an instance.
