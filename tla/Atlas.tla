------------------------------- MODULE Atlas -------------------------------
(***************************************************************************)
(* The Source Atlas of a corpus: internal/atlas (builder.go, service.go,   *)
(* store.go, digest_cache.go) and the handlers that show and rebuild it.   *)
(*                                                                         *)
(* A build is a row of atlas_build with its body in four more tables,      *)
(* written by one statement or transaction after another; a session reads  *)
(* a build header first and its body in four more statements.  `parts'     *)
(* counts the body tables a build has, in the order both write and read    *)
(* them: regions, members, links, transcripts.                             *)
(*                                                                         *)
(* The corpus is abstracted to the number of its embedded chunks: chunks   *)
(* are only added, so it names the member set of the one region that is    *)
(* followed through the digest cache.                                      *)
(***************************************************************************)
EXTENDS CorpusSessions

CONSTANTS MaxBuilds,    \* bound: builds created
          MaxChunks,    \* bound: embedded chunks
          MinChunks,    \* ErrTooFewChunks below this
          MaxFaults,    \* bound: statements that fail
          LLM,          \* is a language model configured
          NotLoaded, NoBuild

ASSUME AtlasAssumption == {MaxBuilds, MaxChunks, MinChunks, MaxFaults} \subseteq Nat

VARIABLES builds,       \* atlas_build and the bodies: id -> status, parts
          created,      \* builds created so far; a newer build has a larger id
          digests,      \* atlas_digest: member set -> source, which digest, vector of which
          chunks,       \* embedded chunks of the corpus
          job,          \* per session: the build it runs
          shown,        \* per session: Service.current
          reading,      \* per session: a build being read from the store
          faults

atlasVars == <<builds, created, digests, chunks, job, shown, reading, faults>>

BuildId == 1 .. MaxBuilds
AllParts == 4
NoRow == [status |-> "none", parts |-> 0]
Idle == [pc |-> "idle", id |-> 0, members |-> 0, dig |-> 0, vec |-> 0]
NoDigest == [source |-> "none", of |-> 0, vec |-> 0]

Reading == [id : BuildId, next : 0 .. AllParts, got : 0 .. AllParts]
Shown == [id : BuildId, got : 0 .. AllParts]
BuildPhases == {"corpus", "digest", "summarise", "embed", "regions", "links",
                "transcripts", "reload", "fail", "discard", "finish", "prune"}

AtlasTypeOK ==
    /\ builds \in [BuildId -> [status : {"none", "building", "ready", "failed"},
                               parts : 0 .. AllParts]]
    /\ created \in 0 .. MaxBuilds
    /\ digests \in [0 .. MaxChunks -> [source : {"none", "llm", "extractive"},
                                       of : 0 .. MaxBuilds, vec : 0 .. MaxBuilds]]
    /\ chunks \in 0 .. MaxChunks
    /\ job \in [Session -> [pc : BuildPhases \cup {"idle"}, id : 0 .. MaxBuilds,
                            members : 0 .. MaxChunks, dig : 0 .. MaxBuilds, vec : 0 .. MaxBuilds]]
    /\ shown \in [Session -> Shown \cup {NotLoaded, NoBuild}]
    /\ reading \in [Session -> Reading \cup {NoBuild}]
    /\ faults \in 0 .. MaxFaults

AtlasInit ==
    /\ builds = [b \in BuildId |-> NoRow]
    /\ created = 0
    /\ digests = [m \in 0 .. MaxChunks |-> NoDigest]
    /\ chunks = 0
    /\ job = [s \in Session |-> Idle]
    /\ shown = [s \in Session |-> NotLoaded]
    /\ reading = [s \in Session |-> NoBuild]
    /\ faults = 0
-----------------------------------------------------------------------------
Ready == {b \in BuildId : builds[b].status = "ready"}
Newest == CHOOSE b \in Ready : \A c \in Ready : c <= b

Become(s, pc) == job' = [job EXCEPT ![s].pc = pc]
Finished(s) == job' = [job EXCEPT ![s] = Idle]

Fault == faults < MaxFaults /\ faults' = faults + 1
NoFault == UNCHANGED faults

(* Reading a build: its header, then one body table after another.  A row  *)
(* that is deleted meanwhile takes its body with it (ON DELETE CASCADE).   *)

\* CurrentBuild finds nothing, at start-up.
LoadNothing(s) ==
    /\ shown[s] = NotLoaded /\ reading[s] = NoBuild
    /\ Ready = {}
    /\ shown' = [shown EXCEPT ![s] = NoBuild]
    /\ UNCHANGED <<builds, created, digests, chunks, job, reading, faults>>

LoadHeader(s) ==
    /\ reading[s] = NoBuild
    /\ Ready # {}
    /\ reading' = [reading EXCEPT ![s] = [id |-> Newest, next |-> 0, got |-> 0]]
    /\ UNCHANGED <<builds, created, digests, chunks, job, shown, faults>>

LoadCurrent(s) == shown[s] = NotLoaded /\ LoadHeader(s)

\* GET /atlas/status of a read-only session.  Only the pane of a session that
\* already shows a build polls it.
Refresh(s) == shown[s] \notin {NotLoaded, NoBuild} /\ LoadHeader(s)

ReadNext(s) ==
    LET r == reading[s]
    IN  [r EXCEPT !.next = @ + 1,
                  !.got = IF builds[r.id].parts > r.next THEN @ + 1 ELSE @]

ReadBody(s) ==
    /\ reading[s] # NoBuild /\ reading[s].next < AllParts
    /\ reading' = [reading EXCEPT ![s] = ReadNext(s)]
    /\ UNCHANGED <<builds, created, digests, chunks, job, shown, faults>>

\* Mutant: the build in memory is only ever set once.
SwapOnce(s) ==
    /\ reading[s] # NoBuild /\ reading[s].next = AllParts
    /\ job[s].pc = "idle"
    /\ shown' = IF shown[s] \notin {NotLoaded, NoBuild} THEN shown
                ELSE [shown EXCEPT ![s] = [id |-> reading[s].id, got |-> reading[s].got]]
    /\ reading' = [reading EXCEPT ![s] = NoBuild]
    /\ UNCHANGED <<builds, created, digests, chunks, job, faults>>

\* Under s.mu: swap, unless the build in memory has the same id.
Swap(s) ==
    /\ reading[s] # NoBuild /\ reading[s].next = AllParts
    /\ job[s].pc = "idle"
    /\ shown' = IF shown[s] \notin {NotLoaded, NoBuild} /\ shown[s].id = reading[s].id
                THEN shown
                ELSE [shown EXCEPT ![s] = [id |-> reading[s].id, got |-> reading[s].got]]
    /\ reading' = [reading EXCEPT ![s] = NoBuild]
    /\ UNCHANGED <<builds, created, digests, chunks, job, faults>>
-----------------------------------------------------------------------------
(* One rebuild, in a goroutine of its own; `building' is job[s].pc # "idle". *)

StartRebuild(s) ==
    /\ shown[s] # NotLoaded
    /\ job[s].pc = "idle"
    /\ Become(s, "corpus")
    /\ UNCHANGED <<builds, created, digests, chunks, shown, reading, faults>>

TooFewChunks(s) ==
    /\ job[s].pc = "corpus"
    /\ chunks < MinChunks
    /\ Finished(s)
    /\ UNCHANGED <<builds, created, digests, chunks, shown, reading, faults>>

\* Mutant: starting a build drops the others, as if one build fitted the store.
CreateBuildAlone(s) ==
    /\ job[s].pc = "corpus"
    /\ chunks >= MinChunks
    /\ created < MaxBuilds
    /\ created' = created + 1
    /\ builds' = [[b \in BuildId |-> NoRow] EXCEPT ![created + 1].status = "building"]
    /\ job' = [job EXCEPT ![s] = [pc |-> "digest", id |-> created + 1,
                                  members |-> chunks, dig |-> 0, vec |-> 0]]
    /\ UNCHANGED <<digests, chunks, shown, reading, faults>>

CreateBuild(s) ==
    /\ job[s].pc = "corpus"
    /\ chunks >= MinChunks
    /\ created < MaxBuilds
    /\ created' = created + 1
    /\ builds' = [builds EXCEPT ![created + 1] = [status |-> "building", parts |-> 0]]
    /\ job' = [job EXCEPT ![s] = [pc |-> "digest", id |-> created + 1,
                                  members |-> chunks, dig |-> 0, vec |-> 0]]
    /\ UNCHANGED <<digests, chunks, shown, reading, faults>>

\* A model's digest is final; an extractive one is redone once a model is configured.
Reusable(d) == d.source = "llm" \/ (d.source = "extractive" /\ ~ LLM)

LookUpDigest(s) ==
    LET d == digests[job[s].members]
    IN  /\ job[s].pc = "digest"
        /\ job' = [job EXCEPT ![s] =
                     IF Reusable(d) THEN [@ EXCEPT !.pc = "embed", !.dig = d.of, !.vec = d.vec]
                     ELSE [@ EXCEPT !.pc = "summarise"]]
        /\ UNCHANGED <<builds, created, digests, chunks, shown, reading, faults>>

\* Mutant: an upsert that leaves the vector of the old digest in the row.
UpsertKeepsVec(m, source, of) ==
    digests' = [digests EXCEPT ![m].source = source, ![m].of = of]

\* PutDigest: the upsert overwrites every column, the vector with NULL.
UpsertDigest(m, source, of) ==
    digests' = [digests EXCEPT ![m] = [source |-> source, of |-> of, vec |-> 0]]

\* With a model configured the digest is its own, or - while it is down - extractive.
SummariseRegion(s) ==
    /\ job[s].pc = "summarise"
    /\ \E source \in IF LLM THEN {"llm", "extractive"} ELSE {"extractive"} :
           UpsertDigest(job[s].members, source, job[s].id)
    /\ job' = [job EXCEPT ![s].pc = "embed", ![s].dig = job[s].id, ![s].vec = 0]
    /\ UNCHANGED <<builds, created, chunks, shown, reading, faults>>

\* A digest without a vector is embedded, if the embedder is ready, and its
\* vector stored in the cache row.
EmbedDigests(s) ==
    /\ job[s].pc = "embed"
    /\ \E ready \in BOOLEAN :
           /\ digests' = IF ready /\ job[s].vec = 0
                         THEN [digests EXCEPT ![job[s].members].vec = job[s].dig] ELSE digests
           /\ job' = [job EXCEPT ![s].pc = "regions",
                                 ![s].vec = IF ready THEN job[s].dig ELSE @]
    /\ UNCHANGED <<builds, created, chunks, shown, reading, faults>>

\* One transaction per table; the foreign key refuses rows of a build that is gone.
Insert(s, pc, parts, next) ==
    /\ job[s].pc = pc
    /\ IF builds[job[s].id].status = "none"
       THEN Become(s, "fail") /\ UNCHANGED builds
       ELSE Become(s, next) /\ builds' = [builds EXCEPT ![job[s].id].parts = parts]
    /\ UNCHANGED <<created, digests, chunks, shown, reading, faults>>

InsertRegions(s) == Insert(s, "regions", 2, "links")
InsertLinks(s) == Insert(s, "links", 3, "transcripts")
InsertTranscriptDigests(s) == Insert(s, "transcripts", AllParts, "reload")

\* GetBuild: the header of a build that is gone is ErrNoBuild.
ReloadHeader(s) ==
    /\ job[s].pc = "reload"
    /\ reading[s] = NoBuild
    /\ IF builds[job[s].id].status = "none"
       THEN Become(s, "fail") /\ UNCHANGED reading
       ELSE /\ reading' = [reading EXCEPT ![s] = [id |-> job[s].id, next |-> 0, got |-> 0]]
            /\ UNCHANGED job
    /\ UNCHANGED <<builds, created, digests, chunks, shown, faults>>

Reloaded(s) ==
    /\ job[s].pc = "reload"
    /\ reading[s] # NoBuild /\ reading[s].next = AllParts
    /\ Become(s, "finish")
    /\ UNCHANGED <<builds, created, digests, chunks, shown, reading, faults>>

\* A statement or the embedder fails, or the context is cancelled.
AssembleFails(s) ==
    /\ job[s].pc \in {"digest", "summarise", "embed", "regions", "links", "transcripts", "reload"}
    /\ Fault
    /\ Become(s, "fail")
    /\ reading' = [reading EXCEPT ![s] = NoBuild]
    /\ UNCHANGED <<builds, created, digests, chunks, shown>>

\* Both statements of the failure path ignore their errors.
MarkFailed(s) ==
    /\ job[s].pc = "fail"
    /\ \/ /\ builds' = IF builds[job[s].id].status = "none" THEN builds
                       ELSE [builds EXCEPT ![job[s].id].status = "failed"]
          /\ NoFault
       \/ Fault /\ UNCHANGED builds
    /\ Become(s, "discard")
    /\ UNCHANGED <<created, digests, chunks, shown, reading>>

DeleteBuild(s) ==
    /\ job[s].pc = "discard"
    /\ \/ builds' = [builds EXCEPT ![job[s].id] = NoRow] /\ NoFault
       \/ Fault /\ UNCHANGED builds
    /\ Finished(s)
    /\ UNCHANGED <<created, digests, chunks, shown, reading>>

\* SetBuildStatus ready; no row to update is an error, and nothing is cleaned up.
PublishBuild(s) ==
    /\ job[s].pc = "finish"
    /\ \/ /\ builds[job[s].id].status # "none"
          /\ builds' = [builds EXCEPT ![job[s].id].status = "ready"]
          /\ Become(s, "prune")
          /\ UNCHANGED <<reading, faults>>
       \/ /\ \/ builds[job[s].id].status = "none" /\ NoFault
             \/ Fault
          /\ Finished(s)
          /\ reading' = [reading EXCEPT ![s] = NoBuild]
          /\ UNCHANGED builds
    /\ UNCHANGED <<created, digests, chunks, shown>>

\* PruneExcept, then the swap in memory; when it fails the store has the new
\* build and the session keeps showing the old one.
PruneExcept(s) ==
    /\ job[s].pc = "prune"
    /\ \/ /\ builds' = [b \in BuildId |-> IF b = job[s].id THEN builds[b] ELSE NoRow]
          /\ shown' = [shown EXCEPT ![s] = [id |-> job[s].id, got |-> reading[s].got]]
          /\ NoFault
       \/ Fault /\ UNCHANGED <<builds, shown>>
    /\ Finished(s)
    /\ reading' = [reading EXCEPT ![s] = NoBuild]
    /\ UNCHANGED <<created, digests, chunks>>

BuildStep(s) ==
    \/ TooFewChunks(s)
    \/ CreateBuild(s)
    \/ LookUpDigest(s)
    \/ SummariseRegion(s)
    \/ EmbedDigests(s)
    \/ InsertRegions(s)
    \/ InsertLinks(s)
    \/ InsertTranscriptDigests(s)
    \/ ReloadHeader(s)
    \/ Reloaded(s)
    \/ AssembleFails(s)
    \/ MarkFailed(s)
    \/ DeleteBuild(s)
    \/ PublishBuild(s)
    \/ PruneExcept(s)

ReadStep(s) == ReadBody(s) \/ Swap(s)

\* Ingestion by the writer session embeds one more chunk.
AddChunk ==
    /\ chunks < MaxChunks
    /\ chunks' = chunks + 1
    /\ UNCHANGED <<builds, created, digests, job, shown, reading, faults>>

\* The process of s is gone; the store keeps what was written.
Forget(s) ==
    /\ job' = [job EXCEPT ![s] = Idle]
    /\ shown' = [shown EXCEPT ![s] = NotLoaded]
    /\ reading' = [reading EXCEPT ![s] = NoBuild]
    /\ UNCHANGED <<builds, created, digests, chunks, faults>>
=============================================================================
