------------------------- MODULE SharedCorpusProofs -------------------------
(* What holds of the sessions that share a corpus, for any number of them,    *)
(* of starts, crashes, builds, chunks and failures: OneWriter of the writer   *)
(* lock, and AtlasKept and DigestCache of the store.                          *)
(*                                                                            *)
(* OneWriter alone is not inductive: that a second session does not create    *)
(* the file follows from the file being there as long as there is a writer,   *)
(* and that nobody removes it from a reclaimer being alone while the lock it  *)
(* judged stale is in place.  The claims about the store rest on the lock:    *)
(* StoreSound says how far the one build under way has come.                  *)
EXTENDS SharedCorpus, TLAPS

\* The file is the writer's, or that of the session about to be the writer;
\* and what a session is about to remove is not a live lock.
LockHeld ==
    /\ \A s \in Session : mode[s] = "rw" => lockFile = [by |-> s, pid |-> TRUE]
    /\ \A s \in Session : mode[s] = "writing" => lockFile = [by |-> s, pid |-> FALSE]
    /\ \A s \in Session : mode[s] = "reclaiming" => ~ LiveLock

\* A session that met a lock has a round of its loop left.
RoundsLeft ==
    \A s \in Session : mode[s] \in {"reading", "reclaiming"} => attempt[s] <= Attempts

LockInv ==
    /\ LockTypeOK /\ RoundsLeft
    /\ ~ raced => ~ Contended /\ LockHeld

(* The lock of a session that runs, its pid written, is a live one; a lock    *)
(* without a pid, or of a process that is gone, is not (lock.go pidAlive).    *)
LEMMA LiveOrNot ==
    ASSUME NEW s \in Session \cup {Dead}, NEW b \in BOOLEAN
    PROVE  /\ [by |-> s, pid |-> b] # NoFile
           /\ PidAlive([by |-> s, pid |-> b]) <=> (b /\ s # Dead)
BY LockAssumption DEF PidAlive

(* A program starts without a lock, and with no session under way.            *)
LEMMA LockStarts == LockInit => LockInv
<1> SUFFICES ASSUME LockInit PROVE LockInv
    OBVIOUS
<1>1. mode \in [Session -> Modes] /\ attempt \in [Session -> 1 .. Attempts + 1]
    <2>1. "off" \in Modes /\ 1 \in 1 .. Attempts + 1
        BY DEF Modes, Attempts
    <2> QED BY <2>1 DEF LockInit
<1>a. LockTypeOK /\ RoundsLeft
    BY <1>1 DEF LockInit, LockTypeOK, RoundsLeft
<1>2. ~ Contended /\ LockHeld
    BY DEF LockInit, Contended, LockHeld, AcquiringModes, LiveLock
<1> QED BY <1>a, <1>2 DEF LockInv

(* Every step of every session leaves the variables well typed.               *)
LEMMA LockStaysTyped ==
    LockTypeOK /\ RoundsLeft /\ LockNext => LockTypeOK' /\ RoundsLeft'
<1> SUFFICES ASSUME LockTypeOK, RoundsLeft, NEW s \in Session,
                    Acquire(s) \/ Release(s) \/ Die(s), Observe
             PROVE  LockTypeOK' /\ RoundsLeft'
    BY DEF LockNext
<1> USE DEF LockTypeOK, RoundsLeft, LockInfo, Modes, AcquiringModes, Attempts, Goto
<1>1. raced' \in BOOLEAN
    BY DEF Observe
<1>2. CASE Open(s)
    BY <1>1, <1>2 DEF Open
<1>3. CASE CreateLock(s)
    BY <1>1, <1>3 DEF CreateLock
<1>4. CASE WritePid(s)
    BY <1>1, <1>4 DEF WritePid
<1>5. CASE LockExists(s)
    BY <1>1, <1>5 DEF LockExists
<1>6. CASE GiveUp(s)
    BY <1>1, <1>6 DEF GiveUp
<1>7. CASE ReadLock(s)
    BY <1>1, <1>7 DEF ReadLock
<1>8. CASE ReclaimStale(s)
    BY <1>1, <1>8 DEF ReclaimStale
<1>9. CASE Release(s)
    BY <1>1, <1>9 DEF Release
<1>10. CASE Die(s)
    BY <1>1, <1>10 DEF Die
<1> QED BY <1>2, <1>3, <1>4, <1>5, <1>6, <1>7, <1>8, <1>9, <1>10 DEF Acquire

(* While nobody raced, a session that acquires a lock that is not live is the *)
(* only one to acquire it.                                                    *)
LEMMA Alone ==
    ASSUME ~ Contended, ~ LiveLock, NEW s \in Session, NEW t \in Session,
           mode[s] \in AcquiringModes, mode[t] \in AcquiringModes
    PROVE  s = t
BY DEF Contended

(* While nobody raced, the lock stays with its writer at every step.          *)
LEMMA LockStaysHeld ==
    LockTypeOK /\ ~ Contended /\ LockHeld /\ LockNext => LockHeld'
<1> SUFFICES ASSUME LockTypeOK, ~ Contended, LockHeld, NEW s \in Session,
                    Acquire(s) \/ Release(s) \/ Die(s), NEW t \in Session
             PROVE  /\ mode'[t] = "rw" => lockFile' = [by |-> t, pid |-> TRUE]
                    /\ mode'[t] = "writing" => lockFile' = [by |-> t, pid |-> FALSE]
                    /\ mode'[t] = "reclaiming" => ~ LiveLock'
    BY DEF LockNext, LockHeld
<1> USE DEF LockTypeOK, Modes, AcquiringModes, Goto
<1>a. Dead \notin Session /\ lockFile \in LockInfo \cup {NoFile}
    BY LockAssumption
<1>1. CASE Open(s)
    BY <1>1 DEF Open, LockHeld, LiveLock
<1>2. CASE CreateLock(s)
    <2>1. ~ LiveLock /\ lockFile = NoFile
        BY <1>2 DEF CreateLock, LiveLock
    <2>2. t # s => mode[t] \notin AcquiringModes
        BY <2>1, <1>2, Alone DEF CreateLock
    <2>3. mode[t] # "rw"
        BY <2>1, LiveOrNot DEF LockHeld
    <2> QED BY <1>2, <2>2, <2>3 DEF CreateLock
<1>3. CASE WritePid(s)
    <2>1. lockFile = [by |-> s, pid |-> FALSE]
        BY <1>3 DEF WritePid, LockHeld
    <2>2. ~ LiveLock
        BY <2>1, LiveOrNot DEF LiveLock
    <2>3. t # s => mode[t] \notin AcquiringModes
        BY <2>2, <1>3, Alone DEF WritePid
    <2>4. mode[t] # "rw"
        BY <2>1 DEF LockHeld
    <2> QED BY <1>3, <2>1, <2>3, <2>4 DEF WritePid
<1>4. CASE LockExists(s)
    BY <1>4 DEF LockExists, LockHeld, LiveLock
<1>5. CASE GiveUp(s)
    BY <1>5 DEF GiveUp, LockHeld, LiveLock
<1>6. CASE ReadLock(s)
    BY <1>6 DEF ReadLock, LockHeld, LiveLock
<1>7. CASE ReclaimStale(s)
    <2>1. ~ LiveLock
        BY <1>7 DEF ReclaimStale, LockHeld
    <2>2. t # s => mode[t] \notin AcquiringModes
        BY <2>1, <1>7, Alone DEF ReclaimStale
    <2>3. mode[t] # "rw"
        <3> SUFFICES ASSUME mode[t] = "rw" PROVE FALSE
            OBVIOUS
        <3>1. lockFile = [by |-> t, pid |-> TRUE]
            BY DEF LockHeld
        <3> QED BY <3>1, <2>1, <1>a, LiveOrNot DEF LiveLock
    <2> QED BY <1>7, <2>2, <2>3 DEF ReclaimStale
<1>8. CASE Release(s)
    <2>1. CASE mode[s] = "rw"
        <3>1. lockFile = [by |-> s, pid |-> TRUE] /\ lockFile' = NoFile
            BY <2>1, <1>8 DEF LockHeld, Release
        <3>2. t # s => mode[t] \notin {"rw", "writing"}
            BY <3>1 DEF LockHeld
        <3>3. ~ LiveLock'
            BY <3>1 DEF LiveLock
        <3> QED BY <1>8, <3>2, <3>3 DEF Release
    <2>2. CASE mode[s] = "ro"
        BY <2>2, <1>8 DEF Release, LockHeld, LiveLock
    <2> QED BY <1>8, <2>1, <2>2 DEF Release
<1>9. CASE Die(s)
    <2>1. CASE lockFile # NoFile /\ lockFile.by = s
        <3>1. lockFile'.by = Dead
            BY <2>1, <1>9, <1>a DEF Die, LockInfo
        <3>2. ~ LiveLock'
            BY <3>1 DEF LiveLock, PidAlive
        <3>3. t # s => mode[t] \notin {"rw", "writing"}
            BY <2>1 DEF LockHeld
        <3> QED BY <1>9, <3>2, <3>3 DEF Die
    <2>2. CASE ~ (lockFile # NoFile /\ lockFile.by = s)
        BY <2>2, <1>9 DEF Die, LockHeld, LiveLock
    <2> QED BY <2>1, <2>2
<1> QED BY <1>1, <1>2, <1>3, <1>4, <1>5, <1>6, <1>7, <1>8, <1>9 DEF Acquire

(* The invariant is inductive.                                                *)
LEMMA LockKept == LockInv /\ [LockNext]_lockVars => LockInv'
<1> SUFFICES ASSUME LockInv, [LockNext]_lockVars PROVE LockInv'
    OBVIOUS
<1>1. CASE LockNext
    <2>1. LockTypeOK' /\ RoundsLeft'
        BY <1>1, LockStaysTyped DEF LockInv
    <2>2. ~ raced' => ~ raced /\ ~ Contended'
        BY <1>1 DEF LockNext, Observe
    <2>3. ~ raced' => LockHeld'
        BY <1>1, <2>2, LockStaysHeld DEF LockInv
    <2> QED BY <2>1, <2>2, <2>3 DEF LockInv
<1>2. CASE UNCHANGED lockVars
    BY <1>2 DEF lockVars, LockInv, LockTypeOK, RoundsLeft, Contended, LockHeld, LiveLock
<1> QED BY <1>1, <1>2

(* What the lock is for follows from its invariant.                           *)
LEMMA OneHolder == LockInv => OneWriter
BY DEF LockInv, LockHeld, OneWriter

(* The lock keeps its promise whatever the sessions do besides (lock.go).     *)
THEOREM LockAlone == LockSpec => []OneWriter
<1> QED BY OneHolder, LockStarts, LockKept, PTL DEF LockSpec

-----------------------------------------------------------------------------
(* The atlas of the sessions that share the corpus.  Neither AtlasKept nor    *)
(* DigestCache follows from the state before a step alone: that the build     *)
(* published is whole and the one pruned for is there, that the vector stored *)
(* is of the digest in the row, comes from the builder having done what       *)
(* brought it to this step, and from nobody else writing meanwhile, which is  *)
(* what OneWriter is for.                                                     *)

\* The part of AtlasTypeOK that what is stored depends on.
StoreTyped ==
    /\ builds \in [BuildId -> [status : {"none", "building", "ready", "failed"},
                               parts : 0 .. AllParts]]
    /\ created \in 0 .. MaxBuilds
    /\ digests \in [0 .. MaxChunks -> [source : {"none", "llm", "extractive"},
                                       of : 0 .. MaxBuilds, vec : 0 .. MaxBuilds]]
    /\ chunks \in 0 .. MaxChunks
    /\ job \in [Session -> [pc : BuildPhases \cup {"idle"}, id : 0 .. MaxBuilds,
                            members : 0 .. MaxChunks, dig : 0 .. MaxBuilds, vec : 0 .. MaxBuilds]]

\* Only the holder of the lock has a rebuild under way.
WritersBuild == \A s \in Session : job[s].pc # "idle" => Writer(s)

\* The phases of a build that is not published, and will not be after a failure.
Unpublished == {"digest", "summarise", "embed", "regions", "links", "transcripts",
                "reload", "finish", "fail", "discard"}

BuildSound(s) ==
    /\ job[s].pc \in Unpublished \cup {"prune"} => job[s].id \in 1 .. created
    /\ job[s].pc \in Unpublished => builds[job[s].id].status # "ready"
    /\ job[s].pc \in {"reload", "finish"} => builds[job[s].id].parts = AllParts
    /\ job[s].pc = "prune" => builds[job[s].id].status = "ready"

DigestSound(s) ==
    /\ job[s].pc = "summarise" => digests[job[s].members].source # "llm"
    /\ job[s].pc = "embed" => /\ job[s].dig = digests[job[s].members].of
                              /\ job[s].vec \in {0, job[s].dig}

\* What is ready is whole, and what is to come is not there yet.
BuildsWhole ==
    \A b \in BuildId : /\ builds[b].status = "ready" => builds[b].parts = AllParts
                       /\ b > created => builds[b].status # "ready"

VectorsOfDigests == \A m \in 0 .. MaxChunks : digests[m].vec \in {0, digests[m].of}

StoreSound ==
    /\ BuildsWhole /\ VectorsOfDigests
    /\ \A s \in Session : BuildSound(s) /\ DigestSound(s)

SharedInv ==
    /\ LockInv /\ StoreTyped /\ WritersBuild
    /\ ~ raced => StoreSound

JobRecord == [pc : BuildPhases \cup {"idle"}, id : 0 .. MaxBuilds,
              members : 0 .. MaxChunks, dig : 0 .. MaxBuilds, vec : 0 .. MaxBuilds]

\* The build goes to another phase, and the other sessions' stay where they are.
Moves(s, pc) ==
    /\ job' \in [Session -> JobRecord]
    /\ job'[s].pc = pc /\ job'[s].id = job[s].id /\ job'[s].members = job[s].members
    /\ job'[s].dig = job[s].dig /\ job'[s].vec = job[s].vec
    /\ \A t \in Session \ {s} : job'[t] = job[t]

(* The bounds are natural numbers.                                            *)
LEMMA Bounds == MaxBuilds \in Nat /\ MaxChunks \in Nat
BY AtlasAssumption

(* A rebuild that goes to another phase keeps what it has.                    *)
LEMMA BecomeMoves ==
    ASSUME StoreTyped, NEW s \in Session, NEW pc \in BuildPhases, Become(s, pc)
    PROVE  Moves(s, pc)
BY DEF StoreTyped, Become, Moves, JobRecord

(* A rebuild that ends leaves nothing.                                        *)
LEMMA FinishedIdle ==
    ASSUME StoreTyped, NEW s \in Session, Finished(s)
    PROVE  /\ job' \in [Session -> JobRecord]
           /\ job'[s].pc = "idle"
           /\ \A t \in Session \ {s} : job'[t] = job[t]
<1>1. Idle \in JobRecord
    BY Bounds DEF Idle, JobRecord
<1> QED BY <1>1 DEF StoreTyped, Finished, Idle, JobRecord

(* The phases a step goes through.                                            *)
LEMMA StepMoves ==
    ASSUME StoreTyped, NEW s \in Session
    PROVE  /\ StartRebuild(s) => Moves(s, "corpus")
           /\ Reloaded(s) => Moves(s, "finish")
           /\ AssembleFails(s) => Moves(s, "fail")
           /\ MarkFailed(s) => Moves(s, "discard")
<1>1. {"corpus", "finish", "fail", "discard"} \subseteq BuildPhases
    BY DEF BuildPhases
<1>2. StartRebuild(s) => Moves(s, "corpus")
    BY <1>1, BecomeMoves DEF StartRebuild
<1>3. Reloaded(s) => Moves(s, "finish")
    BY <1>1, BecomeMoves DEF Reloaded
<1>4. AssembleFails(s) => Moves(s, "fail")
    BY <1>1, BecomeMoves DEF AssembleFails
<1>5. MarkFailed(s) => Moves(s, "discard")
    BY <1>1, BecomeMoves DEF MarkFailed
<1> QED BY <1>2, <1>3, <1>4, <1>5

(* Every step of a rebuild is one of these.                                   *)
Inserts(s) == InsertRegions(s) \/ InsertLinks(s) \/ InsertTranscriptDigests(s)

Quick(s) == TooFewChunks(s) \/ ReloadHeader(s) \/ Reloaded(s) \/ AssembleFails(s)

\* What a step of the only writer leaves the store.
Leaves(s) ==
    /\ StoreTyped'
    /\ ~ raced => /\ Ready # {} => Ready' # {}
                  /\ \A m \in 0 .. MaxChunks :
                         digests[m].source = "llm" => digests'[m].source = "llm"
                  /\ BuildsWhole' /\ VectorsOfDigests'
                  /\ BuildSound(s)' /\ DigestSound(s)'

(* Steps that write nothing.                                                  *)
LEMMA QuickLeaves ==
    ASSUME StoreTyped, ~ raced => StoreSound, NEW s \in Session,
           Quick(s) \/ StartRebuild(s)
    PROVE  Leaves(s)
<1>1. UNCHANGED <<builds, created, digests, chunks>>
    BY DEF Quick, TooFewChunks, ReloadHeader, Reloaded, AssembleFails, StartRebuild
<1>2. \/ /\ job' \in [Session -> JobRecord] /\ job'[s].pc = "idle"
      \/ job' = job
      \/ StartRebuild(s) /\ Moves(s, "corpus")
      \/ job[s].pc = "reload" /\ Moves(s, "finish")
      \/ job[s].pc \in Unpublished /\ Moves(s, "fail")
    <2>1. CASE StartRebuild(s)
        BY <2>1, StepMoves
    <2>2. CASE TooFewChunks(s)
        BY <2>2, FinishedIdle DEF TooFewChunks
    <2>3. CASE ReloadHeader(s)
        <3>1. "fail" \in BuildPhases
            BY DEF BuildPhases
        <3> QED BY <2>3, <3>1, BecomeMoves DEF ReloadHeader, Unpublished
    <2>4. CASE Reloaded(s)
        BY <2>4, StepMoves DEF Reloaded
    <2>5. CASE AssembleFails(s)
        BY <2>5, StepMoves DEF AssembleFails, Unpublished
    <2> QED BY <2>1, <2>2, <2>3, <2>4, <2>5 DEF Quick
<1>3. StoreTyped'
    BY <1>1, <1>2 DEF StoreTyped, Moves, JobRecord
<1>4. ASSUME ~ raced PROVE BuildSound(s)' /\ DigestSound(s)'
    <2>1. BuildSound(s) /\ DigestSound(s)
        BY <1>4 DEF StoreSound
    <2> QED BY <1>1, <1>2, <2>1 DEF BuildSound, DigestSound, Moves, Unpublished
<1>5. ASSUME ~ raced PROVE BuildsWhole' /\ VectorsOfDigests' /\ Ready' = Ready
    BY <1>1, <1>5 DEF StoreSound, BuildsWhole, VectorsOfDigests, Ready
<1> QED BY <1>1, <1>3, <1>4, <1>5 DEF Leaves

(* A new build takes a number no build has.                                   *)
LEMMA CreateLeaves ==
    ASSUME StoreTyped, ~ raced => StoreSound, NEW s \in Session, CreateBuild(s)
    PROVE  Leaves(s)
<1> DEFINE b == created + 1
<1>1. /\ created \in 0 .. MaxBuilds /\ created < MaxBuilds /\ chunks \in 0 .. MaxChunks
      /\ created' = b /\ UNCHANGED <<digests, chunks>>
      /\ builds' = [builds EXCEPT ![b] = [status |-> "building", parts |-> 0]]
    BY DEF StoreTyped, CreateBuild
<1>2. b \in BuildId /\ b \in 0 .. MaxBuilds
    BY <1>1, Bounds DEF BuildId
<1>3. /\ job' \in [Session -> JobRecord]
      /\ job'[s].pc = "digest" /\ job'[s].id = b
    BY <1>1, <1>2, Bounds DEF StoreTyped, CreateBuild, JobRecord, BuildPhases
<1>4. StoreTyped'
    BY <1>1, <1>2, <1>3 DEF StoreTyped, JobRecord, AllParts
<1>5. /\ builds'[b].status = "building"
      /\ \A c \in BuildId \ {b} : builds'[c] = builds[c]
    BY <1>1, <1>2 DEF StoreTyped
<1>6. ASSUME ~ raced PROVE /\ Ready' = Ready
                           /\ BuildsWhole' /\ VectorsOfDigests'
                           /\ BuildSound(s)' /\ DigestSound(s)'
    <2>1. BuildsWhole /\ VectorsOfDigests
        BY <1>6 DEF StoreSound
    <2>2. builds[b].status # "ready"
        BY <1>1, <1>2, <2>1 DEF BuildsWhole
    <2>3. Ready' = Ready
        BY <1>5, <2>2 DEF Ready
    <2>4. BuildsWhole'
        <3>1. \A c \in BuildId : c > created' => c > created
            BY <1>1, <1>2 DEF BuildId
        <3> QED BY <1>5, <2>1, <3>1 DEF BuildsWhole
    <2>5. BuildSound(s)'
        BY <1>1, <1>2, <1>3, <1>5 DEF BuildSound
    <2>6. VectorsOfDigests' /\ DigestSound(s)'
        BY <1>1, <1>3, <2>1 DEF VectorsOfDigests, DigestSound
    <2> QED BY <2>1, <2>3, <2>4, <2>5, <2>6
<1> QED BY <1>1, <1>4, <1>6 DEF Leaves

(* The digest is taken from the cache or redone, and its vector is stored     *)
(* beside it.                                                                 *)
LEMMA DigestLeaves ==
    ASSUME StoreTyped, ~ raced => StoreSound, NEW s \in Session,
           LookUpDigest(s) \/ SummariseRegion(s) \/ EmbedDigests(s)
    PROVE  Leaves(s)
<1> DEFINE m == job[s].members
           d == digests[m]
<1>1. /\ m \in 0 .. MaxChunks /\ job[s] \in JobRecord
      /\ d \in [source : {"none", "llm", "extractive"}, of : 0 .. MaxBuilds, vec : 0 .. MaxBuilds]
      /\ job[s].id \in 0 .. MaxBuilds /\ 0 \in 0 .. MaxBuilds
    BY Bounds DEF StoreTyped, JobRecord
<1>2. UNCHANGED <<builds, created, chunks>>
    BY DEF LookUpDigest, SummariseRegion, EmbedDigests
<1>3. ~ raced => /\ BuildSound(s) /\ DigestSound(s) /\ BuildsWhole /\ VectorsOfDigests
    BY DEF StoreSound
<1>4. /\ BuildsWhole => BuildsWhole'
      /\ Ready' = Ready
    BY <1>2 DEF BuildsWhole, Ready
<1>5. CASE LookUpDigest(s)
    <2>1. job[s].pc = "digest" /\ digests' = digests
        BY <1>5 DEF LookUpDigest
    <2>2. \/ /\ Reusable(d)
             /\ job' = [job EXCEPT ![s] = [job[s] EXCEPT !.pc = "embed", !.dig = d.of, !.vec = d.vec]]
          \/ /\ ~ Reusable(d)
             /\ job' = [job EXCEPT ![s] = [job[s] EXCEPT !.pc = "summarise"]]
        BY <1>5 DEF LookUpDigest, StoreTyped
    <2>3. /\ job' \in [Session -> JobRecord] /\ job'[s].id = job[s].id /\ job'[s].members = m
          /\ \/ Reusable(d) /\ job'[s].pc = "embed" /\ job'[s].dig = d.of /\ job'[s].vec = d.vec
             \/ ~ Reusable(d) /\ job'[s].pc = "summarise"
        <3>1. CASE Reusable(d)
            <4>1. d.of \in 0 .. MaxBuilds /\ d.vec \in 0 .. MaxBuilds
                BY <1>1
            <4>2. job' = [job EXCEPT ![s] = [job[s] EXCEPT !.pc = "embed", !.dig = d.of, !.vec = d.vec]]
                BY <2>2, <3>1
            <4> HIDE DEF d
            <4> QED BY <1>1, <3>1, <4>1, <4>2 DEF StoreTyped, JobRecord, BuildPhases
        <3>2. CASE ~ Reusable(d)
            <4>1. job' = [job EXCEPT ![s] = [job[s] EXCEPT !.pc = "summarise"]]
                BY <2>2, <3>2
            <4> QED BY <1>1, <3>2, <4>1 DEF StoreTyped, JobRecord, BuildPhases
        <3> QED BY <3>1, <3>2
    <2>4. StoreTyped'
        BY <1>2, <2>1, <2>3 DEF StoreTyped, JobRecord
    <2>5. ASSUME ~ raced PROVE BuildSound(s)' /\ DigestSound(s)' /\ VectorsOfDigests'
        <3>1. d.vec \in {0, d.of}
            BY <1>1, <1>3, <2>5 DEF VectorsOfDigests
        <3>2. DigestSound(s)'
            BY <2>1, <2>3, <3>1 DEF DigestSound, Reusable
        <3>3. BuildSound(s)'
            BY <1>2, <1>3, <2>1, <2>3, <2>5 DEF BuildSound, Unpublished
        <3> QED BY <1>3, <2>1, <2>5, <3>2, <3>3 DEF VectorsOfDigests
    <2> QED BY <1>3, <1>4, <2>1, <2>4, <2>5 DEF Leaves
<1>6. CASE SummariseRegion(s)
    <2>1. PICK source \in {"llm", "extractive"} :
              digests' = [digests EXCEPT ![m] = [source |-> source, of |-> job[s].id, vec |-> 0]]
        BY <1>6 DEF SummariseRegion, UpsertDigest
    <2>2. job[s].pc = "summarise"
          /\ job' = [job EXCEPT ![s].pc = "embed", ![s].dig = job[s].id, ![s].vec = 0]
        BY <1>6 DEF SummariseRegion
    <2>3. /\ job' \in [Session -> JobRecord]
          /\ job'[s].pc = "embed" /\ job'[s].id = job[s].id /\ job'[s].members = m
          /\ job'[s].dig = job[s].id /\ job'[s].vec = 0
        BY <1>1, <2>2 DEF StoreTyped, JobRecord, BuildPhases
    <2>4. /\ digests'[m].source = source /\ digests'[m].of = job[s].id /\ digests'[m].vec = 0
          /\ \A n \in 0 .. MaxChunks : n # m => digests'[n] = digests[n]
        BY <1>1, <2>1 DEF StoreTyped
    <2>5. StoreTyped'
        BY <1>1, <1>2, <2>1, <2>3 DEF StoreTyped, JobRecord
    <2>6. ASSUME ~ raced
          PROVE  /\ BuildSound(s)' /\ DigestSound(s)' /\ VectorsOfDigests'
                 /\ d.source # "llm"
        <3>1. DigestSound(s)'
            BY <2>3, <2>4 DEF DigestSound
        <3>2. BuildSound(s)'
            BY <1>2, <1>3, <2>2, <2>3, <2>6 DEF BuildSound, Unpublished
        <3>3. VectorsOfDigests'
            BY <1>3, <2>4, <2>6 DEF VectorsOfDigests
        <3>4. d.source # "llm"
            BY <1>3, <2>2, <2>6 DEF DigestSound
        <3> QED BY <3>1, <3>2, <3>3, <3>4
    <2> QED BY <1>3, <1>4, <2>4, <2>5, <2>6 DEF Leaves
<1>7. CASE EmbedDigests(s)
    <2>1. PICK ready \in BOOLEAN :
              /\ digests' = IF ready /\ job[s].vec = 0
                            THEN [digests EXCEPT ![m].vec = job[s].dig] ELSE digests
              /\ job' = [job EXCEPT ![s].pc = "regions",
                                    ![s].vec = IF ready THEN job[s].dig ELSE @]
        BY <1>7 DEF EmbedDigests
    <2>2. job[s].pc = "embed"
        BY <1>7 DEF EmbedDigests
    <2>3. /\ job' \in [Session -> JobRecord]
          /\ job'[s].pc = "regions" /\ job'[s].id = job[s].id
        BY <1>1, <2>1 DEF StoreTyped, JobRecord, BuildPhases
    <2>4. job[s].dig \in 0 .. MaxBuilds
        BY <1>1 DEF JobRecord
    <2>5. /\ \A n \in 0 .. MaxChunks : digests'[n].source = digests[n].source
          /\ digests'[m].of = d.of /\ digests'[m].vec \in {d.vec, job[s].dig}
          /\ \A n \in 0 .. MaxChunks : n # m => digests'[n] = digests[n]
        BY <1>1, <2>1 DEF StoreTyped
    <2>6. StoreTyped'
        <3>1. digests' \in [0 .. MaxChunks -> [source : {"none", "llm", "extractive"},
                                               of : 0 .. MaxBuilds, vec : 0 .. MaxBuilds]]
            BY <1>1, <2>1, <2>4 DEF StoreTyped
        <3> QED BY <1>2, <2>3, <3>1 DEF StoreTyped, JobRecord
    <2>7. ASSUME ~ raced PROVE BuildSound(s)' /\ DigestSound(s)' /\ VectorsOfDigests'
        <3>1. job[s].dig = d.of
            BY <1>3, <2>2, <2>7 DEF DigestSound
        <3>2. DigestSound(s)'
            BY <2>3 DEF DigestSound
        <3>3. BuildSound(s)'
            BY <1>2, <1>3, <2>2, <2>3, <2>7 DEF BuildSound, Unpublished
        <3>4. VectorsOfDigests'
            BY <1>1, <1>3, <2>5, <2>7, <3>1 DEF VectorsOfDigests
        <3> QED BY <3>2, <3>3, <3>4
    <2> QED BY <1>3, <1>4, <2>5, <2>6, <2>7 DEF Leaves
<1> QED BY <1>5, <1>6, <1>7

(* A change of one build's row.                                               *)
Alters(b) ==
    /\ UNCHANGED <<created, digests, chunks>>
    /\ builds' \in [BuildId -> [status : {"none", "building", "ready", "failed"},
                                parts : 0 .. AllParts]]
    /\ \A c \in BuildId \ {b} : builds'[c] = builds[c]

(* As long as the row of an unpublished build does not become ready, nothing  *)
(* that is ready changes.                                                     *)
LEMMA AltersUnpublished ==
    ASSUME StoreTyped, NEW b, Alters(b),
           b \in BuildId => builds[b].status # "ready" /\ builds'[b].status # "ready"
    PROVE  /\ Ready' = Ready
           /\ BuildsWhole => BuildsWhole'
           /\ VectorsOfDigests => VectorsOfDigests'
<1>1. \A c \in BuildId : builds'[c] = builds[c] \/ (c = b /\ builds'[c].status # "ready")
    BY DEF Alters
<1>2. Ready' = Ready
    BY <1>1 DEF Ready
<1>3. BuildsWhole => BuildsWhole'
    BY <1>1 DEF BuildsWhole, Alters
<1>4. VectorsOfDigests => VectorsOfDigests'
    BY DEF VectorsOfDigests, Alters
<1> QED BY <1>2, <1>3, <1>4

(* The body of a build is written while it is not ready.                      *)
LEMMA InsertLeaves ==
    ASSUME StoreTyped, ~ raced => StoreSound, NEW s \in Session, Inserts(s)
    PROVE  Leaves(s)
<1> DEFINE b == job[s].id
<1>1. PICK pc \in {"regions", "links", "transcripts"}, parts \in 0 .. AllParts,
           next \in {"links", "transcripts", "reload"} :
          /\ Insert(s, pc, parts, next)
          /\ next = "reload" => parts = AllParts
    BY DEF Inserts, InsertRegions, InsertLinks, InsertTranscriptDigests, AllParts
<1>2. job[s].pc = pc /\ UNCHANGED <<created, digests, chunks>>
    BY <1>1 DEF Insert
<1>3. ~ raced => /\ BuildSound(s) /\ BuildsWhole /\ VectorsOfDigests
                 /\ b \in BuildId /\ builds[b].status # "ready"
    <2>1. ~ raced => BuildSound(s) /\ BuildsWhole /\ VectorsOfDigests
        BY DEF StoreSound
    <2>2. created \in 0 .. MaxBuilds
        BY DEF StoreTyped
    <2> QED BY <1>2, <2>1, <2>2, Bounds DEF BuildSound, Unpublished, BuildId
<1>4. CASE Become(s, "fail") /\ UNCHANGED builds
    <2>1. Moves(s, "fail")
        BY <1>4, BecomeMoves DEF BuildPhases
    <2>2. StoreTyped'
        BY <1>2, <1>4, <2>1 DEF StoreTyped, Moves, JobRecord
    <2>3. ASSUME ~ raced PROVE BuildSound(s)' /\ DigestSound(s)'
        BY <1>2, <1>3, <1>4, <2>1, <2>3 DEF BuildSound, DigestSound, Moves, Unpublished
    <2>4. Ready' = Ready /\ (BuildsWhole => BuildsWhole')
          /\ (VectorsOfDigests => VectorsOfDigests')
        BY <1>2, <1>4 DEF Ready, BuildsWhole, VectorsOfDigests
    <2> QED BY <1>2, <1>3, <2>2, <2>3, <2>4 DEF Leaves
<1>5. CASE Become(s, next) /\ builds' = [builds EXCEPT ![b].parts = parts]
    <2>1. Moves(s, next)
        BY <1>5, BecomeMoves DEF BuildPhases
    <2>2. /\ Alters(b)
          /\ b \in BuildId => builds'[b].status = builds[b].status /\ builds'[b].parts = parts
        BY <1>2, <1>5 DEF StoreTyped, Alters
    <2>3. StoreTyped'
        BY <1>2, <2>1, <2>2 DEF StoreTyped, Moves, JobRecord, Alters
    <2>4. ASSUME ~ raced PROVE BuildSound(s)' /\ DigestSound(s)'
        <3>1. b \in 1 .. created
            BY <1>2, <1>3, <2>4 DEF BuildSound, Unpublished
        <3> QED BY <1>1, <1>2, <1>3, <2>1, <2>2, <2>4, <3>1
                DEF BuildSound, DigestSound, Moves, Unpublished
    <2> QED BY <1>2, <1>3, <2>2, <2>3, <2>4, AltersUnpublished DEF Leaves
<1> QED BY <1>1, <1>4, <1>5 DEF Insert

(* A failed build is marked and deleted, both of which may fail.              *)
LEMMA FailureLeaves ==
    ASSUME StoreTyped, ~ raced => StoreSound, NEW s \in Session,
           MarkFailed(s) \/ DeleteBuild(s)
    PROVE  Leaves(s)
<1> DEFINE b == job[s].id
<1>1. /\ job[s].pc \in {"fail", "discard"} /\ UNCHANGED <<created, digests, chunks>>
      /\ \/ builds' = builds
         \/ builds' = [builds EXCEPT ![b].status = "failed"]
         \/ builds' = [builds EXCEPT ![b] = NoRow]
    BY DEF MarkFailed, DeleteBuild
<1>2. ~ raced => /\ BuildSound(s) /\ BuildsWhole /\ VectorsOfDigests
                 /\ b \in BuildId /\ builds[b].status # "ready"
    <2>1. ~ raced => BuildSound(s) /\ BuildsWhole /\ VectorsOfDigests
        BY DEF StoreSound
    <2>2. created \in 0 .. MaxBuilds
        BY DEF StoreTyped
    <2> QED BY <1>1, <2>1, <2>2, Bounds DEF BuildSound, Unpublished, BuildId
<1>3. /\ Alters(b)
      /\ b \in BuildId => builds'[b].status \in {builds[b].status, "failed", "none"}
    BY <1>1 DEF StoreTyped, Alters, NoRow, AllParts
<1>4. Moves(s, "discard") \/ (job' \in [Session -> JobRecord] /\ job'[s].pc = "idle")
    BY StepMoves, FinishedIdle DEF DeleteBuild
<1>5. StoreTyped'
    BY <1>1, <1>3, <1>4 DEF StoreTyped, Moves, JobRecord, Alters
<1>6. ASSUME ~ raced PROVE BuildSound(s)' /\ DigestSound(s)'
    BY <1>1, <1>2, <1>3, <1>4, <1>6 DEF BuildSound, DigestSound, Moves, Unpublished
<1> QED BY <1>1, <1>2, <1>3, <1>5, <1>6, AltersUnpublished DEF Leaves

(* A whole build becomes ready, and only then the others go.                  *)
LEMMA PublishLeaves ==
    ASSUME StoreTyped, ~ raced => StoreSound, NEW s \in Session,
           PublishBuild(s) \/ PruneExcept(s)
    PROVE  Leaves(s)
<1> DEFINE b == job[s].id
<1>1. UNCHANGED <<created, digests, chunks>> /\ job[s].pc \in {"finish", "prune"}
    BY DEF PublishBuild, PruneExcept
<1>2. ~ raced => /\ BuildSound(s) /\ BuildsWhole /\ VectorsOfDigests
                 /\ b \in BuildId /\ b <= created
    <2>1. ~ raced => BuildSound(s) /\ BuildsWhole /\ VectorsOfDigests
        BY DEF StoreSound
    <2>2. created \in 0 .. MaxBuilds
        BY DEF StoreTyped
    <2> QED BY <1>1, <2>1, <2>2, Bounds DEF BuildSound, Unpublished, BuildId
<1>3. VectorsOfDigests => VectorsOfDigests'
    BY <1>1 DEF VectorsOfDigests
<1>4. CASE UNCHANGED builds /\ Finished(s)
    <2>1. job' \in [Session -> JobRecord] /\ job'[s].pc = "idle"
        BY <1>4, FinishedIdle
    <2>2. StoreTyped'
        BY <1>1, <1>4, <2>1 DEF StoreTyped, JobRecord
    <2>3. BuildSound(s)' /\ DigestSound(s)'
        BY <2>1 DEF BuildSound, DigestSound, Unpublished
    <2>4. Ready' = Ready /\ (BuildsWhole => BuildsWhole')
        BY <1>1, <1>4 DEF Ready, BuildsWhole
    <2> QED BY <1>1, <1>2, <1>3, <2>2, <2>3, <2>4 DEF Leaves
<1>5. CASE /\ job[s].pc = "finish" /\ Become(s, "prune")
           /\ builds' = [builds EXCEPT ![b].status = "ready"]
    <2>1. Moves(s, "prune")
        BY <1>5, BecomeMoves DEF BuildPhases
    <2>2. /\ Alters(b)
          /\ b \in BuildId => builds'[b].status = "ready" /\ builds'[b].parts = builds[b].parts
        <3>1. builds \in [BuildId -> [status : {"none", "building", "ready", "failed"},
                                      parts : 0 .. AllParts]]
            BY DEF StoreTyped
        <3>2. builds' = [builds EXCEPT ![b].status = "ready"]
            BY <1>5
        <3>3. \A c \in BuildId : c # b => builds'[c] = builds[c]
            BY <3>1, <3>2
        <3>4. b \in BuildId => builds'[b] = [builds[b] EXCEPT !.status = "ready"]
            BY <3>1, <3>2
        <3>5. b \in BuildId => /\ builds'[b].status = "ready"
                              /\ builds'[b].parts = builds[b].parts
                              /\ builds'[b] \in [status : {"none", "building", "ready", "failed"},
                                                 parts : 0 .. AllParts]
            BY <3>1, <3>4
        <3>6. DOMAIN builds' = BuildId /\ builds' = [c \in BuildId |-> builds'[c]]
            BY <3>1, <3>2
        <3>7. \A c \in BuildId : builds'[c] \in [status : {"none", "building", "ready", "failed"},
                                                 parts : 0 .. AllParts]
            BY <3>1, <3>3, <3>5
        <3> HIDE DEF b
        <3>8. builds' \in [BuildId -> [status : {"none", "building", "ready", "failed"},
                                       parts : 0 .. AllParts]]
            BY <3>6, <3>7
        <3> QED BY <1>1, <3>3, <3>5, <3>8 DEF Alters
    <2>3. StoreTyped'
        BY <1>1, <2>1, <2>2 DEF StoreTyped, Moves, JobRecord, Alters
    <2>4. ASSUME ~ raced
          PROVE  Ready' # {} /\ BuildsWhole' /\ BuildSound(s)' /\ DigestSound(s)'
        <3>1. b \in 1 .. created /\ builds[b].parts = AllParts
            BY <1>2, <1>5, <2>4 DEF BuildSound, Unpublished
        <3>2. Ready' # {}
            BY <1>2, <2>2, <2>4 DEF Ready
        <3>3. created \in Nat /\ BuildId \subseteq Nat
            BY DEF StoreTyped, BuildId
        <3>4. BuildsWhole'
            <4>1. ASSUME NEW c \in BuildId
                  PROVE  /\ builds'[c].status = "ready" => builds'[c].parts = AllParts
                         /\ c > created' => builds'[c].status # "ready"
                <5>1. CASE c = b
                    BY <1>1, <1>2, <2>2, <2>4, <3>1, <3>3, <5>1
                <5>2. CASE c # b
                    BY <1>1, <1>2, <2>2, <2>4, <5>2 DEF Alters, BuildsWhole
                <5> QED BY <5>1, <5>2
            <4> QED BY <4>1 DEF BuildsWhole
        <3>5. BuildSound(s)' /\ DigestSound(s)'
            BY <1>1, <1>2, <2>1, <2>2, <2>4, <3>1 DEF BuildSound, DigestSound, Moves, Unpublished
        <3> QED BY <3>2, <3>4, <3>5
    <2> QED BY <1>1, <1>2, <1>3, <2>3, <2>4 DEF Leaves
<1>6. CASE /\ job[s].pc = "prune" /\ Finished(s)
           /\ builds' = [c \in BuildId |-> IF c = b THEN builds[c] ELSE NoRow]
    <2>1. job' \in [Session -> JobRecord] /\ job'[s].pc = "idle"
        BY <1>6, FinishedIdle
    <2>2. NoRow \in [status : {"none", "building", "ready", "failed"}, parts : 0 .. AllParts]
          /\ NoRow.status = "none"
        BY DEF NoRow, AllParts
    <2>3. StoreTyped'
        BY <1>1, <1>6, <2>1, <2>2 DEF StoreTyped, JobRecord
    <2>4. BuildSound(s)' /\ DigestSound(s)'
        BY <2>1 DEF BuildSound, DigestSound, Unpublished
    <2>5. ASSUME ~ raced PROVE Ready' # {} /\ BuildsWhole'
        <3>1. builds[b].status = "ready"
            BY <1>2, <1>6, <2>5 DEF BuildSound
        <3>2. b \in Ready'
            BY <1>2, <1>6, <2>5, <3>1 DEF Ready
        <3>3. BuildsWhole'
            BY <1>1, <1>2, <1>6, <2>2, <2>5 DEF BuildsWhole
        <3> QED BY <3>2, <3>3
    <2> QED BY <1>1, <1>2, <1>3, <2>3, <2>4, <2>5 DEF Leaves
<1> QED BY <1>4, <1>5, <1>6 DEF PublishBuild, PruneExcept

(* What a step of a rebuild leaves.                                           *)
LEMMA BuildLeaves ==
    ASSUME StoreTyped, ~ raced => StoreSound, NEW s \in Session,
           StartRebuild(s) \/ BuildStep(s)
    PROVE  Leaves(s)
BY QuickLeaves, CreateLeaves, DigestLeaves, InsertLeaves, FailureLeaves, PublishLeaves
   DEF BuildStep, Quick, Inserts

(* A rebuild moves no other session's.                                        *)
LEMMA BuildAlone ==
    ASSUME StoreTyped, NEW s \in Session, StartRebuild(s) \/ BuildStep(s)
    PROVE  \A t \in Session \ {s} : job'[t] = job[t]
BY DEF StoreTyped, StartRebuild, BuildStep, TooFewChunks, CreateBuild, LookUpDigest,
   SummariseRegion, EmbedDigests, InsertRegions, InsertLinks, InsertTranscriptDigests,
   Insert, ReloadHeader, Reloaded, AssembleFails, MarkFailed, DeleteBuild, PublishBuild,
   PruneExcept, Become, Finished

\* The steps on the store, and all others.
Passive == UNCHANGED <<builds, created, digests, job>> /\ chunks' \in {chunks, chunks + 1}
           /\ chunks' \in 0 .. MaxChunks

(* What each step does to lock and store.                                     *)
LEMMA StepsOfNext ==
    ASSUME StoreTyped, [Next]_vars
    PROVE  /\ [LockNext]_lockVars
           /\ \/ \E s \in Session : Rebuild(s)
              \/ \E s \in Session : (Release(s) \/ Die(s)) /\ Forget(s)
              \/ Passive /\ ((\E s \in Session : Acquire(s)) \/ UNCHANGED lockVars)
<1>1. chunks \in 0 .. MaxChunks /\ MaxChunks \in Nat
    BY Bounds DEF StoreTyped
<1>2. ASSUME NEW s \in Session, StartAtlas(s) \/ PollStatus(s) \/ ReadAtlas(s)
      PROVE  UNCHANGED lockVars /\ Passive
    BY <1>1, <1>2 DEF StartAtlas, PollStatus, ReadAtlas, LoadNothing, LoadCurrent, LoadHeader,
       Refresh, ReadStep, ReadBody, Swap, Passive
<1>3. ASSUME NEW s \in Session, Locking(s)
      PROVE  LockNext /\ Passive /\ Acquire(s)
    BY <1>1, <1>3 DEF Locking, LockNext, Passive, atlasVars
<1>4. ASSUME NEW s \in Session, Stop(s)
      PROVE  LockNext /\ (Release(s) \/ Die(s)) /\ Forget(s)
    BY <1>4 DEF Stop, LockNext
<1>5. ASSUME Ingest PROVE UNCHANGED lockVars /\ Passive
    BY <1>1, <1>5 DEF Ingest, AddChunk, Passive
<1>6. ASSUME UNCHANGED vars PROVE UNCHANGED lockVars /\ Passive
    BY <1>1, <1>6 DEF vars, atlasVars, Passive
<1>7. ASSUME NEW s \in Session, Rebuild(s) PROVE UNCHANGED lockVars
    BY <1>7 DEF Rebuild
<1> QED BY <1>2, <1>3, <1>4, <1>5, <1>6, <1>7 DEF Next

\* What both properties say of a step.
StepSound ==
    ~ raced' => /\ StoreSound'
                /\ Ready # {} => Ready' # {}
                /\ \A m \in 0 .. MaxChunks :
                       digests[m].source = "llm" => digests'[m].source = "llm"

(* The invariant is inductive, and steps that keep it lose no atlas and       *)
(* replace no digest of the model.                                            *)
LEMMA SharedKept ==
    ASSUME SharedInv, [Next]_vars
    PROVE  SharedInv' /\ StepSound
<1>1. StoreTyped /\ WritersBuild /\ LockInv /\ LockInv' /\ (~ raced => StoreSound)
    BY LockKept, StepsOfNext DEF SharedInv
<1>2. ~ raced' => ~ raced
    BY StepsOfNext, <1>1 DEF LockNext, Observe, lockVars
<1>3. mode \in [Session -> Modes]
    BY <1>1 DEF LockInv, LockTypeOK
<1>4. ASSUME NEW s \in Session, Rebuild(s)
      PROVE  StoreTyped' /\ WritersBuild' /\ StepSound
    <2>1. Writer(s) /\ (StartRebuild(s) \/ BuildStep(s)) /\ UNCHANGED lockVars
        BY <1>4 DEF Rebuild
    <2>2. /\ Leaves(s)
          /\ \A t \in Session \ {s} : job'[t] = job[t]
        BY <1>1, <2>1, BuildLeaves, BuildAlone
    <2>3. WritersBuild'
        BY <1>1, <2>1, <2>2 DEF WritersBuild, Writer, lockVars
    <2>4. ASSUME ~ raced', NEW t \in Session \ {s}
          PROVE  BuildSound(t)' /\ DigestSound(t)'
        <3>1. LockHeld
            BY <1>1, <1>2, <2>4 DEF LockInv
        <3>2. mode[t] # "rw"
            BY <2>1, <3>1 DEF LockHeld, Writer
        <3>3. job'[t].pc = "idle"
            BY <1>1, <2>2, <3>2 DEF WritersBuild, Writer
        <3> QED BY <3>3 DEF BuildSound, DigestSound, Unpublished
    <2>5. StepSound
        BY <1>2, <2>2, <2>4 DEF StepSound, StoreSound, Leaves
    <2> QED BY <2>2, <2>3, <2>5 DEF Leaves
<1>5. ASSUME NEW s \in Session, Release(s) \/ Die(s), Forget(s)
      PROVE  StoreTyped' /\ WritersBuild' /\ StepSound
    <2>1. UNCHANGED <<builds, created, digests, chunks>> /\ Finished(s)
        BY <1>5 DEF Forget, Finished
    <2>2. /\ job' \in [Session -> JobRecord] /\ job'[s].pc = "idle"
          /\ \A t \in Session \ {s} : job'[t] = job[t]
        BY <1>1, <2>1, FinishedIdle
    <2>3. \A t \in Session \ {s} : mode'[t] = mode[t]
        BY <1>3, <1>5 DEF Release, Die, Goto
    <2>4. StoreTyped'
        BY <1>1, <2>1, <2>2 DEF StoreTyped, JobRecord
    <2>5. WritersBuild'
        BY <1>1, <2>2, <2>3 DEF WritersBuild, Writer
    <2>6. ASSUME ~ raced', NEW t \in Session
          PROVE  BuildSound(t)' /\ DigestSound(t)'
        <3>1. BuildSound(t) /\ DigestSound(t)
            BY <1>1, <1>2, <2>6 DEF StoreSound
        <3>2. CASE t = s
            BY <2>2, <3>2 DEF BuildSound, DigestSound, Unpublished
        <3>3. CASE t # s
            BY <2>1, <2>2, <3>1, <3>3 DEF BuildSound, DigestSound
        <3> QED BY <3>2, <3>3
    <2>7. ~ raced' => BuildsWhole' /\ VectorsOfDigests'
        BY <1>1, <1>2, <2>1 DEF StoreSound, BuildsWhole, VectorsOfDigests
    <2>8. StepSound
        BY <2>1, <2>6, <2>7 DEF StepSound, StoreSound, Ready
    <2> QED BY <2>4, <2>5, <2>8
<1>6. ASSUME Passive, (\E s \in Session : Acquire(s)) \/ UNCHANGED lockVars
      PROVE  StoreTyped' /\ WritersBuild' /\ StepSound
    <2>1. \A s \in Session : Writer(s) => Writer(s)'
        BY <1>3, <1>6 DEF Acquire, Open, CreateLock, WritePid, LockExists, GiveUp, ReadLock,
           ReclaimStale, Goto, Writer, lockVars
    <2>2. StoreTyped'
        BY <1>1, <1>6 DEF Passive, StoreTyped
    <2>3. WritersBuild'
        BY <1>1, <1>6, <2>1 DEF WritersBuild, Passive
    <2>4. ~ raced' => StoreSound'
        BY <1>1, <1>2, <1>6 DEF Passive, StoreSound, BuildsWhole, VectorsOfDigests, BuildSound,
           DigestSound
    <2>5. StepSound
        BY <1>6, <2>4 DEF Passive, StepSound, Ready
    <2> QED BY <2>2, <2>3, <2>5
<1> QED BY <1>1, <1>4, <1>5, <1>6, StepsOfNext DEF SharedInv, StepSound

(* A new corpus has no atlas.                                                 *)
LEMMA SharedStarts ==
    ASSUME Init
    PROVE  SharedInv
<1> USE Bounds DEF Init, AtlasInit
<1>1. /\ \A s \in Session : job[s].pc = "idle"
      /\ \A b \in BuildId : builds[b].status = "none"
      /\ \A m \in 0 .. MaxChunks : digests[m].vec = 0
    BY DEF Idle, NoRow, NoDigest
<1>2. StoreTyped
    BY DEF StoreTyped, Idle, NoRow, NoDigest, BuildPhases, AllParts
<1>3. WritersBuild
    BY <1>1 DEF WritersBuild
<1>4. StoreSound
    BY <1>1 DEF StoreSound, BuildsWhole, VectorsOfDigests, BuildSound, DigestSound, Unpublished
<1> QED BY <1>2, <1>3, <1>4, LockStarts DEF SharedInv

(* The inductive invariant of lock and store.                                 *)
LEMMA SharedInvariant == Spec => []SharedInv
<1>1. Init => SharedInv
    BY SharedStarts
<1>2. SharedInv /\ [Next]_vars => SharedInv'
    BY SharedKept
<1> QED BY <1>1, <1>2, PTL DEF Spec

(* One writer at a time, for every number of sessions and of starts, through  *)
(* stale locks, failed starts and crashes at every step, unless two sessions  *)
(* were acquiring the lock while no live one was in place (lock.go).          *)
THEOREM WriterAlone == Spec => []OneWriter
<1>1. SharedInv => OneWriter
    BY OneHolder DEF SharedInv
<1> QED BY <1>1, SharedInvariant, PTL

(* As long as no two sessions raced for the lock, the corpus never loses its  *)
(* atlas: once there is a ready build there is one after every step, and what *)
(* is ready has its whole body, whatever fails, dies or is replaced.          *)
THEOREM AtlasStays == Spec => AtlasKept
<1>1. ASSUME SharedInv, [Next]_vars
      PROVE  ~ raced' => /\ Ready # {} => Ready' # {}
                         /\ \A b \in Ready' : builds'[b].parts = AllParts
    <2>1. StepSound
        BY <1>1, SharedKept
    <2> QED BY <2>1 DEF StepSound, StoreSound, BuildsWhole, Ready
<1> QED BY <1>1, SharedInvariant, PTL DEF Spec, AtlasKept

(* As long as no two sessions raced for the lock, a digest of the model is    *)
(* never replaced by a provisional one, and a stored vector is that of the    *)
(* digest it is stored with.                                                  *)
THEOREM DigestsStay == Spec => DigestCache
<1>1. ASSUME SharedInv, [Next]_vars
      PROVE  ~ raced' => \A m \in 0 .. MaxChunks :
                 /\ digests[m].source = "llm" => digests'[m].source = "llm"
                 /\ digests'[m].vec \in {0, digests'[m].of}
    <2>1. StepSound
        BY <1>1, SharedKept
    <2> QED BY <2>1 DEF StepSound, StoreSound, VectorsOfDigests
<1> QED BY <1>1, SharedInvariant, PTL DEF Spec, DigestCache
=============================================================================
