---------------------------- MODULE SharedCorpus ----------------------------
(***************************************************************************)
(* Several sessions (one process per project) on one corpus: each takes or *)
(* misses the writer lock as it starts (CorpusLock), loads the atlas, and  *)
(* then the writer rebuilds it while the others follow (Atlas).  This is   *)
(* how cmd/shuttle/main.go puts the two together: Service.ReadOnly is the  *)
(* result of the lock, for as long as the process lives.                   *)
(***************************************************************************)
EXTENDS CorpusLock, Atlas

vars == <<lockVars, atlasVars>>

Init == LockInit /\ AtlasInit

Writer(s) == mode[s] = "rw"
Reader(s) == mode[s] = "ro"

Locking(s) == Acquire(s) /\ Observe /\ UNCHANGED atlasVars

Stop(s) == (Release(s) \/ Die(s)) /\ Observe /\ Forget(s)

\* LoadCurrent at start-up, whoever holds the lock.
StartAtlas(s) ==
    /\ Writer(s) \/ Reader(s)
    /\ LoadNothing(s) \/ LoadCurrent(s)
    /\ UNCHANGED lockVars

Rebuild(s) == Writer(s) /\ (StartRebuild(s) \/ BuildStep(s)) /\ UNCHANGED lockVars

PollStatus(s) == Reader(s) /\ Refresh(s) /\ UNCHANGED lockVars

ReadAtlas(s) == ReadStep(s) /\ UNCHANGED lockVars

Ingest == (\E s \in Session : Writer(s)) /\ AddChunk /\ UNCHANGED lockVars

Next ==
    \/ \E s \in Session :
           \/ Locking(s)
           \/ Stop(s)
           \/ StartAtlas(s)
           \/ Rebuild(s)
           \/ PollStatus(s)
           \/ ReadAtlas(s)
    \/ Ingest

Spec == Init /\ [][Next]_vars

\* The open page of a read-only session polls every ten seconds, and a session
\* that began to read a build goes on.
Fairness ==
    \A s \in Session :
        /\ WF_vars(StartAtlas(s))
        /\ WF_vars(PollStatus(s))
        /\ WF_vars(ReadAtlas(s))

FairSpec == Spec /\ Fairness
-----------------------------------------------------------------------------
TypeOK == LockTypeOK /\ AtlasTypeOK

(* The corpus never loses its atlas: whatever build fails, is interrupted  *)
(* or is replaced, once there is a ready build there is one from then on,  *)
(* and what is ready has its whole body (builder.go Build and its failure  *)
(* path, PruneExcept; service.go acquire).                                 *)
AtlasKept ==
    [][~ raced' => /\ Ready # {} => Ready' # {}
                   /\ \A b \in Ready' : builds'[b].parts = AllParts]_vars

(* A digest of the model is never replaced by a provisional one, and a     *)
(* stored vector is that of the digest stored beside it, although the two  *)
(* are written by separate statements, builds fail between them and later  *)
(* builds redo the digest (digest_cache.go reusable, store.go PutDigest,   *)
(* builder.go digestRegions).                                              *)
DigestCache ==
    [][~ raced' => \A m \in 0 .. MaxChunks :
           /\ digests[m].source = "llm" => digests'[m].source = "llm"
           /\ digests'[m].vec \in {0, digests'[m].of}]_vars

(* "It picks up rebuilds automatically": a read-only session that shows a  *)
(* build comes to show the newest ready one, with its whole body, even if  *)
(* it read a build while the writer pruned it (service.go Refresh).        *)
ReadersCatchUp ==
    \A s \in Session :
        []<>(\/ ~ Reader(s)
             \/ shown[s] \in {NotLoaded, NoBuild}
             \/ Ready = {}
             \/ shown[s] = [id |-> Newest, got |-> AllParts])
=============================================================================
