--------------------------- MODULE RevisionsProofs ---------------------------
(***************************************************************************)
(* What holds of Revisions for any sets of ids, sessions and operations.   *)
(* TypeOK, LiveSound and NeverOneBranch are inductive together; for        *)
(* GatherRestorable the invariant also says what a gather half-way knows:  *)
(* unless a node was added since it read the node list, every node there   *)
(* still is was in that list, so whatever it reads next refers to it.      *)
(*                                                                         *)
(* The second part is about one client.  Nothing changes under its gather  *)
(* then: what it has read of a table is what the table holds (ReadOK), and *)
(* the row it goes on to restore or drop is the one it looked up (LoadOK). *)
(* So whatever is stored can be restored, and Revisions implements         *)
(* BranchedDoc.                                                            *)
(***************************************************************************)
EXTENDS Revisions, TLAPS

Reading == {"edges", "threads", "members", "evidence"}

Gathered == {"store", "branch", "target", "switch"}

(* What the request r of session s knows, now being the live node ids. *)
GatherOK(s, r, grown, now) ==
  /\ r.at = "nodes" => r.got = Empty
  /\ r.at \in Reading \cup Gathered /\ s \notin grown => Sound(r.got)
  /\ r.at \in Reading /\ s \notin grown => now \subseteq r.got.nodes
  /\ r.at \in {"edges", "threads"} => r.got.members = {}
  /\ r.at = "members" => r.todo \subseteq r.got.threads

Gathers == \A s \in Sessions : GatherOK(s, req[s], grew, live.nodes)

IInv == TypeOK /\ LiveSound /\ NeverOneBranch /\ Gathers

Alone == \A s, u \in Sessions : s = u

(* The tables r has read so far, one after the other. *)
ReadOK(r) ==
  /\ r.at \in Reading \cup Gathered => r.got.nodes = live.nodes
  /\ r.at \in {"threads", "members", "evidence"} \cup Gathered => r.got.edges = live.edges
  /\ r.at \in {"members", "evidence"} \cup Gathered => r.got.threads = live.threads
  /\ r.at = "members" => r.got.members = {m \in live.members : m[1] \notin r.todo}
  /\ r.at \in {"evidence"} \cup Gathered => r.got.members = live.members
  /\ r.at \in Gathered => r.got.evidence = live.evidence

(* The row r has looked up. *)
LoadOK(r) ==
  /\ r.at = "restore" => r.id \in snapshots /\ r.target = shot[r.id]
  /\ r.at = "switch" => r.id \in branches \ {active} /\ r.target = saved[r.id]
  /\ r.at = "drop" => r.id \in branches \ {active}

ClientHeld == \A s \in Sessions : ReadOK(req[s]) /\ LoadOK(req[s])

OneInv == IInv /\ ClientHeld /\ StoredRestorable /\ (branches # {} => active \in branches)

-----------------------------------------------------------------------------
(* Documents. *)

(* Every single-statement edit leaves a well-typed document whose rows      *)
(* refer to rows that are there.                                            *)
LEMMA EditsSound ==
  ASSUME NEW d \in Doc, Sound(d)
  PROVE  /\ \A n \in Node : AddNode(d, n) \in Doc /\ Sound(AddNode(d, n))
         /\ \A t \in Thread : AddThread(d, t) \in Doc /\ Sound(AddThread(d, t))
         /\ \A n \in d.nodes : DeleteNode(d, n) \in Doc /\ Sound(DeleteNode(d, n))
         /\ \A n \in d.nodes : AddEvidence(d, n) \in Doc /\ Sound(AddEvidence(d, n))
         /\ \A m, n \in d.nodes : AddEdge(d, m, n) \in Doc /\ Sound(AddEdge(d, m, n))
         /\ \A e \in d.edges : DeleteEdge(d, e) \in Doc /\ Sound(DeleteEdge(d, e))
         /\ \A t \in d.threads : DeleteThread(d, t) \in Doc /\ Sound(DeleteThread(d, t))
<1>1. \A n \in Node : AddNode(d, n) \in Doc /\ Sound(AddNode(d, n))
  BY DEF Doc, Sound, AddNode
<1>2. \A t \in Thread : AddThread(d, t) \in Doc /\ Sound(AddThread(d, t))
  BY DEF Doc, Sound, AddThread
<1>3. \A n \in d.nodes : DeleteNode(d, n) \in Doc /\ Sound(DeleteNode(d, n))
  BY DEF Doc, Sound, DeleteNode
<1>4. \A n \in d.nodes : AddEvidence(d, n) \in Doc /\ Sound(AddEvidence(d, n))
  BY DEF Doc, Sound, AddEvidence
<1>5. \A m, n \in d.nodes : AddEdge(d, m, n) \in Doc /\ Sound(AddEdge(d, m, n))
  BY DEF Doc, Sound, AddEdge
<1>6. \A e \in d.edges : DeleteEdge(d, e) \in Doc /\ Sound(DeleteEdge(d, e))
  BY DEF Doc, Sound, DeleteEdge
<1>7. \A t \in d.threads : DeleteThread(d, t) \in Doc /\ Sound(DeleteThread(d, t))
  BY DEF Doc, Sound, DeleteThread
<1>8. QED  BY <1>1, <1>2, <1>3, <1>4, <1>5, <1>6, <1>7

(* The empty document is a document without dangling rows.                 *)
LEMMA EmptySound == Empty \in Doc /\ Sound(Empty)
  BY DEF Empty, Doc, Sound

-----------------------------------------------------------------------------
(* Requests. *)

(* A request starts well typed.                                            *)
LEMMA NewRequestType ==
  ASSUME NEW at \in Statement, NEW op \in AllOps, NEW id \in Id, NEW n \in Node \cup {None}
  PROVE  NewRequest(at, op, id, n) \in Request
  BY EmptySound DEF NewRequest, Request

(* So does one that is not there.                                          *)
LEMMA IdleType == Idle \in Request /\ Idle.at = "idle"
<1>1. "idle" \in Statement /\ "CreateSnapshot" \in AllOps /\ None \in Id
  BY DEF Statement, AllOps, Id
<1>2. Idle \in Request  BY <1>1, NewRequestType DEF Idle
<1>3. QED  BY <1>2 DEF Idle, NewRequest

(* A request that has not begun to gather, or gathers nothing, knows        *)
(* nothing.                                                                 *)
LEMMA NotGathering ==
  ASSUME NEW s, NEW r, NEW grown, NEW now,
         r.at \notin Reading \cup Gathered, r.at = "nodes" => r.got = Empty
  PROVE  GatherOK(s, r, grown, now)
  BY DEF GatherOK, Reading, Gathered

(* A client without a request has gathered nothing.                        *)
LEMMA IdleGathers ==
  ASSUME NEW s, NEW grown, NEW now  PROVE  GatherOK(s, Idle, grown, now)
  BY IdleType, NotGathering DEF Reading, Gathered

(* What a request knows is still true after a step of another session.      *)
LEMMA GatherStable ==
  ASSUME NEW s, NEW r, NEW grown, NEW more, NEW now, NEW later,
         GatherOK(s, r, grown, now),
         s \in grown => s \in more,
         s \notin more => later \subseteq now
  PROVE  GatherOK(s, r, more, later)
  BY DEF GatherOK

(* A step of session s that leaves it with request r keeps Gathers.         *)
LEMMA GathersKept ==
  ASSUME IInv, NEW s \in Sessions, NEW r \in Request, Go(s, r),
         GatherOK(s, r, grew', live'.nodes),
         \A u \in Sessions \ {s} : u \in grew => u \in grew',
         \A u \in Sessions \ {s} : u \notin grew' => live'.nodes \subseteq live.nodes
  PROVE  Gathers' /\ req' \in [Sessions -> Request]
<1>1. req \in [Sessions -> Request]  BY DEF IInv, TypeOK
<1>2. req'[s] = r /\ \A u \in Sessions \ {s} : req'[u] = req[u]
  BY <1>1 DEF Go
<1>3. req' \in [Sessions -> Request]  BY <1>1 DEF Go
<1>4. ASSUME NEW u \in Sessions \ {s}
      PROVE  GatherOK(u, req'[u], grew', live'.nodes)
  <2>1. GatherOK(u, req[u], grew, live.nodes)  BY DEF IInv, Gathers
  <2>2. u \in grew => u \in grew'  OBVIOUS
  <2>3. u \notin grew' => live'.nodes \subseteq live.nodes  OBVIOUS
  <2>4. req'[u] = req[u]  BY <1>2
  <2>5. QED  BY <2>1, <2>2, <2>3, <2>4, GatherStable
<1>5. QED  BY <1>2, <1>3, <1>4 DEF Gathers

(* Commit marks every session for which the node list has grown.            *)
LEMMA CommitGrew ==
  ASSUME IInv, NEW d \in Doc, Commit(d)
  PROVE  /\ grew' \subseteq Sessions
         /\ \A u \in Sessions : u \in grew => u \in grew'
         /\ \A u \in Sessions : u \notin grew' => live'.nodes \subseteq live.nodes
         /\ live' = d
  BY DEF Commit, IInv, TypeOK

-----------------------------------------------------------------------------
(* The steps. *)

(* A new project.                                                          *)
LEMMA InitInv == Init => IInv
<1> SUFFICES ASSUME Init PROVE IInv  OBVIOUS
<1>1. TypeOK  BY RevisionsAssumption, EmptySound, IdleType DEF Init, TypeOK
<1>2. LiveSound  BY EmptySound DEF Init, LiveSound
<1>3. NeverOneBranch  BY DEF Init, NeverOneBranch
<1>4. Gathers  BY IdleGathers DEF Init, Gathers
<1>5. QED  BY <1>1, <1>2, <1>3, <1>4 DEF IInv

(* A step that only changes what session s holds. *)
LEMMA ReadInv ==
  ASSUME IInv, NEW s \in Sessions, NEW r \in Request, Go(s, r),
         GatherOK(s, r, grew', live.nodes),
         UNCHANGED <<live, rows, used, edited>>, asked' \in 0 .. MaxRequests,
         grew' \subseteq Sessions, \A u \in Sessions \ {s} : u \in grew <=> u \in grew'
  PROVE  IInv'
<1>1. Gathers' /\ req' \in [Sessions -> Request]  BY GathersKept
<1>2. TypeOK'  BY <1>1 DEF IInv, TypeOK, rows
<1>3. LiveSound' /\ NeverOneBranch'  BY DEF IInv, LiveSound, NeverOneBranch, rows
<1>4. QED  BY <1>1, <1>2, <1>3 DEF IInv

(* A request that ends and changes no table.                               *)
LEMMA FinishInv ==
  ASSUME IInv, NEW s \in Sessions, Finish(s), UNCHANGED <<live, rows, used, asked, edited, grew>>
  PROVE  IInv'
<1>1. Go(s, Idle) /\ GatherOK(s, Idle, grew', live.nodes)  BY IdleGathers DEF Finish
<1>2. asked' \in 0 .. MaxRequests /\ grew' \subseteq Sessions  BY DEF IInv, TypeOK
<1>3. QED  BY <1>1, <1>2, IdleType, ReadInv

(* Requests that clients make have gathered nothing yet.                   *)
LEMMA ClientRequestType ==
  ASSUME NEW r \in ClientRequests
  PROVE  /\ r \in Request /\ r.at \notin Reading \cup Gathered /\ r.got = Empty
         /\ r.at \in {"nodes", "load", "check", "path"}
<1>1. \E at \in {"nodes", "load", "check", "path"}, op \in AllOps, id \in Id, n \in Node \cup {None} :
        r = NewRequest(at, op, id, n)
  BY DEF ClientRequests, GatherRequests, RowRequests, ThreadRequests, AllOps, Id
<1>2. PICK at \in {"nodes", "load", "check", "path"}, op \in AllOps, id \in Id, n \in Node \cup {None} :
        r = NewRequest(at, op, id, n)
  BY <1>1
<1>3. at \in Statement  BY DEF Statement
<1>4. r \in Request  BY <1>2, <1>3, NewRequestType
<1>5. r.at = at /\ r.got = Empty  BY <1>2 DEF NewRequest
<1>6. QED  BY <1>4, <1>5 DEF Reading, Gathered

(* A request is made.                                                      *)
LEMMA AskInv == ASSUME IInv, NEW s \in Sessions, Ask(s) PROVE IInv'
<1>1. PICK r \in ClientRequests : Go(s, r)  BY DEF Ask
<1>2. r \in Request /\ GatherOK(s, r, grew', live.nodes)
  BY ClientRequestType, NotGathering
<1>3. UNCHANGED <<live, rows, used, edited, grew>>  BY DEF Ask
<1>4. asked' \in 0 .. MaxRequests
  BY RevisionsAssumption DEF Ask, IInv, TypeOK
<1>5. grew' \subseteq Sessions  BY <1>3 DEF IInv, TypeOK
<1>6. QED  BY <1>1, <1>2, <1>3, <1>4, <1>5, ReadInv

(* A request is given up between two statements.                           *)
LEMMA AbortInv == ASSUME IInv, NEW s \in Sessions, Abort(s) PROVE IInv'
  BY FinishInv DEF Abort

(* The edits of one statement. *)
LEMMA EditLiveInv == ASSUME IInv, NEW s \in Sessions, EditLive(s) PROVE IInv'
<1>1. live \in Doc /\ Sound(live)  BY DEF IInv, TypeOK, LiveSound
<1>2. PICK d \in Doc : Sound(d) /\ Commit(d)
  <2>1. \A n \in Node : AddNode(live, n) \in Doc /\ Sound(AddNode(live, n))
    BY <1>1, EditsSound
  <2>2. \A t \in Thread : AddThread(live, t) \in Doc /\ Sound(AddThread(live, t))
    BY <1>1, EditsSound
  <2>3. \A n \in live.nodes : DeleteNode(live, n) \in Doc /\ Sound(DeleteNode(live, n))
    BY <1>1, EditsSound
  <2>4. \A n \in live.nodes : AddEvidence(live, n) \in Doc /\ Sound(AddEvidence(live, n))
    BY <1>1, EditsSound
  <2>5. \A m, n \in live.nodes : AddEdge(live, m, n) \in Doc /\ Sound(AddEdge(live, m, n))
    BY <1>1, EditsSound
  <2>6. \A e \in live.edges : DeleteEdge(live, e) \in Doc /\ Sound(DeleteEdge(live, e))
    BY <1>1, EditsSound
  <2>7. \A t \in live.threads : DeleteThread(live, t) \in Doc /\ Sound(DeleteThread(live, t))
    BY <1>1, EditsSound
  <2>8. QED  BY <2>1, <2>2, <2>3, <2>4, <2>5, <2>6, <2>7 DEF EditLive
<1>3. /\ grew' \subseteq Sessions
      /\ \A u \in Sessions : u \in grew => u \in grew'
      /\ \A u \in Sessions : u \notin grew' => live'.nodes \subseteq live.nodes
      /\ live' = d
  BY <1>2, CommitGrew
<1>4. UNCHANGED <<rows, asked, req>>  BY DEF EditLive
<1>5. used \subseteq used' /\ used' \subseteq Node \cup Thread \cup Branch \cup Snapshot
  BY DEF EditLive, Fresh, IInv, TypeOK
<1>6. edited' \in 0 .. MaxEdits
  BY RevisionsAssumption DEF EditLive, IInv, TypeOK
<1>7. TypeOK'  BY <1>2, <1>3, <1>4, <1>5, <1>6 DEF IInv, TypeOK, rows
<1>8. LiveSound'  BY <1>2, <1>3 DEF LiveSound
<1>9. NeverOneBranch'  BY <1>4 DEF IInv, NeverOneBranch, rows
<1>10. Gathers'
  <2> SUFFICES ASSUME NEW u \in Sessions PROVE GatherOK(u, req[u], grew', live'.nodes)
    BY <1>4 DEF Gathers
  <2>1. GatherOK(u, req[u], grew, live.nodes)  BY DEF IInv, Gathers
  <2>2. QED  BY <2>1, <1>3, GatherStable
<1>11. QED  BY <1>7, <1>8, <1>9, <1>10 DEF IInv

(* A snapshot goes; what was loaded of it stays sound.                     *)
LEMMA DeleteSnapshotInv == ASSUME IInv, NEW s \in Sessions, DeleteSnapshot(s) PROVE IInv'
<1>1. TypeOK'
  BY RevisionsAssumption, EmptySound DEF DeleteSnapshot, IInv, TypeOK
<1>2. LiveSound' /\ NeverOneBranch' /\ Gathers'
  BY DEF DeleteSnapshot, IInv, LiveSound, NeverOneBranch, Gathers
<1>3. QED  BY <1>1, <1>2 DEF IInv

-----------------------------------------------------------------------------
(* The gather. *)

(* What session s holds, as the invariant has it. *)
LEMMA Held ==
  ASSUME IInv, NEW s \in Sessions
  PROVE  /\ req[s] \in Request /\ req[s].got \in Doc /\ req[s].target \in Doc
         /\ GatherOK(s, req[s], grew, live.nodes)
         /\ live \in Doc /\ Sound(live)
         /\ asked \in 0 .. MaxRequests /\ grew \subseteq Sessions
  BY DEF IInv, TypeOK, LiveSound, Gathers, Request

(* A gather that goes on to its next table is well typed.                  *)
LEMMA ReadType ==
  ASSUME NEW r \in Request, NEW at \in Statement, NEW d \in Doc, NEW todo \in SUBSET Thread
  PROVE  /\ Read(r, at, d, todo) \in Request
         /\ Read(r, at, d, todo).at = at
         /\ Read(r, at, d, todo).got = d
         /\ Read(r, at, d, todo).todo = todo
  BY DEF Read, Request

(* Adding a table keeps what was read sound, if the new rows refer to rows  *)
(* read before.                                                             *)
LEMMA WithTable ==
  ASSUME NEW d \in Doc, NEW now \in Doc, Sound(d), Sound(now), now.nodes \subseteq d.nodes
  PROVE  /\ Sound([d EXCEPT !.edges = now.edges])
         /\ Sound([d EXCEPT !.evidence = now.evidence])
  BY DEF Doc, Sound

(* Paths read after the nodes and threads refer to what was read.          *)
LEMMA WithMembers ==
  ASSUME NEW d \in Doc, NEW now \in Doc, Sound(d), Sound(now), now.nodes \subseteq d.nodes,
         NEW T \in SUBSET (Thread \X Node), T \subseteq now.members,
         \A m \in T : m[1] \in d.threads
  PROVE  Sound([d EXCEPT !.members = d.members \cup T])
  BY DEF Doc, Sound

(* A document into which one more table was read is a document.            *)
LEMMA DocWith ==
  ASSUME NEW d \in Doc, NEW now \in Doc
  PROVE  /\ [d EXCEPT !.nodes = now.nodes] \in Doc
         /\ [d EXCEPT !.edges = now.edges] \in Doc
         /\ [d EXCEPT !.threads = now.threads] \in Doc
         /\ [d EXCEPT !.evidence = now.evidence] \in Doc
         /\ \A T \in SUBSET now.members :
              [d EXCEPT !.members = T] \in Doc /\ [d EXCEPT !.members = d.members \cup T] \in Doc
  BY DEF Doc

(* A read that goes on with the gather keeps the invariant, if the document *)
(* it leaves is as the invariant has it.                                    *)
LEMMA GatherInv ==
  ASSUME IInv, NEW s \in Sessions, NEW at \in Reading \cup Gathered,
         NEW d \in Doc, NEW todo \in SUBSET Thread,
         Go(s, Read(req[s], at, d, todo)),
         UNCHANGED <<live, rows, used, asked, edited>>, grew' \in {grew, grew \ {s}},
         s \notin grew' => Sound(d),
         s \notin grew' /\ at \in Reading => live.nodes \subseteq d.nodes,
         at \in {"edges", "threads"} => d.members = {},
         at = "members" => todo \subseteq d.threads
  PROVE  IInv'
<1>1. at \in Statement /\ at # "nodes"  BY DEF Reading, Gathered, Statement
<1>2. PICK r \in Request : r = Read(req[s], at, d, todo)  BY <1>1, Held, ReadType
<1>3. r.at = at /\ r.got = d /\ r.todo = todo  BY <1>1, <1>2, Held, ReadType
<1>4. GatherOK(s, r, grew', live.nodes)  BY <1>1, <1>3 DEF GatherOK
<1>5. Go(s, r)  BY <1>2
<1>6. grew' \subseteq Sessions /\ \A u \in Sessions \ {s} : u \in grew <=> u \in grew'
  BY Held
<1>7. asked' \in 0 .. MaxRequests  BY Held
<1>8. QED  BY <1>4, <1>5, <1>6, <1>7, ReadInv

(* The reads after the first go on from a sound part of the document.       *)
LEMMA HalfRead ==
  ASSUME IInv, NEW s \in Sessions, req[s].at \in Reading, s \notin grew
  PROVE  Sound(req[s].got) /\ live.nodes \subseteq req[s].got.nodes
  BY Held DEF GatherOK

(* A gather reads the nodes.                                               *)
LEMMA ReadNodesInv == ASSUME IInv, NEW s \in Sessions, ReadNodes(s) PROVE IInv'
<1> DEFINE d == [req[s].got EXCEPT !.nodes = live.nodes]
<1>1. d \in Doc  BY Held, DocWith
<1>2. /\ Go(s, Read(req[s], "edges", d, {}))
      /\ UNCHANGED <<live, rows, used, asked, edited>> /\ grew' = grew \ {s}
  BY DEF ReadNodes
<1>3. req[s].got = Empty  BY Held DEF ReadNodes, GatherOK
<1>4. d.nodes = live.nodes /\ d.members = {} /\ Sound(d)
  BY <1>3 DEF Sound, Empty
<1>5. "edges" \in Reading  BY DEF Reading
<1> HIDE DEF d
<1>6. QED  BY <1>1, <1>2, <1>4, <1>5, GatherInv

(* A gather reads the edges: their ends were read if no node was added.    *)
LEMMA ReadEdgesInv == ASSUME IInv, NEW s \in Sessions, ReadEdges(s) PROVE IInv'
<1> DEFINE d == [req[s].got EXCEPT !.edges = live.edges]
<1>1. d \in Doc  BY Held, DocWith
<1>2. /\ Go(s, Read(req[s], "threads", d, {}))
      /\ UNCHANGED <<live, rows, used, asked, edited, grew>>
  BY DEF ReadEdges
<1>3. d.nodes = req[s].got.nodes /\ d.members = req[s].got.members
  BY Held DEF Doc
<1>4. d.members = {}  BY <1>3, Held DEF ReadEdges, GatherOK
<1>5. s \notin grew => Sound(d) /\ live.nodes \subseteq d.nodes
  <2> SUFFICES ASSUME s \notin grew PROVE Sound(d) /\ live.nodes \subseteq d.nodes
    OBVIOUS
  <2>1. Sound(req[s].got) /\ live.nodes \subseteq req[s].got.nodes
    BY HalfRead DEF ReadEdges, Reading
  <2>2. Sound(d)  BY <2>1, Held, WithTable
  <2>3. QED  BY <1>3, <2>1, <2>2
<1>6. "threads" \in Reading  BY DEF Reading
<1> HIDE DEF d
<1>7. QED  BY <1>1, <1>2, <1>4, <1>5, <1>6, GatherInv

(* After a path the gather reads another or the evidence.                  *)
LEMMA MembersNextType ==
  ASSUME NEW todo
  PROVE  MembersNext(todo) \in Reading /\ MembersNext(todo) \notin {"edges", "threads"}
  BY DEF MembersNext, Reading

(* A gather reads the threads.                                             *)
LEMMA ReadThreadsInv == ASSUME IInv, NEW s \in Sessions, ReadThreads(s) PROVE IInv'
<1> DEFINE d == [req[s].got EXCEPT !.threads = live.threads]
           at == MembersNext(live.threads)
<1>1. d \in Doc  BY Held, DocWith
<1>2. /\ Go(s, Read(req[s], at, d, live.threads))
      /\ UNCHANGED <<live, rows, used, asked, edited, grew>>
  BY DEF ReadThreads
<1>3. live.threads \in SUBSET Thread  BY Held DEF Doc
<1>4. d.nodes = req[s].got.nodes /\ d.threads = live.threads  BY Held DEF Doc
<1>5. s \notin grew => Sound(d) /\ live.nodes \subseteq d.nodes
  <2> SUFFICES ASSUME s \notin grew PROVE Sound(d) /\ live.nodes \subseteq d.nodes
    OBVIOUS
  <2>1. Sound(req[s].got) /\ live.nodes \subseteq req[s].got.nodes
    BY HalfRead DEF ReadThreads, Reading
  <2>2. req[s].got.members = {}  BY Held DEF ReadThreads, GatherOK
  <2>3. Sound(d)  BY <2>1, <2>2, Held DEF Sound, Doc
  <2>4. QED  BY <1>4, <2>1, <2>3
<1>6. at \in Reading /\ at \notin {"edges", "threads"}  BY MembersNextType
<1> HIDE DEF d, at
<1>7. QED  BY <1>1, <1>2, <1>3, <1>4, <1>5, <1>6, GatherInv

(* A gather reads one path.                                                *)
LEMMA ReadMembersInv == ASSUME IInv, NEW s \in Sessions, ReadMembers(s) PROVE IInv'
<1>1. PICK t \in req[s].todo :
        LET left == req[s].todo \ {t}
            ms == req[s].got.members \cup OnThread(live, t)
        IN  Go(s, Read(req[s], MembersNext(left), [req[s].got EXCEPT !.members = ms], left))
  BY DEF ReadMembers
<1> DEFINE left == req[s].todo \ {t}
           d == [req[s].got EXCEPT !.members = req[s].got.members \cup OnThread(live, t)]
           at == MembersNext(left)
<1>2. Go(s, Read(req[s], at, d, left)) /\ UNCHANGED <<live, rows, used, asked, edited, grew>>
  BY <1>1 DEF ReadMembers
<1>3. OnThread(live, t) \subseteq live.members /\ \A m \in OnThread(live, t) : m[1] = t
  BY DEF OnThread
<1>4. d \in Doc  BY <1>3, Held, DocWith
<1>5. left \in SUBSET Thread  BY Held DEF Request
<1>6. req[s].todo \subseteq req[s].got.threads  BY Held DEF ReadMembers, GatherOK
<1>7. d.nodes = req[s].got.nodes /\ d.threads = req[s].got.threads  BY Held DEF Doc
<1>8. s \notin grew => Sound(d) /\ live.nodes \subseteq d.nodes
  <2> SUFFICES ASSUME s \notin grew PROVE Sound(d) /\ live.nodes \subseteq d.nodes
    OBVIOUS
  <2>1. Sound(req[s].got) /\ live.nodes \subseteq req[s].got.nodes
    BY HalfRead DEF ReadMembers, Reading
  <2>2. OnThread(live, t) \in SUBSET (Thread \X Node)  BY <1>3, Held DEF Doc
  <2>3. \A m \in OnThread(live, t) : m[1] \in req[s].got.threads  BY <1>3, <1>6
  <2>4. Sound(d)  BY <1>3, <2>1, <2>2, <2>3, Held, WithMembers
  <2>5. QED  BY <1>7, <2>1, <2>4
<1>9. at \in Reading /\ at \notin {"edges", "threads"} /\ left \subseteq d.threads
  BY <1>6, <1>7, MembersNextType
<1> HIDE DEF d, at, left
<1>10. QED  BY <1>2, <1>4, <1>5, <1>8, <1>9, GatherInv

(* After the evidence the gather is complete.                              *)
LEMMA AfterGatherType ==
  ASSUME NEW op
  PROVE  AfterGather(op) \in Gathered /\ AfterGather(op) \notin Reading
  BY DEF AfterGather, Gathered, Reading

(* A gather reads the evidence.                                            *)
LEMMA ReadEvidenceInv == ASSUME IInv, NEW s \in Sessions, ReadEvidence(s) PROVE IInv'
<1> DEFINE d == [req[s].got EXCEPT !.evidence = live.evidence]
           at == AfterGather(req[s].op)
<1>1. d \in Doc  BY Held, DocWith
<1>2. Go(s, Read(req[s], at, d, {})) /\ UNCHANGED <<live, rows, used, asked, edited, grew>>
  BY DEF ReadEvidence
<1>3. s \notin grew => Sound(d)
  <2> SUFFICES ASSUME s \notin grew PROVE Sound(d)
    OBVIOUS
  <2>1. Sound(req[s].got) /\ live.nodes \subseteq req[s].got.nodes
    BY HalfRead DEF ReadEvidence, Reading
  <2>2. QED  BY <2>1, Held, WithTable
<1>4. at \in Gathered /\ at \notin Reading /\ at \notin {"edges", "threads", "members"}
  BY AfterGatherType DEF Reading
<1> HIDE DEF d, at
<1>5. QED  BY <1>1, <1>2, <1>3, <1>4, GatherInv

-----------------------------------------------------------------------------
(* Snapshots. *)

(* What was gathered is stored as a snapshot.                              *)
LEMMA StoreSnapshotInv == ASSUME IInv, NEW s \in Sessions, StoreSnapshot(s) PROVE IInv'
<1>1. Go(s, Idle) /\ GatherOK(s, Idle, grew', live'.nodes)
  BY IdleGathers DEF StoreSnapshot, Finish
<1>2. UNCHANGED <<live, branches, saved, active, asked, edited, grew>>  BY DEF StoreSnapshot
<1>3. Gathers' /\ req' \in [Sessions -> Request]  BY <1>1, <1>2, IdleType, GathersKept
<1>4. PICK p \in Snapshot : /\ used' = used \cup {p}
                            /\ snapshots' = snapshots \cup {p}
                            /\ shot' = [shot EXCEPT ![p] = req[s].got]
  BY DEF StoreSnapshot, Fresh
<1>5. TypeOK'  BY <1>2, <1>3, <1>4, Held DEF IInv, TypeOK
<1>6. LiveSound' /\ NeverOneBranch'  BY <1>2 DEF IInv, LiveSound, NeverOneBranch
<1>7. QED  BY <1>3, <1>5, <1>6 DEF IInv

(* A step that loads a stored document, to be used at statement at, or that *)
(* answers at once.                                                         *)
LEMMA LoadInv ==
  ASSUME IInv, NEW s \in Sessions, NEW at \in Statement, NEW d \in Doc,
         at \notin Reading \cup {"store", "branch", "target", "nodes"},
         at \in Gathered => req[s].at \in Gathered,
         \/ Go(s, [req[s] EXCEPT !.at = at, !.target = d])
         \/ Go(s, Idle),
         UNCHANGED <<live, rows, used, asked, edited, grew>>
  PROVE  IInv'
<1>1. CASE Go(s, Idle)  BY <1>1, FinishInv DEF Finish
<1>2. CASE Go(s, [req[s] EXCEPT !.at = at, !.target = d])
  <2>1. PICK r \in Request : r = [req[s] EXCEPT !.at = at, !.target = d]
    BY Held DEF Request
  <2>2. r.at = at /\ r.got = req[s].got  BY <2>1, Held DEF Request
  <2>3. GatherOK(s, r, grew, live.nodes)
    BY <2>2, Held DEF GatherOK, Reading, Gathered
  <2>4. Go(s, r)  BY <1>2, <2>1
  <2>5. QED  BY <2>3, <2>4, Held, ReadInv
<1>3. QED  BY <1>1, <1>2

(* A snapshot is loaded for restoring.                                     *)
LEMMA LoadSnapshotInv == ASSUME IInv, NEW s \in Sessions, LoadSnapshot(s) PROVE IInv'
<1>1. CASE req[s].id \in snapshots
  <2>1. shot[req[s].id] \in Doc  BY <1>1 DEF IInv, TypeOK
  <2>2. Go(s, [req[s] EXCEPT !.at = "restore", !.target = shot[req[s].id]])
    BY <1>1 DEF LoadSnapshot
  <2>3. UNCHANGED <<live, rows, used, asked, edited, grew>>  BY DEF LoadSnapshot
  <2>4. "restore" \in Statement /\ "restore" \notin Reading \cup Gathered
    BY DEF Statement, Reading, Gathered
  <2>5. "restore" \notin Reading \cup {"store", "branch", "target", "nodes"}
    BY DEF Reading
  <2>6. QED  BY <2>1, <2>2, <2>3, <2>4, <2>5, LoadInv
<1>2. CASE req[s].id \notin snapshots  BY <1>2, FinishInv DEF LoadSnapshot, Finish
<1>3. QED  BY <1>1, <1>2

(* A request that ends in a transaction on the live tables.                 *)
LEMMA CommitInv ==
  ASSUME IInv, NEW s \in Sessions, NEW d \in Doc, Sound(d), Commit(d), Finish(s),
         UNCHANGED <<rows, used, asked, edited>>
  PROVE  IInv'
<1>1. /\ grew' \subseteq Sessions
      /\ \A u \in Sessions : u \in grew => u \in grew'
      /\ \A u \in Sessions : u \notin grew' => live'.nodes \subseteq live.nodes
      /\ live' = d
  BY CommitGrew
<1>2. Go(s, Idle) /\ GatherOK(s, Idle, grew', live'.nodes)  BY IdleGathers DEF Finish
<1>3. Gathers' /\ req' \in [Sessions -> Request]  BY <1>1, <1>2, IdleType, GathersKept
<1>4. TypeOK'  BY <1>1, <1>3 DEF IInv, TypeOK, rows
<1>5. LiveSound' /\ NeverOneBranch'  BY <1>1 DEF IInv, LiveSound, NeverOneBranch, rows
<1>6. QED  BY <1>3, <1>4, <1>5 DEF IInv

(* A snapshot is restored if its rows fit together.                        *)
LEMMA RestoreSnapshotInv == ASSUME IInv, NEW s \in Sessions, RestoreSnapshot(s) PROVE IInv'
<1> DEFINE d == Restored(req[s].target)
<1>1. d \in Doc /\ Sound(d)  BY Held DEF Restored
<1>2. Commit(d) /\ Finish(s) /\ UNCHANGED <<rows, used, asked, edited>>
  BY DEF RestoreSnapshot
<1> HIDE DEF d
<1>3. QED  BY <1>1, <1>2, CommitInv

-----------------------------------------------------------------------------
(* Branches. *)

(* Storing the departing branch stores a document.                         *)
LEMMA SaveDepartingType ==
  ASSUME IInv, NEW d \in Doc  PROVE  SaveDeparting(d) \in [Branch -> Doc]
  BY DEF SaveDeparting, IInv, TypeOK

(* A branch is made of what was gathered.                                  *)
LEMMA CreateBranchInv == ASSUME IInv, NEW s \in Sessions, CreateBranch(s) PROVE IInv'
<1>1. Go(s, Idle) /\ GatherOK(s, Idle, grew', live'.nodes)
  BY IdleGathers DEF CreateBranch, Finish
<1>2. UNCHANGED <<live, snapshots, shot, asked, edited, grew>>  BY DEF CreateBranch
<1>3. Gathers' /\ req' \in [Sessions -> Request]  BY <1>1, <1>2, IdleType, GathersKept
<1>4. PICK new \in Branch \ used, main \in Branch \ used :
        /\ branches = {} <=> main # new
        /\ branches' = branches \cup {main, new}
        /\ saved' = [SaveDeparting(req[s].got) EXCEPT ![main] = req[s].got, ![new] = req[s].got]
        /\ active' = new
        /\ used' = used \cup {main, new}
  BY DEF CreateBranch
<1>5. saved' \in [Branch -> Doc]  BY <1>4, Held, SaveDepartingType
<1>6. TypeOK'  BY <1>2, <1>3, <1>4, <1>5 DEF IInv, TypeOK
<1>7. LiveSound'  BY <1>2 DEF IInv, LiveSound
<1>8. NeverOneBranch'
  <2>1. branches \subseteq used  BY DEF IInv, TypeOK
  <2>2. QED  BY <1>4, <2>1 DEF NeverOneBranch
<1>9. QED  BY <1>3, <1>6, <1>7, <1>8 DEF IInv

(* The branch to switch to is loaded.                                      *)
LEMMA LoadTargetInv == ASSUME IInv, NEW s \in Sessions, LoadTarget(s) PROVE IInv'
<1>1. CASE req[s].id \in branches /\ req[s].id # active
  <2>1. saved[req[s].id] \in Doc  BY <1>1 DEF IInv, TypeOK
  <2>2. Go(s, [req[s] EXCEPT !.at = "switch", !.target = saved[req[s].id]])
    BY <1>1 DEF LoadTarget
  <2>3. UNCHANGED <<live, rows, used, asked, edited, grew>>  BY DEF LoadTarget
  <2>4. "switch" \in Statement /\ req[s].at \in Gathered
    BY DEF LoadTarget, Statement, Gathered
  <2>5. "switch" \notin Reading \cup {"store", "branch", "target", "nodes"}
    BY DEF Reading
  <2>6. QED  BY <2>1, <2>2, <2>3, <2>4, <2>5, LoadInv
<1>2. CASE ~ (req[s].id \in branches /\ req[s].id # active)
  BY <1>2, FinishInv DEF LoadTarget, Finish
<1>3. QED  BY <1>1, <1>2

(* A branch is switched to if its rows fit together.                       *)
LEMMA SwitchBranchInv == ASSUME IInv, NEW s \in Sessions, SwitchBranch(s) PROVE IInv'
<1>1. CASE ~ Sound(req[s].target)
  BY <1>1, FinishInv DEF SwitchBranch, rows
<1>2. CASE Sound(req[s].target)
  <2> DEFINE d == req[s].target
  <2>1. d \in Doc  BY Held
  <2>2. /\ saved' = SaveDeparting(req[s].got) /\ active' = Marked(req[s].id)
        /\ Commit(d) /\ Finish(s)
        /\ UNCHANGED <<snapshots, shot, branches, used, asked, edited>>
    BY <1>2 DEF SwitchBranch
  <2>3. /\ grew' \subseteq Sessions
        /\ \A u \in Sessions : u \in grew => u \in grew'
        /\ \A u \in Sessions : u \notin grew' => live'.nodes \subseteq live.nodes
        /\ live' = d
    BY <2>1, <2>2, CommitGrew
  <2>4. Go(s, Idle) /\ GatherOK(s, Idle, grew', live'.nodes)
    BY <2>2, IdleGathers DEF Finish
  <2>5. Gathers' /\ req' \in [Sessions -> Request]  BY <2>3, <2>4, IdleType, GathersKept
  <2>6. saved' \in [Branch -> Doc]  BY <2>2, Held, SaveDepartingType
  <2>7. active' \in branches \cup {None}  BY <2>2 DEF Marked
  <2>8. TypeOK'  BY <2>1, <2>2, <2>3, <2>5, <2>6, <2>7 DEF IInv, TypeOK
  <2>9. LiveSound' /\ NeverOneBranch'
    BY <1>2, <2>2, <2>3 DEF IInv, LiveSound, NeverOneBranch
  <2>10. QED  BY <2>5, <2>8, <2>9 DEF IInv
<1>3. QED  BY <1>1, <1>2

(* A branch to be deleted is found inactive.                               *)
LEMMA CheckInactiveInv == ASSUME IInv, NEW s \in Sessions, CheckInactive(s) PROVE IInv'
<1>1. "drop" \in Statement /\ "drop" \notin Reading \cup Gathered
  BY DEF Statement, Reading, Gathered
<1>2. PICK r \in Request : r = [req[s] EXCEPT !.at = "drop"]
  BY <1>1, Held DEF Request
<1>3. r.at = "drop"  BY <1>2, Held DEF Request
<1>4. GatherOK(s, r, grew, live.nodes)  BY <1>1, <1>3, NotGathering
<1>5. UNCHANGED <<live, rows, used, asked, edited, grew>> /\ (Go(s, r) \/ Finish(s))
  BY <1>2 DEF CheckInactive, Finish
<1>6. QED  BY <1>4, <1>5, Held, ReadInv, FinishInv

(* A branch is deleted, and the last one with it.                          *)
LEMMA DropBranchInv == ASSUME IInv, NEW s \in Sessions, DropBranch(s) PROVE IInv'
<1> DEFINE left == Collapsed(branches \ {req[s].id})
<1>1. Go(s, Idle) /\ GatherOK(s, Idle, grew', live'.nodes)
  BY IdleGathers DEF DropBranch, Finish
<1>2. /\ branches' = left
      /\ saved' = [b \in Branch |-> IF b \in left THEN saved[b] ELSE Empty]
      /\ active' = IF active \in left THEN active ELSE None
      /\ UNCHANGED <<live, snapshots, shot, used, asked, edited, grew>>
  BY DEF DropBranch
<1>3. Gathers' /\ req' \in [Sessions -> Request]  BY <1>1, <1>2, IdleType, GathersKept
<1>4. left \subseteq branches /\ \A b \in Branch : left # {b}
  BY DEF Collapsed
<1> HIDE DEF left
<1>5. saved' \in [Branch -> Doc]  BY <1>2, EmptySound DEF IInv, TypeOK
<1>6. TypeOK'  BY <1>2, <1>3, <1>4, <1>5 DEF IInv, TypeOK
<1>7. LiveSound' /\ NeverOneBranch'  BY <1>2, <1>4 DEF IInv, LiveSound, NeverOneBranch
<1>8. QED  BY <1>3, <1>6, <1>7 DEF IInv

-----------------------------------------------------------------------------
(* Paths. *)

(* The path of a thread is part of the document.                           *)
LEMMA OnThreadType ==
  ASSUME NEW d \in Doc, NEW t  PROVE  OnThread(d, t) \in SUBSET d.members
  BY DEF OnThread

(* A path is read and its successor computed.                              *)
LEMMA ReadPathInv == ASSUME IInv, NEW s \in Sessions, ReadPath(s) PROVE IInv'
<1> DEFINE d == [req[s].got EXCEPT !.members = OnThread(live, req[s].id)]
<1>1. d \in Doc  BY Held, DocWith, OnThreadType
<1>2. "set" \in Statement /\ "set" \notin Reading \cup Gathered
  BY DEF Statement, Reading, Gathered
<1>3. UNCHANGED <<live, rows, used, asked, edited, grew>>
  BY DEF ReadPath
<1>4. Go(s, Read(req[s], "set", d, {})) \/ Finish(s)  BY DEF ReadPath, Finish
<1> HIDE DEF d
<1>5. PICK r \in Request : r = Read(req[s], "set", d, {})  BY <1>1, <1>2, Held, ReadType
<1>6. r.at = "set"  BY <1>1, <1>2, <1>5, Held, ReadType
<1>7. GatherOK(s, r, grew, live.nodes)  BY <1>2, <1>6, NotGathering
<1>8. Go(s, r) \/ Finish(s)  BY <1>4, <1>5
<1>9. QED  BY <1>3, <1>7, <1>8, Held, ReadInv, FinishInv

(* A path that can be written refers to nodes and threads that exist.       *)
LEMMA NewPathType ==
  ASSUME NEW r \in Request, NEW d \in Doc, Sound(SetMembers(d, r.id, NewPath(r)))
  PROVE  SetMembers(d, r.id, NewPath(r)) \in Doc
<1> DEFINE ms == (d.members \ OnThread(d, r.id)) \cup NewPath(r)
           e == SetMembers(d, r.id, NewPath(r))
<1>1. e.members = ms /\ e.nodes = d.nodes /\ e.threads = d.threads
  BY DEF SetMembers, Doc
<1>2. \A m \in NewPath(r) : m \in Thread \X Node \/ m = <<r.id, r.node>>
  BY DEF NewPath, Request, Doc
<1>3. \A m \in NewPath(r) : m[1] \in d.threads /\ m[2] \in d.nodes
  BY <1>1 DEF Sound
<1>4. NewPath(r) \subseteq Thread \X Node
  <2> SUFFICES ASSUME NEW m \in NewPath(r) PROVE m \in Thread \X Node
    OBVIOUS
  <2>1. m[1] \in Thread /\ m[2] \in Node  BY <1>3 DEF Doc
  <2>2. CASE m = <<r.id, r.node>>  BY <2>1, <2>2
  <2>3. QED  BY <1>2, <2>2
<1>5. ms \subseteq Thread \X Node  BY <1>4 DEF Doc
<1>6. QED  BY <1>5 DEF SetMembers, Doc

(* A path is written back.                                                 *)
LEMMA SetPathInv == ASSUME IInv, NEW s \in Sessions, SetPath(s) PROVE IInv'
<1> DEFINE e == SetMembers(live, req[s].id, NewPath(req[s]))
           d == IF Sound(e) THEN e ELSE live
<1>1. Commit(d) /\ Finish(s) /\ UNCHANGED <<rows, used, asked, edited>>
  BY DEF SetPath
<1>2. Sound(e) => e \in Doc  BY Held, NewPathType
<1> HIDE DEF e
<1>3. d \in Doc /\ Sound(d)  BY <1>2, Held
<1> HIDE DEF d
<1>4. QED  BY <1>1, <1>3, CommitInv

-----------------------------------------------------------------------------
(* The theorems. *)

(* Every step keeps the inductive invariant.                               *)
LEMMA StepInv == IInv /\ [Next]_vars => IInv'
<1> SUFFICES ASSUME IInv, [Next]_vars PROVE IInv'  OBVIOUS
<1>1. CASE UNCHANGED vars
  BY <1>1 DEF vars, IInv, TypeOK, LiveSound, NeverOneBranch, Gathers
<1>2. ASSUME NEW s \in Sessions, Ask(s) \/ EditLive(s) \/ DeleteSnapshot(s) \/ Abort(s)
      PROVE IInv'
  BY <1>2, AskInv, EditLiveInv, DeleteSnapshotInv, AbortInv
<1>3. ASSUME NEW s \in Sessions, Gather(s) PROVE IInv'
  BY <1>3, ReadNodesInv, ReadEdgesInv, ReadThreadsInv, ReadMembersInv, ReadEvidenceInv
     DEF Gather
<1>4. ASSUME NEW s \in Sessions, Step(s) PROVE IInv'
  BY <1>3, <1>4, StoreSnapshotInv, LoadSnapshotInv, RestoreSnapshotInv, CreateBranchInv,
     LoadTargetInv, SwitchBranchInv, CheckInactiveInv, DropBranchInv, ReadPathInv, SetPathInv
     DEF Step
<1>5. QED  BY <1>1, <1>2, <1>4 DEF Next

(* The inductive invariant holds in every reachable state.                 *)
THEOREM InvariantKept == Spec => []IInv
  BY InitInv, StepInv, PTL DEF Spec

(* Requests hold only what the code can hand them, and the rows, the ids    *)
(* and the active branch are what the tables' keys and index allow.         *)
THEOREM TypeCorrect == Spec => []TypeOK
<1>1. IInv => TypeOK  BY DEF IInv
<1>2. QED  BY <1>1, InvariantKept, PTL

(* No interleaving of edits, restores and switches leaves a dangling row in *)
(* the live tables.                                                         *)
THEOREM LiveTablesSound == Spec => []LiveSound
<1>1. IInv => LiveSound  BY DEF IInv
<1>2. QED  BY <1>1, InvariantKept, PTL

(* A project never has exactly one branch. *)
THEOREM NoBranchOrTwo == Spec => []NeverOneBranch
<1>1. IInv => NeverOneBranch  BY DEF IInv
<1>2. QED  BY <1>1, InvariantKept, PTL

(* A gather during which no node was added can be restored. *)
THEOREM GathersRestorable == Spec => []GatherRestorable
<1>1. IInv => GatherRestorable
  BY DEF IInv, Gathers, GatherOK, GatherRestorable, Gathered
<1>2. QED  BY <1>1, InvariantKept, PTL

(* No request writes to the document an inactive branch holds. *)
THEOREM InactiveBranchesKept == Spec => InactiveKept
<1> DEFINE Kept == \A b \in branches \cap branches' : saved'[b] # saved[b] => b = active
<1>1. IInv /\ [Next]_vars => [Kept]_vars
  <2> SUFFICES ASSUME IInv, [Next]_vars PROVE Kept \/ UNCHANGED vars
    OBVIOUS
  <2>1. branches \subseteq Branch \cap used  BY DEF IInv, TypeOK
  <2>2. CASE saved' = saved  BY <2>2
  <2>3. ASSUME NEW s \in Sessions, CreateBranch(s) PROVE Kept
    BY <2>1, <2>3 DEF CreateBranch, SaveDeparting
  <2>4. ASSUME NEW s \in Sessions, SwitchBranch(s) PROVE Kept
    BY <2>1, <2>4 DEF SwitchBranch, SaveDeparting
  <2>5. ASSUME NEW s \in Sessions, DropBranch(s) PROVE Kept
    BY <2>1, <2>5 DEF DropBranch
  <2>6. ASSUME NEW s \in Sessions, Step(s) PROVE Kept
    BY <2>2, <2>3, <2>4, <2>5, <2>6
       DEF Step, Gather, ReadNodes, ReadEdges, ReadThreads, ReadMembers, ReadEvidence,
           StoreSnapshot, LoadSnapshot, RestoreSnapshot, LoadTarget, CheckInactive,
           ReadPath, SetPath, rows
  <2>7. ASSUME NEW s \in Sessions, Ask(s) \/ EditLive(s) \/ DeleteSnapshot(s) \/ Abort(s)
        PROVE Kept
    BY <2>2, <2>7 DEF Ask, EditLive, DeleteSnapshot, Abort, rows
  <2>8. QED  BY <2>6, <2>7 DEF Next
<1>2. QED  BY <1>1, InvariantKept, PTL DEF Spec, InactiveKept

-----------------------------------------------------------------------------
(* One client. *)

(* A request that has read or looked up nothing has nothing to be wrong     *)
(* about.                                                                   *)
LEMMA OneQuiet ==
  ASSUME Alone, NEW s \in Sessions,
         req'[s].at \notin Reading \cup Gathered \cup {"restore", "drop"}
  PROVE  ClientHeld'
<1>1. \A u \in Sessions : u = s  BY DEF Alone
<1>2. QED  BY <1>1 DEF ClientHeld, ReadOK, LoadOK, Reading, Gathered

(* A request that is over.                                                  *)
LEMMA OneFinish ==
  ASSUME Alone, IInv, NEW s \in Sessions, Finish(s)
  PROVE  ClientHeld'
<1>1. req'[s] = Idle  BY DEF Finish, Go, IInv, TypeOK
<1>2. req'[s].at \notin Reading \cup Gathered \cup {"restore", "drop"}
  BY <1>1, IdleType DEF Reading, Gathered
<1>3. QED  BY <1>2, OneQuiet

(* A request that goes on with its gather.                                  *)
LEMMA OneRead ==
  ASSUME Alone, IInv, NEW s \in Sessions, NEW at \in (Reading \cup Gathered) \ {"switch"},
         NEW d \in Doc, NEW todo \in SUBSET Thread,
         Go(s, Read(req[s], at, d, todo)), live' = live,
         d.nodes = live.nodes,
         at \in {"threads", "members", "evidence"} \cup Gathered => d.edges = live.edges,
         at \in {"members", "evidence"} \cup Gathered => d.threads = live.threads,
         at = "members" => d.members = {m \in live.members : m[1] \notin todo},
         at \in {"evidence"} \cup Gathered => d.members = live.members,
         at \in Gathered => d.evidence = live.evidence
  PROVE  ClientHeld'
<1>1. at \in Statement  BY DEF Reading, Gathered, Statement
<1>2. PICK r \in Request : r = Read(req[s], at, d, todo) /\ r.at = at /\ r.got = d /\ r.todo = todo
  BY <1>1, Held, ReadType
<1>3. req'[s] = r  BY <1>2 DEF Go, IInv, TypeOK
<1>4. \A u \in Sessions : req'[u] = r  BY <1>3 DEF Alone
<1>5. at \notin {"restore", "drop", "switch"}  BY DEF Reading, Gathered
<1>6. QED  BY <1>2, <1>4, <1>5 DEF ClientHeld, ReadOK, LoadOK

(* What the client's request has read.                                      *)
LEMMA OneHeld ==
  ASSUME OneInv, NEW s \in Sessions
  PROVE  /\ IInv /\ ReadOK(req[s]) /\ LoadOK(req[s])
         /\ req[s] \in Request /\ req[s].got \in Doc /\ live \in Doc /\ Sound(live)
  BY Held DEF OneInv, ClientHeld

(* Documents with the same rows are the same.                               *)
LEMMA SameDoc ==
  ASSUME NEW d \in Doc, NEW e \in Doc, d.nodes = e.nodes, d.edges = e.edges,
         d.threads = e.threads, d.members = e.members, d.evidence = e.evidence
  PROVE  d = e
  BY DEF Doc

(* When the client's gather is done, it has the live tables.                *)
LEMMA GatheredLive ==
  ASSUME OneInv, NEW s \in Sessions, req[s].at \in Gathered
  PROVE  req[s].got = live
  BY OneHeld, SameDoc DEF ReadOK

(* The reads of a gather, one table after the other.                        *)
LEMMA OneGather ==
  ASSUME Alone, OneInv, NEW s \in Sessions, Gather(s)
  PROVE  ClientHeld'
<1> DEFINE got == req[s].got
<1>1. /\ IInv /\ ReadOK(req[s]) /\ got \in Doc /\ live \in Doc /\ req[s] \in Request
      /\ GatherOK(s, req[s], grew, live.nodes) /\ Sound(live)
  BY OneHeld, Held
<1>2. CASE ReadNodes(s)
  <2> DEFINE d == [got EXCEPT !.nodes = live.nodes]
  <2>1. d \in Doc /\ d.nodes = live.nodes  BY <1>1, DocWith DEF Doc
  <2>2. Go(s, Read(req[s], "edges", d, {})) /\ live' = live  BY <1>2 DEF ReadNodes
  <2>3. "edges" \in (Reading \cup Gathered) \ {"switch"} /\ "edges" \notin Gathered
    BY DEF Reading, Gathered
  <2> HIDE DEF d
  <2>4. QED  BY <1>1, <2>1, <2>2, <2>3, OneRead
<1>3. CASE ReadEdges(s)
  <2> DEFINE d == [got EXCEPT !.edges = live.edges]
  <2>1. d \in Doc /\ d.nodes = got.nodes /\ d.edges = live.edges  BY <1>1, DocWith DEF Doc
  <2>2. Go(s, Read(req[s], "threads", d, {})) /\ live' = live  BY <1>3 DEF ReadEdges
  <2>3. "threads" \in (Reading \cup Gathered) \ {"switch"} /\ "threads" \notin Gathered
    BY DEF Reading, Gathered
  <2>4. got.nodes = live.nodes  BY <1>1, <1>3 DEF ReadEdges, ReadOK, Reading
  <2> HIDE DEF d
  <2>5. QED  BY <1>1, <2>1, <2>2, <2>3, <2>4, OneRead
<1>4. CASE ReadThreads(s)
  <2> DEFINE d == [got EXCEPT !.threads = live.threads]
             at == MembersNext(live.threads)
  <2>1. d \in Doc /\ d.nodes = got.nodes /\ d.edges = got.edges /\ d.threads = live.threads
        /\ d.members = got.members
    BY <1>1, DocWith DEF Doc
  <2>2. Go(s, Read(req[s], at, d, live.threads)) /\ live' = live  BY <1>4 DEF ReadThreads
  <2>3. at \in (Reading \cup Gathered) \ {"switch"} /\ at \notin Gathered
    BY DEF MembersNext, Reading, Gathered
  <2>4. got.nodes = live.nodes /\ got.edges = live.edges /\ got.members = {}
    BY <1>1, <1>4 DEF ReadThreads, ReadOK, Reading, GatherOK
  <2>5. at = "evidence" => live.members = {}
    BY <1>1 DEF MembersNext, Sound, Doc
  <2>6. {m \in live.members : m[1] \notin live.threads} = {} /\ live.threads \in SUBSET Thread
    BY <1>1 DEF Sound, Doc
  <2> HIDE DEF d, at
  <2>7. QED  BY <1>1, <2>1, <2>2, <2>3, <2>4, <2>5, <2>6, OneRead
<1>5. CASE ReadMembers(s)
  <2>1. PICK t \in req[s].todo :
          LET left == req[s].todo \ {t}
              ms == got.members \cup OnThread(live, t)
          IN  Go(s, Read(req[s], MembersNext(left), [got EXCEPT !.members = ms], left))
    BY <1>5 DEF ReadMembers
  <2> DEFINE left == req[s].todo \ {t}
             ms == got.members \cup OnThread(live, t)
             d == [got EXCEPT !.members = ms]
             at == MembersNext(left)
  <2>2. /\ got.nodes = live.nodes /\ got.edges = live.edges /\ got.threads = live.threads
        /\ got.members = {m \in live.members : m[1] \notin req[s].todo}
    BY <1>1, <1>5 DEF ReadMembers, ReadOK, Reading
  <2>3. ms = {m \in live.members : m[1] \notin left}  BY <2>2 DEF OnThread
  <2>4. d \in Doc /\ d.nodes = got.nodes /\ d.edges = got.edges /\ d.threads = got.threads
        /\ d.members = ms
    <3>1. d \in Doc  BY <1>1, OnThreadType, DocWith
    <3> HIDE DEF ms
    <3>2. QED  BY <1>1, <3>1 DEF Doc
  <2>5. at = "evidence" => ms = live.members  BY <2>3 DEF MembersNext
  <2>6. at \in (Reading \cup Gathered) \ {"switch"} /\ at \notin Gathered
    BY DEF MembersNext, Reading, Gathered
  <2>7. left \in SUBSET Thread  BY <1>1 DEF Request
  <2>8. Go(s, Read(req[s], at, d, left)) /\ live' = live  BY <1>5, <2>1 DEF ReadMembers
  <2> HIDE DEF d, at, ms, left
  <2>9. QED  BY <1>1, <2>2, <2>3, <2>4, <2>5, <2>6, <2>7, <2>8, OneRead
<1>6. CASE ReadEvidence(s)
  <2> DEFINE d == [got EXCEPT !.evidence = live.evidence]
             at == AfterGather(req[s].op)
  <2>1. d \in Doc /\ d.nodes = got.nodes /\ d.edges = got.edges /\ d.threads = got.threads
        /\ d.members = got.members /\ d.evidence = live.evidence
    <3>1. d \in Doc  BY <1>1, DocWith
    <3>2. QED  BY <1>1, <3>1 DEF Doc
  <2>2. Go(s, Read(req[s], at, d, {})) /\ live' = live  BY <1>6 DEF ReadEvidence
  <2>3. at \in {"store", "branch", "target"}
    BY DEF AfterGather
  <2>4. at \in (Reading \cup Gathered) \ {"switch"} /\ at # "members"
    BY <2>3 DEF Reading, Gathered
  <2>5. got.nodes = live.nodes /\ got.edges = live.edges /\ got.threads = live.threads
        /\ got.members = live.members
    BY <1>1, <1>6 DEF ReadEvidence, ReadOK, Reading
  <2>6. d.nodes = live.nodes /\ d.edges = live.edges /\ d.threads = live.threads
        /\ d.members = live.members /\ d.evidence = live.evidence
    BY <2>1, <2>5
  <2>7. PICK todo \in SUBSET Thread : todo = {}  OBVIOUS
  <2> HIDE DEF d, at
  <2>8. Go(s, Read(req[s], at, d, todo)) /\ d \in Doc  BY <2>1, <2>2, <2>7
  <2>9. QED  BY <1>1, <2>2, <2>4, <2>6, <2>8, OneRead
<1>7. QED  BY <1>2, <1>3, <1>4, <1>5, <1>6 DEF Gather

(* A client that begins, edits or gives up has nothing to be wrong about.   *)
LEMMA OneOther ==
  ASSUME Alone, OneInv, NEW s \in Sessions,
         Ask(s) \/ EditLive(s) \/ DeleteSnapshot(s) \/ Abort(s)
  PROVE  ClientHeld' /\ StoredRestorable' /\ (branches # {} => active \in branches)'
<1>1. IInv /\ StoredRestorable /\ (branches # {} => active \in branches)  BY DEF OneInv
<1>2. CASE Ask(s)
  <2>1. PICK r \in ClientRequests : Go(s, r)  BY <1>2 DEF Ask
  <2>2. req'[s] = r  BY <1>1, <2>1 DEF Go, IInv, TypeOK
  <2>3. r.at \in {"nodes", "load", "check", "path"}  BY ClientRequestType
  <2>4. req'[s].at \notin Reading \cup Gathered \cup {"restore", "drop"}
    BY <2>2, <2>3 DEF Reading, Gathered
  <2>5. ClientHeld'  BY <2>4, OneQuiet
  <2>6. QED  BY <1>1, <1>2, <2>5 DEF Ask, rows, StoredRestorable
<1>3. CASE EditLive(s)
  <2>1. req'[s].at \notin Reading \cup Gathered \cup {"restore", "drop"}
    BY <1>3 DEF EditLive, Reading, Gathered
  <2>2. ClientHeld'  BY <2>1, OneQuiet
  <2>3. QED  BY <1>1, <1>3, <2>2 DEF EditLive, rows, StoredRestorable
<1>4. CASE DeleteSnapshot(s)
  <2>1. req'[s].at \notin Reading \cup Gathered \cup {"restore", "drop"}
    BY <1>4 DEF DeleteSnapshot, Reading, Gathered
  <2>2. ClientHeld'  BY <2>1, OneQuiet
  <2>3. PICK p \in snapshots : snapshots' = snapshots \ {p} /\ shot' = [shot EXCEPT ![p] = Empty]
    BY <1>4 DEF DeleteSnapshot
  <2>4. \A q \in snapshots' : Sound(shot'[q])  BY <1>1, <2>3 DEF StoredRestorable, IInv, TypeOK
  <2>5. QED  BY <1>1, <1>4, <2>2, <2>4 DEF DeleteSnapshot, StoredRestorable
<1>5. CASE Abort(s)
  <2>1. ClientHeld'  BY <1>1, <1>5, OneFinish DEF Abort
  <2>2. QED  BY <1>1, <1>5, <2>1 DEF Abort, rows, StoredRestorable
<1>6. QED  BY <1>2, <1>3, <1>4, <1>5

(* What SaveDeparting leaves in the rows of the branches: a gathered        *)
(* document, or what was there.                                             *)
LEMMA SavedSound ==
  ASSUME IInv, StoredRestorable, NEW d \in Doc, Sound(d), NEW b \in branches
  PROVE  Sound(SaveDeparting(d)[b]) /\ b \in Branch
  BY DEF IInv, TypeOK, StoredRestorable, SaveDeparting

(* The rows CreateBranch leaves: the new branches and the departing one get *)
(* the document, the others keep theirs.                                    *)
LEMMA CreatedRows ==
  ASSUME IInv, NEW d \in Doc, NEW main \in Branch, NEW new \in Branch,
         saved' = [SaveDeparting(d) EXCEPT ![main] = d, ![new] = d]
  PROVE  /\ saved' \in [Branch -> Doc]
         /\ \A b \in Branch : saved'[b] = IF b \in {main, new, active} THEN d ELSE saved[b]
<1> DEFINE f == SaveDeparting(d)
           g == [f EXCEPT ![main] = d]
<1>1. f \in [Branch -> Doc] /\ \A b \in Branch : f[b] = IF b = active THEN d ELSE saved[b]
  BY DEF SaveDeparting, IInv, TypeOK
<1> HIDE DEF f
<1>2. g \in [Branch -> Doc] /\ \A b \in Branch : g[b] = IF b = main THEN d ELSE f[b]
  BY <1>1
<1>3. saved' = [g EXCEPT ![new] = d]  BY DEF f
<1> HIDE DEF g
<1>4. saved' \in [Branch -> Doc] /\ \A b \in Branch : saved'[b] = IF b = new THEN d ELSE g[b]
  BY <1>2, <1>3
<1>5. QED  BY <1>1, <1>2, <1>4

(* The client's own rows: what it gathered is stored, what it looked up is  *)
(* restored, dropped or switched to.                                        *)
LEMMA OneRows ==
  ASSUME Alone, OneInv, NEW s \in Sessions, Step(s)
  PROVE  ClientHeld' /\ StoredRestorable' /\ (branches # {} => active \in branches)'
<1>1. IInv /\ StoredRestorable /\ (branches # {} => active \in branches)  BY DEF OneInv
<1>2. /\ ReadOK(req[s]) /\ LoadOK(req[s]) /\ req[s] \in Request
      /\ live \in Doc /\ Sound(live) /\ req \in [Sessions -> Request]
  BY <1>1, OneHeld DEF IInv, TypeOK
<1>3. CASE Gather(s)
  <2>1. ClientHeld'  BY <1>3, OneGather
  <2>2. UNCHANGED rows
    BY <1>3 DEF Gather, ReadNodes, ReadEdges, ReadThreads, ReadMembers, ReadEvidence
  <2>3. QED  BY <1>1, <2>1, <2>2 DEF rows, StoredRestorable
<1>4. CASE StoreSnapshot(s)
  <2>1. ClientHeld'  BY <1>1, <1>4, OneFinish DEF StoreSnapshot
  <2>2. req[s].got = live  BY <1>4, GatheredLive DEF StoreSnapshot, Gathered
  <2>3. PICK p \in Snapshot : snapshots' = snapshots \cup {p} /\ shot' = [shot EXCEPT ![p] = live]
    BY <1>4, <2>2 DEF StoreSnapshot
  <2>4. \A q \in snapshots' : Sound(shot'[q])
    BY <1>1, <1>2, <2>3 DEF StoredRestorable, IInv, TypeOK
  <2>5. QED  BY <1>1, <1>4, <2>1, <2>4 DEF StoreSnapshot, StoredRestorable
<1>5. CASE LoadSnapshot(s)
  <2>1. UNCHANGED <<live, rows>>  BY <1>5 DEF LoadSnapshot
  <2>2. CASE req[s].id \in snapshots
    <3>1. PICK r : r = [req[s] EXCEPT !.at = "restore", !.target = shot[req[s].id]]  OBVIOUS
    <3>2. r.at = "restore" /\ r.id = req[s].id /\ r.target = shot[req[s].id]
      BY <1>2, <3>1 DEF Request
    <3>3. req'[s] = r  BY <1>2, <1>5, <2>2, <3>1 DEF LoadSnapshot, Go
    <3>4. \A u \in Sessions : req'[u] = r  BY <3>3 DEF Alone
    <3>5. ClientHeld'
      BY <2>1, <2>2, <3>2, <3>4 DEF ClientHeld, ReadOK, LoadOK, Reading, Gathered, rows
    <3>6. QED  BY <1>1, <2>1, <3>5 DEF rows, StoredRestorable
  <2>3. CASE req[s].id \notin snapshots
    <3>1. ClientHeld'  BY <1>1, <1>5, <2>3, OneFinish DEF LoadSnapshot, Finish
    <3>2. QED  BY <1>1, <2>1, <3>1 DEF rows, StoredRestorable
  <2>4. QED  BY <2>2, <2>3
<1>6. CASE RestoreSnapshot(s) \/ SetPath(s)
  <2>1. ClientHeld'  BY <1>1, <1>6, OneFinish DEF RestoreSnapshot, SetPath
  <2>2. UNCHANGED rows  BY <1>6 DEF RestoreSnapshot, SetPath
  <2>3. QED  BY <1>1, <2>1, <2>2 DEF rows, StoredRestorable
<1>7. CASE CreateBranch(s)
  <2>1. ClientHeld'  BY <1>1, <1>7, OneFinish DEF CreateBranch
  <2>2. req[s].got = live  BY <1>7, GatheredLive DEF CreateBranch, Gathered
  <2>3. PICK new \in Branch \ used, main \in Branch \ used :
          /\ branches' = branches \cup {main, new} /\ active' = new
          /\ saved' = [SaveDeparting(live) EXCEPT ![main] = live, ![new] = live]
    BY <1>7, <2>2 DEF CreateBranch
  <2>4. \A b \in Branch : saved'[b] = IF b \in {main, new, active} THEN live ELSE saved[b]
    BY <1>1, <1>2, <2>3, CreatedRows
  <2>5. \A b \in branches' : Sound(saved'[b])
    BY <1>1, <1>2, <2>3, <2>4 DEF StoredRestorable, IInv, TypeOK
  <2>6. QED  BY <1>1, <1>7, <2>1, <2>3, <2>5 DEF CreateBranch, StoredRestorable
<1>8. CASE LoadTarget(s)
  <2>1. UNCHANGED <<live, rows>> /\ req[s].at = "target"  BY <1>8 DEF LoadTarget
  <2>2. CASE req[s].id \in branches /\ req[s].id # active
    <3>1. PICK r : r = [req[s] EXCEPT !.at = "switch", !.target = saved[req[s].id]]  OBVIOUS
    <3>2. r.at = "switch" /\ r.id = req[s].id /\ r.target = saved[req[s].id] /\ r.got = req[s].got
      BY <1>2, <3>1 DEF Request
    <3>3. req'[s] = r  BY <1>2, <1>8, <2>2, <3>1 DEF LoadTarget, Go
    <3>4. \A u \in Sessions : req'[u] = r  BY <3>3 DEF Alone
    <3>5. req[s].got = live  BY <2>1, GatheredLive DEF Gathered
    <3>6. ClientHeld'
      BY <2>1, <2>2, <3>2, <3>4, <3>5 DEF ClientHeld, ReadOK, LoadOK, Reading, Gathered, rows
    <3>7. QED  BY <1>1, <2>1, <3>6 DEF rows, StoredRestorable
  <2>3. CASE ~ (req[s].id \in branches /\ req[s].id # active)
    <3>1. ClientHeld'  BY <1>1, <1>8, <2>3, OneFinish DEF LoadTarget, Finish
    <3>2. QED  BY <1>1, <2>1, <3>1 DEF rows, StoredRestorable
  <2>4. QED  BY <2>2, <2>3
<1>9. CASE SwitchBranch(s)
  <2>1. ClientHeld'  BY <1>1, <1>9, OneFinish DEF SwitchBranch
  <2>2. req[s].got = live /\ req[s].id \in branches
    BY <1>2, <1>9, GatheredLive DEF SwitchBranch, Gathered, LoadOK
  <2>3. \A b \in branches : Sound(SaveDeparting(live)[b])  BY <1>1, <1>2, SavedSound
  <2>4. \/ UNCHANGED <<saved, active, branches, snapshots, shot>>
        \/ /\ saved' = SaveDeparting(live) /\ active' = req[s].id
           /\ UNCHANGED <<branches, snapshots, shot>>
    BY <1>9, <2>2 DEF SwitchBranch, Marked
  <2>5. QED  BY <1>1, <2>1, <2>2, <2>3, <2>4 DEF StoredRestorable
<1>10. CASE CheckInactive(s)
  <2>1. UNCHANGED <<live, rows>>  BY <1>10 DEF CheckInactive
  <2>2. CASE req[s].id \in branches /\ req[s].id # active
    <3>1. PICK r : r = [req[s] EXCEPT !.at = "drop"]  OBVIOUS
    <3>2. r.at = "drop" /\ r.id = req[s].id  BY <1>2, <3>1 DEF Request
    <3>3. req'[s] = r  BY <1>2, <1>10, <2>2, <3>1 DEF CheckInactive, Go
    <3>4. \A u \in Sessions : req'[u] = r  BY <3>3 DEF Alone
    <3>5. ClientHeld'
      BY <2>1, <2>2, <3>2, <3>4 DEF ClientHeld, ReadOK, LoadOK, Reading, Gathered, rows
    <3>6. QED  BY <1>1, <2>1, <3>5 DEF rows, StoredRestorable
  <2>3. CASE ~ (req[s].id \in branches /\ req[s].id # active)
    <3>1. ClientHeld'  BY <1>1, <1>10, <2>3, OneFinish DEF CheckInactive, Finish
    <3>2. QED  BY <1>1, <2>1, <3>1 DEF rows, StoredRestorable
  <2>4. QED  BY <2>2, <2>3
<1>11. CASE DropBranch(s)
  <2> DEFINE left == Collapsed(branches \ {req[s].id})
  <2>1. ClientHeld'  BY <1>1, <1>11, OneFinish DEF DropBranch
  <2>2. /\ branches' = left /\ saved' = [b \in Branch |-> IF b \in left THEN saved[b] ELSE Empty]
        /\ active' = (IF active \in left THEN active ELSE None) /\ UNCHANGED <<snapshots, shot>>
    BY <1>11 DEF DropBranch
  <2>3. req[s].id \in branches \ {active}  BY <1>2, <1>11 DEF DropBranch, LoadOK
  <2>4. left \subseteq branches /\ (left # {} => active \in left)
    BY <1>1, <2>3 DEF Collapsed
  <2> HIDE DEF left
  <2>5. \A b \in left : Sound(saved'[b])
    BY <1>1, <2>2, <2>4 DEF StoredRestorable, IInv, TypeOK
  <2>6. QED  BY <1>1, <2>1, <2>2, <2>4, <2>5 DEF StoredRestorable
<1>12. CASE ReadPath(s)
  <2>1. UNCHANGED <<live, rows>>  BY <1>12 DEF ReadPath
  <2> DEFINE d == [req[s].got EXCEPT !.members = OnThread(live, req[s].id)]
  <2>2. CASE Go(s, Read(req[s], "set", d, {}))
    <3>1. d \in Doc /\ "set" \in Statement  BY <1>1, Held, DocWith, OnThreadType DEF Statement
    <3> HIDE DEF d
    <3>2. Read(req[s], "set", d, {}).at = "set"  BY <1>2, <3>1, ReadType
    <3>3. req'[s] = Read(req[s], "set", d, {})  BY <1>2, <2>2 DEF Go
    <3>4. req'[s].at \notin Reading \cup Gathered \cup {"restore", "drop"}
      BY <3>2, <3>3 DEF Reading, Gathered
    <3>5. ClientHeld'  BY <3>4, OneQuiet
    <3>6. QED  BY <1>1, <2>1, <3>5 DEF rows, StoredRestorable
  <2>3. CASE Finish(s)
    <3>1. ClientHeld'  BY <1>1, <2>3, OneFinish
    <3>2. QED  BY <1>1, <2>1, <3>1 DEF rows, StoredRestorable
  <2>4. QED  BY <1>12, <2>2, <2>3 DEF ReadPath, Finish
<1>13. QED
  BY <1>3, <1>4, <1>5, <1>6, <1>7, <1>8, <1>9, <1>10, <1>11, <1>12 DEF Step

(* Every step of the one client keeps the invariant.                        *)
LEMMA OneStep == Alone /\ OneInv /\ [Next]_vars => OneInv'
<1> SUFFICES ASSUME Alone, OneInv, [Next]_vars PROVE OneInv'  OBVIOUS
<1>1. IInv'  BY StepInv DEF OneInv
<1>2. CASE UNCHANGED vars
  <2>1. ClientHeld' /\ StoredRestorable' /\ (branches # {} => active \in branches)'
    BY <1>2 DEF vars, OneInv, ClientHeld, ReadOK, LoadOK, StoredRestorable
  <2>2. QED  BY <1>1, <2>1 DEF OneInv
<1>3. ASSUME NEW s \in Sessions, Ask(s) \/ EditLive(s) \/ DeleteSnapshot(s) \/ Step(s) \/ Abort(s)
      PROVE OneInv'
  BY <1>1, <1>3, OneOther, OneRows DEF OneInv
<1>4. QED  BY <1>2, <1>3 DEF Next

(* A new project with one client.                                           *)
LEMMA OneInit == Init => OneInv
<1> SUFFICES ASSUME Init PROVE OneInv  OBVIOUS
<1>1. IInv  BY InitInv
<1>2. ClientHeld
  BY IdleType DEF Init, ClientHeld, ReadOK, LoadOK, Reading, Gathered
<1>3. QED  BY <1>1, <1>2 DEF Init, OneInv, StoredRestorable

(* With one client every stored document can be restored: snapshots and     *)
(* branches hold what the live tables were in one instant.                  *)
THEOREM OneClientRestorable ==
  ASSUME Alone
  PROVE  Spec => []StoredRestorable
<1>1. OneInv => StoredRestorable  BY DEF OneInv
<1>2. OneInv /\ [Next]_vars => OneInv'  BY OneStep
<1>3. QED  BY <1>1, <1>2, OneInit, PTL DEF Spec

-----------------------------------------------------------------------------
(* The refinement of BranchedDoc. *)

(* Steps that leave the live tables and the rows alone stutter; those that  *)
(* only change the live tables are edits of the work.                       *)
LEMMA AbstractEdit ==
  ASSUME IInv', UNCHANGED rows
  PROVE  [Abstract!Next]_Abstract!vars
<1>1. live' \in Doc  BY DEF IInv, TypeOK
<1>2. UNCHANGED <<snapshots, shot, branches, saved, active>>  BY DEF rows
<1>3. Abstract!Edit  BY <1>1, <1>2 DEF Abstract!Edit
<1>4. QED  BY <1>3 DEF Abstract!Next

(* A snapshot stored is one taken: it holds the live tables.                *)
LEMMA AbstractTake ==
  ASSUME OneInv, NEW s \in Sessions, StoreSnapshot(s)
  PROVE  Abstract!Next
<1>1. req[s].got = live  BY GatheredLive DEF StoreSnapshot, Gathered
<1>2. PICK p \in Snapshot : /\ p \notin used /\ snapshots' = snapshots \cup {p}
                            /\ shot' = [shot EXCEPT ![p] = live]
  BY <1>1 DEF StoreSnapshot, Fresh
<1>3. UNCHANGED <<live, branches, saved, active>>  BY DEF StoreSnapshot
<1>4. snapshots \subseteq Snapshot \cap used /\ shot \in [Snapshot -> Doc]
  BY DEF OneInv, IInv, TypeOK
<1>5. Abstract!Take(p)  BY <1>2, <1>3, <1>4 DEF Abstract!Take
<1>6. QED  BY <1>5 DEF Abstract!Next

(* A snapshot deleted is one discarded.                                     *)
LEMMA AbstractDiscard ==
  ASSUME OneInv, NEW s \in Sessions, DeleteSnapshot(s)
  PROVE  Abstract!Next
<1>1. PICK p \in snapshots : snapshots' = snapshots \ {p} /\ shot' = [shot EXCEPT ![p] = Empty]
  BY DEF DeleteSnapshot
<1>2. UNCHANGED <<live, branches, saved, active>>  BY DEF DeleteSnapshot
<1>3. snapshots \subseteq Snapshot /\ shot \in [Snapshot -> Doc]
  BY DEF OneInv, IInv, TypeOK
<1>4. Abstract!Discard(p)  BY <1>1, <1>2, <1>3 DEF Abstract!Discard
<1>5. QED  BY <1>1, <1>4 DEF Abstract!Next

(* The first split shelves the work under a new name; the later ones under  *)
(* the name it had.                                                         *)
LEMMA AbstractSplit ==
  ASSUME OneInv, NEW s \in Sessions, CreateBranch(s)
  PROVE  Abstract!Next
<1>1. IInv /\ (branches # {} => active \in branches) /\ live \in Doc
      /\ branches \subseteq Branch \cap used /\ active \in branches \cup {None}
      /\ None \notin Branch
  BY RevisionsAssumption DEF OneInv, IInv, TypeOK
<1>2. req[s].got = live  BY GatheredLive DEF CreateBranch, Gathered
<1>3. PICK new \in Branch \ used, main \in Branch \ used :
        /\ branches = {} <=> main # new
        /\ branches' = branches \cup {main, new} /\ active' = new
        /\ saved' = [SaveDeparting(live) EXCEPT ![main] = live, ![new] = live]
  BY <1>2 DEF CreateBranch
<1>4. \A b \in Branch : saved'[b] = IF b \in {main, new, active} THEN live ELSE saved[b]
  BY <1>1, <1>3, CreatedRows
<1>5. UNCHANGED <<live, snapshots, shot>>  BY DEF CreateBranch
<1>6. PICK old \in Branch : old = IF branches = {} THEN main ELSE active  BY <1>1
<1>7. /\ branches' \ {active'} = (branches \ {active}) \cup {old} /\ new # old
      /\ new \notin branches \ {active} /\ old \notin branches \ {active}
      /\ active \in {None, old} /\ (active = None => branches \ {active} = {})
  BY <1>1, <1>3, <1>6
<1>8. \A b \in branches' \ {active'} : saved'[b] = IF b = old THEN live ELSE saved[b]
  BY <1>1, <1>3, <1>4, <1>6, <1>7
<1>9. Abstract!Split(new, old)
  BY <1>3, <1>5, <1>7, <1>8 DEF Abstract!Split, Abstract!Shelve
<1>10. QED  BY <1>9 DEF Abstract!Next

(* A snapshot restored is the work it held.                                 *)
LEMMA AbstractRestore ==
  ASSUME OneInv, NEW s \in Sessions, RestoreSnapshot(s)
  PROVE  Abstract!Next
<1> DEFINE p == req[s].id
<1>1. p \in snapshots /\ req[s].target = shot[p]
  BY OneHeld DEF RestoreSnapshot, LoadOK
<1>2. Sound(shot[p])  BY <1>1 DEF OneInv, StoredRestorable
<1>3. live' = shot[p]  BY <1>1, <1>2 DEF RestoreSnapshot, Commit, Restored
<1>4. UNCHANGED rows  BY DEF RestoreSnapshot
<1>5. Abstract!Restore(p)  BY <1>1, <1>3, <1>4 DEF Abstract!Restore, rows
<1>6. QED  BY <1>1, <1>5 DEF Abstract!Next

(* A switch shelves the work and takes up what was left on the other branch. *)
LEMMA AbstractSwitch ==
  ASSUME OneInv, NEW s \in Sessions, SwitchBranch(s)
  PROVE  Abstract!Next
<1>1. PICK b : b = req[s].id  OBVIOUS
<1>2. b \in branches \ {active} /\ req[s].target = saved[b] /\ req[s].got = live
  BY <1>1, OneHeld, GatheredLive DEF SwitchBranch, LoadOK, Gathered
<1>3. Sound(saved[b]) /\ active \in branches /\ branches \subseteq Branch
  BY <1>2 DEF OneInv, StoredRestorable, IInv, TypeOK
<1>4. /\ saved' = SaveDeparting(live) /\ active' = b /\ live' = saved[b]
      /\ UNCHANGED <<branches, snapshots, shot>>
  BY <1>1, <1>2, <1>3 DEF SwitchBranch, Marked, Commit
<1>5. \A c \in branches : saved'[c] = IF c = active THEN live ELSE saved[c]
  BY <1>3, <1>4 DEF SaveDeparting
<1>6. Abstract!Switch(b)
  BY <1>2, <1>3, <1>4, <1>5 DEF Abstract!Switch, Abstract!Shelve
<1>7. QED  BY <1>2, <1>6 DEF Abstract!Next

(* A branch dropped leaves the shelf, and with the last one the current     *)
(* branch has no name any more.                                             *)
LEMMA AbstractDelete ==
  ASSUME OneInv, NEW s \in Sessions, DropBranch(s)
  PROVE  Abstract!Next
<1>1. PICK b : b = req[s].id  OBVIOUS
<1>2. b \in branches \ {active} /\ active \in branches /\ branches \subseteq Branch
  BY <1>1, OneHeld DEF DropBranch, LoadOK, OneInv, IInv, TypeOK
<1>3. PICK left : left = Collapsed(branches \ {b})  OBVIOUS
<1>4. /\ branches' = left /\ saved' = [c \in Branch |-> IF c \in left THEN saved[c] ELSE Empty]
      /\ active' = (IF active \in left THEN active ELSE None)
      /\ UNCHANGED <<live, snapshots, shot>>
  BY <1>1, <1>3 DEF DropBranch
<1>5. CASE branches \ {active} = {b}
  <2>1. branches \ {b} = {active}  BY <1>2, <1>5
  <2>2. left = {}  BY <1>3, <2>1 DEF Collapsed
  <2>3. Abstract!Delete(b)  BY <1>4, <1>5, <2>2 DEF Abstract!Delete
  <2>4. QED  BY <1>2, <2>3 DEF Abstract!Next
<1>6. CASE branches \ {active} # {b}
  <2>1. left = branches \ {b}
    <3>1. \A c \in branches \ {b} : branches \ {b} # {c}  BY <1>2, <1>6
    <3>2. QED  BY <1>3, <3>1 DEF Collapsed
  <2>2. active' = active /\ left \ {active} = (branches \ {active}) \ {b}
        /\ \A c \in left : saved'[c] = saved[c]
    BY <1>2, <1>4, <2>1
  <2>3. Abstract!Delete(b)  BY <1>4, <1>6, <2>2 DEF Abstract!Delete
  <2>4. QED  BY <1>2, <2>3 DEF Abstract!Next
<1>7. QED  BY <1>5, <1>6

(* Every step of the one client is a step of BranchedDoc or leaves it be.   *)
LEMMA AbstractStep ==
  ASSUME OneInv, IInv', [Next]_vars
  PROVE  [Abstract!Next]_Abstract!vars
<1>1. CASE UNCHANGED vars
  BY <1>1, AbstractEdit DEF vars, rows
<1>2. ASSUME NEW s \in Sessions, Ask(s) \/ EditLive(s) \/ DeleteSnapshot(s) \/ Abort(s)
      PROVE  [Abstract!Next]_Abstract!vars
  BY <1>2, AbstractEdit, AbstractDiscard DEF Ask, EditLive, Abort
<1>3. ASSUME NEW s \in Sessions, Step(s)
      PROVE  [Abstract!Next]_Abstract!vars
  <2>1. CASE \/ Gather(s) \/ LoadSnapshot(s) \/ LoadTarget(s) \/ CheckInactive(s)
             \/ ReadPath(s) \/ SetPath(s)
    <3>1. UNCHANGED rows
      BY <2>1 DEF Gather, ReadNodes, ReadEdges, ReadThreads, ReadMembers, ReadEvidence,
                  LoadSnapshot, LoadTarget, CheckInactive, ReadPath, SetPath
    <3>2. QED  BY <3>1, AbstractEdit
  <2>2. CASE \/ StoreSnapshot(s) \/ RestoreSnapshot(s) \/ CreateBranch(s) \/ SwitchBranch(s)
             \/ DropBranch(s)
    BY <2>2, AbstractTake, AbstractRestore, AbstractSplit, AbstractSwitch, AbstractDelete
  <2>3. QED  BY <1>3, <2>1, <2>2 DEF Step
<1>4. QED  BY <1>1, <1>2, <1>3 DEF Next

(* One client's snapshots and branches are what BranchedDoc promises: the   *)
(* work of one instant each, kept as it was left through whatever happens   *)
(* to the others.                                                           *)
THEOREM OneClientImplements ==
  ASSUME Alone
  PROVE  Spec => ImplementsBranchedDoc
<1>1. Init => Abstract!Init
  BY EmptySound DEF Init, Abstract!Init
<1>2. OneInv /\ [Next]_vars => OneInv'  BY OneStep
<1>3. OneInv /\ OneInv' /\ [Next]_vars => [Abstract!Next]_Abstract!vars
  BY AbstractStep DEF OneInv
<1>4. QED
  BY <1>1, <1>2, <1>3, OneInit, PTL DEF Spec, ImplementsBranchedDoc, Abstract!Spec

=============================================================================
