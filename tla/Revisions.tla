------------------------------ MODULE Revisions ------------------------------
(***************************************************************************)
(* Snapshots and branches (internal/doc/sqlite.go, internal/web's dag and  *)
(* thread handlers).  gatherDAGState reads the live tables with one        *)
(* statement each, outside any transaction; saving or restoring what it    *)
(* read is a transaction of its own.  Requests run in goroutines of their  *)
(* own on the one connection, so a step is one statement or transaction.   *)
(*                                                                         *)
(* req[s] is the request session s has in flight:                          *)
(*   at       the statement it runs next ("idle": none in flight)          *)
(*   op, id   the operation, and the branch, snapshot or thread it names   *)
(*   node     the node a toggle names                                      *)
(*   got      what it has read of the live tables                          *)
(*   todo     threads whose members the gather has still to read           *)
(*   target   the stored document it is going to restore                   *)
(***************************************************************************)
EXTENDS DocState, Integers

CONSTANTS
  Branch, Snapshot,   \* the ids there can ever be
  None,               \* no branch, no id
  Sessions,           \* requests that can be in flight at once
  Ops,                \* the operations the clients of this instance ask for
  Edits,              \* the kinds of single-statement edits they make
  MaxRequests,        \* bound: requests the clients make
  MaxEdits            \* bound: single-statement edits the clients make

AllOps == {"CreateSnapshot", "RestoreSnapshot", "CreateBranch", "SwitchBranch",
           "DeleteBranch", "ToggleNode", "AppendNode"}

AllEdits == {"AddNode", "DeleteNode", "AddEdge", "DeleteEdge", "AddEvidence",
             "AddThread", "DeleteThread", "DeleteSnapshot"}

ASSUME RevisionsAssumption ==
  /\ None \notin Branch
  /\ Ops \subseteq AllOps /\ Edits \subseteq AllEdits
  /\ MaxRequests \in Nat /\ MaxEdits \in Nat

VARIABLES
  live,        \* the live tables
  snapshots,   \* the snapshots that have a row
  shot,        \* snapshot -> the document in its row
  branches,    \* the branches that have a row
  saved,       \* branch -> the document in its row
  active,      \* the branch whose row is active (the index allows one), or None
  used,        \* ids handed out so far
  asked, edited,
  grew,        \* history: sessions since whose ListNodes some node was added
  req          \* session -> the request in flight

vars == <<live, snapshots, shot, branches, saved, active, used, asked, edited, grew, req>>

rows == <<snapshots, shot, branches, saved, active>>

Statement == {"idle", "nodes", "edges", "threads", "members", "evidence", "target", "load",
              "store", "branch", "switch", "restore", "check", "drop", "path", "set"}

Id == Branch \cup Snapshot \cup Thread \cup {None}

NewRequest(at, op, id, node) ==
  [at |-> at, op |-> op, id |-> id, node |-> node, got |-> Empty, todo |-> {}, target |-> Empty]

Idle == NewRequest("idle", "CreateSnapshot", None, None)

Request ==
  [at : Statement, op : AllOps, id : Id, node : Node \cup {None},
   got : Doc, todo : SUBSET Thread, target : Doc]

Init ==
  /\ live = Empty
  /\ snapshots = {} /\ shot = [p \in Snapshot |-> Empty]
  /\ branches = {} /\ saved = [b \in Branch |-> Empty] /\ active = None
  /\ used = {}
  /\ asked = 0 /\ edited = 0
  /\ grew = {}
  /\ req = [s \in Sessions |-> Idle]

-----------------------------------------------------------------------------
(* Requests arrive.  The bars list the branches, snapshots and threads that *)
(* have a row; when a button is pressed the row may be gone.                *)

GatherRequests ==
  {NewRequest("nodes", op, None, None) : op \in {"CreateSnapshot", "CreateBranch"}}
    \cup {NewRequest("nodes", "SwitchBranch", b, None) : b \in Branch \cap used}

RowRequests ==
  {NewRequest("load", "RestoreSnapshot", p, None) : p \in Snapshot \cap used}
    \cup {NewRequest("check", "DeleteBranch", b, None) : b \in Branch \cap used}

ThreadRequests ==
  {NewRequest("path", op, t, n) :
     op \in {"ToggleNode", "AppendNode"}, t \in Thread \cap used, n \in Node \cap used}

ClientRequests == GatherRequests \cup RowRequests \cup ThreadRequests

Go(s, r) == req' = [req EXCEPT ![s] = r]

Finish(s) == Go(s, Idle)

Ask(s) ==
  /\ req[s].at = "idle"
  /\ asked < MaxRequests
  /\ asked' = asked + 1
  /\ \E r \in ClientRequests : r.op \in Ops /\ Go(s, r)
  /\ UNCHANGED <<live, rows, used, edited, grew>>

(* The live tables become d. *)
Commit(d) ==
  /\ live' = d
  /\ grew' = IF d.nodes \subseteq live.nodes THEN grew ELSE Sessions

(* The edits that are one statement: the outline's, as far as the documents *)
(* copied here can tell them apart, and the creation and deletion of        *)
(* threads.  A broken foreign key makes a statement fail.                   *)
Fresh(x) == x \notin used /\ used' = used \cup {x}

EditLive(s) ==
  /\ req[s].at = "idle"
  /\ edited < MaxEdits
  /\ edited' = edited + 1
  /\ \/ "AddNode" \in Edits /\ \E n \in Node : Fresh(n) /\ Commit(AddNode(live, n))
     \/ "AddThread" \in Edits /\ \E t \in Thread : Fresh(t) /\ Commit(AddThread(live, t))
     \/ /\ UNCHANGED used
        /\ \/ "DeleteNode" \in Edits /\ \E n \in live.nodes : Commit(DeleteNode(live, n))
           \/ "AddEvidence" \in Edits /\ \E n \in live.nodes : Commit(AddEvidence(live, n))
           \/ /\ "AddEdge" \in Edits
              /\ \E m \in live.nodes, n \in live.nodes : m # n /\ Commit(AddEdge(live, m, n))
           \/ "DeleteEdge" \in Edits /\ \E e \in live.edges : Commit(DeleteEdge(live, e))
           \/ "DeleteThread" \in Edits /\ \E t \in live.threads : Commit(DeleteThread(live, t))
  /\ UNCHANGED <<rows, asked, req>>

DeleteSnapshot(s) ==
  /\ req[s].at = "idle"
  /\ "DeleteSnapshot" \in Edits
  /\ edited < MaxEdits
  /\ edited' = edited + 1
  /\ \E p \in snapshots :
       /\ snapshots' = snapshots \ {p}
       /\ shot' = [shot EXCEPT ![p] = Empty]
  /\ UNCHANGED <<live, branches, saved, active, used, asked, grew, req>>

-----------------------------------------------------------------------------
(* gatherDAGState: one statement after the other adds a table to what the   *)
(* request has read.                                                        *)
Read(r, at, d, todo) == [r EXCEPT !.at = at, !.got = d, !.todo = todo]

ReadNodes(s) ==
  LET got == req[s].got IN
  /\ req[s].at = "nodes"
  /\ Go(s, Read(req[s], "edges", [got EXCEPT !.nodes = live.nodes], {}))
  /\ grew' = grew \ {s}
  /\ UNCHANGED <<live, rows, used, asked, edited>>

ReadEdges(s) ==
  LET got == req[s].got IN
  /\ req[s].at = "edges"
  /\ Go(s, Read(req[s], "threads", [got EXCEPT !.edges = live.edges], {}))
  /\ UNCHANGED <<live, rows, used, asked, edited, grew>>

MembersNext(todo) == IF todo = {} THEN "evidence" ELSE "members"

ReadThreads(s) ==
  LET got == req[s].got
      ts == live.threads
  IN  /\ req[s].at = "threads"
      /\ Go(s, Read(req[s], MembersNext(ts), [got EXCEPT !.threads = ts], ts))
      /\ UNCHANGED <<live, rows, used, asked, edited, grew>>

ReadMembers(s) ==
  LET got == req[s].got IN
  /\ req[s].at = "members"
  /\ \E t \in req[s].todo :
       LET left == req[s].todo \ {t}
           ms == got.members \cup OnThread(live, t)
       IN  Go(s, Read(req[s], MembersNext(left), [got EXCEPT !.members = ms], left))
  /\ UNCHANGED <<live, rows, used, asked, edited, grew>>

AfterGather(op) ==
  CASE op = "CreateSnapshot" -> "store"
    [] op = "CreateBranch"   -> "branch"
    [] OTHER                 -> "target"

ReadEvidence(s) ==
  LET got == req[s].got IN
  /\ req[s].at = "evidence"
  /\ Go(s, Read(req[s], AfterGather(req[s].op), [got EXCEPT !.evidence = live.evidence], {}))
  /\ UNCHANGED <<live, rows, used, asked, edited, grew>>

-----------------------------------------------------------------------------
(* Snapshots. *)

StoreSnapshot(s) ==
  /\ req[s].at = "store"
  /\ \E p \in Snapshot :
       /\ Fresh(p)
       /\ snapshots' = snapshots \cup {p}
       /\ shot' = [shot EXCEPT ![p] = req[s].got]
  /\ Finish(s)
  /\ UNCHANGED <<live, branches, saved, active, asked, edited, grew>>

LoadSnapshot(s) ==
  /\ req[s].at = "load"
  /\ Go(s, IF req[s].id \in snapshots
           THEN [req[s] EXCEPT !.at = "restore", !.target = shot[req[s].id]]
           ELSE Idle)
  /\ UNCHANGED <<live, rows, used, asked, edited, grew>>

(* clearDAGTables and restoreDAGState; a failing INSERT rolls both back. *)
RestoredAnyway(d) == d                \* mutant: foreign keys are off

Restored(d) == IF Sound(d) THEN d ELSE live

RestoreSnapshot(s) ==
  /\ req[s].at = "restore"
  /\ Commit(Restored(req[s].target))
  /\ Finish(s)
  /\ UNCHANGED <<rows, used, asked, edited>>

-----------------------------------------------------------------------------
(* Branches. *)

\* mutant: UPDATE branches SET data = ... without WHERE active = 1
SaveEverywhere(d) == [b \in Branch |-> IF b \in branches THEN d ELSE Empty]

NothingSaved(d) == saved                  \* mutant: UPDATE branches SET active = 0

(* UPDATE branches SET data = ..., active = 0 WHERE active = 1 *)
SaveDeparting(d) == [b \in Branch |-> IF b = active THEN d ELSE saved[b]]

(* The first split makes two rows, the later ones only the new one. *)
CreateBranch(s) ==
  LET d == req[s].got IN
  /\ req[s].at = "branch"
  /\ \E new \in Branch \ used, main \in Branch \ used :
       /\ branches = {} <=> main # new
       /\ branches' = branches \cup {main, new}
       /\ saved' = [SaveDeparting(d) EXCEPT ![main] = d, ![new] = d]
       /\ active' = new
       /\ used' = used \cup {main, new}
  /\ Finish(s)
  /\ UNCHANGED <<live, snapshots, shot, asked, edited, grew>>

LoadTarget(s) ==
  LET r == req[s] IN
  /\ r.at = "target"
  /\ Go(s, IF r.id \in branches /\ r.id # active
           THEN [r EXCEPT !.at = "switch", !.target = saved[r.id]]
           ELSE Idle)
  /\ UNCHANGED <<live, rows, used, asked, edited, grew>>

(* UPDATE branches SET active = 1 WHERE id = ...; the row may be gone. *)
Marked(b) == IF b \in branches THEN b ELSE None

(* One transaction, rolled back when the target cannot be restored. *)
SwitchBranch(s) ==
  LET r == req[s] IN
  /\ r.at = "switch"
  /\ IF Sound(r.target)
     THEN /\ saved' = SaveDeparting(r.got)
          /\ active' = Marked(r.id)
          /\ Commit(r.target)
     ELSE UNCHANGED <<saved, active, live, grew>>
  /\ Finish(s)
  /\ UNCHANGED <<snapshots, shot, branches, used, asked, edited>>

CheckInactive(s) ==
  LET r == req[s] IN
  /\ r.at = "check"
  /\ Go(s, IF r.id \in branches /\ r.id # active THEN [r EXCEPT !.at = "drop"] ELSE Idle)
  /\ UNCHANGED <<live, rows, used, asked, edited, grew>>

\* mutant: the count is taken before the DELETE
CollapsedEarly(bs) == bs

(* When one branch would be left, the project goes back to having none. *)
Collapsed(bs) == IF \E b \in bs : bs = {b} THEN {} ELSE bs

DropBranch(s) ==
  LET left == Collapsed(branches \ {req[s].id}) IN
  /\ req[s].at = "drop"
  /\ branches' = left
  /\ saved' = [b \in Branch |-> IF b \in left THEN saved[b] ELSE Empty]
  /\ active' = IF active \in left THEN active ELSE None
  /\ Finish(s)
  /\ UNCHANGED <<live, snapshots, shot, used, asked, edited, grew>>

-----------------------------------------------------------------------------
(* threadToggleNode and threadAppendNode read the thread's path, and write  *)
(* the whole path back.                                                     *)

ReadPath(s) ==
  LET r == req[s]
      path == OnThread(live, r.id)
  IN  /\ r.at = "path"
      /\ Go(s, IF r.op = "AppendNode" /\ <<r.id, r.node>> \in path THEN Idle
               ELSE Read(r, "set", [r.got EXCEPT !.members = path], {}))
      /\ UNCHANGED <<live, rows, used, asked, edited, grew>>

(* The path read, with the node added, or taken out if it was there. *)
NewPath(r) ==
  LET step == <<r.id, r.node>>
  IN  IF step \in r.got.members THEN r.got.members \ {step} ELSE r.got.members \cup {step}

SetPath(s) ==
  LET d == SetMembers(live, req[s].id, NewPath(req[s])) IN
  /\ req[s].at = "set"
  /\ Commit(IF Sound(d) THEN d ELSE live)
  /\ Finish(s)
  /\ UNCHANGED <<rows, used, asked, edited>>

-----------------------------------------------------------------------------
(* A statement fails, or the process is killed: what was committed stays.   *)
Abort(s) ==
  /\ req[s].at # "idle"
  /\ Finish(s)
  /\ UNCHANGED <<live, rows, used, asked, edited, grew>>

Gather(s) == ReadNodes(s) \/ ReadEdges(s) \/ ReadThreads(s) \/ ReadMembers(s) \/ ReadEvidence(s)

Step(s) ==
  \/ Gather(s)
  \/ StoreSnapshot(s) \/ LoadSnapshot(s) \/ RestoreSnapshot(s)
  \/ CreateBranch(s) \/ LoadTarget(s) \/ SwitchBranch(s)
  \/ CheckInactive(s) \/ DropBranch(s)
  \/ ReadPath(s) \/ SetPath(s)

Next == \E s \in Sessions : Ask(s) \/ EditLive(s) \/ DeleteSnapshot(s) \/ Step(s) \/ Abort(s)

Spec == Init /\ [][Next]_vars

-----------------------------------------------------------------------------
(* Properties.  The first group holds whatever the requests and however     *)
(* they interleave.                                                         *)

(* The type invariant. *)
TypeOK ==
  /\ live \in Doc
  /\ snapshots \subseteq Snapshot \cap used /\ shot \in [Snapshot -> Doc]
  /\ branches \subseteq Branch \cap used /\ saved \in [Branch -> Doc]
  /\ active \in branches \cup {None}
  /\ used \subseteq Node \cup Thread \cup Branch \cup Snapshot
  /\ asked \in 0 .. MaxRequests /\ edited \in 0 .. MaxEdits
  /\ grew \subseteq Sessions
  /\ req \in [Sessions -> Request]

(* The live tables never hold a dangling row, although documents are stored *)
(* that were torn by an edit in the middle of their gather, and can be      *)
(* restored later.                                                          *)
LiveSound == Sound(live)

(* A project has no branch or at least two: the last one left is dropped    *)
(* with the one before it, whatever is created and deleted meanwhile.       *)
NeverOneBranch == \A b \in Branch : branches # {b}

(* What an inactive branch holds is not written to: only the row that was   *)
(* active can get another document, whoever switches, creates or deletes.   *)
InactiveKept ==
  [][\A b \in branches \cap branches' : saved'[b] # saved[b] => b = active]_vars

(* A gather during which no node was added can be restored, though nodes,   *)
(* edges, paths and evidence went while it read: the referenced tables are  *)
(* read before the tables that refer to them.                               *)
GatherRestorable ==
  \A s \in Sessions :
    req[s].at \in {"store", "branch", "target", "switch"} /\ s \notin grew
      => Sound(req[s].got)

-----------------------------------------------------------------------------
(* What holds when there is one client (Sessions has one member).           *)

(* Every stored document, a snapshot's or a branch's, can be restored: the  *)
(* five statements that gathered it saw one document.                       *)
StoredRestorable ==
  /\ \A p \in snapshots : Sound(shot[p])
  /\ \A b \in branches : Sound(saved[b])

-----------------------------------------------------------------------------
(***************************************************************************)
(* The refinement to BranchedDoc: the live tables are the work, the active *)
(* row's branch is the current one, and the other rows are the shelf.  The *)
(* document in the active row itself is not used: it is what the branch    *)
(* started with, or was last left with.                                    *)
(***************************************************************************)
Abstract == INSTANCE BranchedDoc
              WITH Docs <- Doc,
                   work <- live,
                   current <- active,
                   shelf <- [b \in branches \ {active} |-> saved[b]],
                   shots <- [p \in snapshots |-> shot[p]]

(* One client's snapshots and branches are what BranchedDoc says: each save *)
(* is the document of one instant, nothing is lost by switching back and    *)
(* forth, by deleting other branches or by requests that end half-way.      *)
ImplementsBranchedDoc == Abstract!Spec

=============================================================================
