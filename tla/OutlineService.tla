---------------------------- MODULE OutlineService ----------------------------
(***************************************************************************)
(* The structural edits of the outline: internal/outline/service.go, and   *)
(* the HTTP handlers that call it or the store directly (outline edit,     *)
(* attach, exits, rescue).  net/http runs each request in a goroutine of   *)
(* its own and nothing serialises them but the one database connection, so *)
(* a step below is one SQL statement or transaction of one request, and    *)
(* the steps of different requests interleave.                             *)
(*                                                                         *)
(* req[s] is the request session s has in flight:                          *)
(*   at      the statement it runs next ("idle": none in flight)           *)
(*   op      the operation                                                 *)
(*   node    its anchor: the bullet it is about, later the one it created  *)
(*   parent, pos   where MoveNode will put the node                        *)
(*   seen    the node list Service.Tree has read                           *)
(*   todo, known   nodes the cycle search has still to visit, has visited  *)
(***************************************************************************)
EXTENDS OutlineTree

CONSTANTS
  Sessions,       \* requests that can be in flight at once
  Ops,            \* the operations the clients of this instance ask for
  Positions,      \* bound: sibling positions a client sends with Move/AddChildAt/Rescue
  InitialRoots,   \* top-level bullets in the outline to begin with
  MaxRequests     \* bound: requests the clients make

AllOps == {"AddRoot", "AddChild", "AddChildAt", "AddSibling", "Indent", "Unindent",
           "Move", "Attach", "AttachNew", "Rescue", "Delete", "ExitCreate", "ExitDelete"}

ASSUME OutlineAssumption ==
  /\ Ops \subseteq AllOps
  /\ Positions \subseteq Int
  /\ InitialRoots \in 0 .. MaxNode
  /\ MaxRequests \in Nat

VARIABLES
  nodes, edges,   \* the tables
  cited,          \* the nodes that have an evidence row
  next,           \* the next id to hand out
  asked,          \* requests made so far
  owed,           \* nodes the requests made so far may have created
  req             \* session -> the request in flight

vars == <<nodes, edges, cited, next, asked, owed, req>>

Statement == {"idle", "create", "nodes", "edges", "place", "cite", "probe", "link"}

NoNodes == [n \in Id |-> "absent"]

NewRequest(at, op, node, parent, pos, todo) ==
  [at |-> at, op |-> op, node |-> node, parent |-> parent, pos |-> pos,
   seen |-> NoNodes, todo |-> todo, known |-> {}]

Idle == NewRequest("idle", "AddRoot", NoParent, NoParent, 0, {})

Request ==
  [at : Statement, op : AllOps, node : Id \cup {NoParent}, parent : Id \cup {NoParent},
   pos : Nat, seen : Nodes, todo : SUBSET Id, known : SUBSET Id]

Init ==
  /\ nodes = [n \in Id |-> IF n <= InitialRoots THEN "outline" ELSE "absent"]
  /\ edges = {}
  /\ cited = {}
  /\ next = InitialRoots + 1
  /\ asked = 0
  /\ owed = InitialRoots
  /\ req = [s \in Sessions |-> Idle]

-----------------------------------------------------------------------------
(* A request arrives.  n and p are bullets its client has been shown; other *)
(* clients may have deleted them since.                                     *)

Creates(op) ==
  CASE op \in {"AddRoot", "AddChild", "AddChildAt", "AddSibling", "Attach", "Rescue"} -> 1
    [] op = "AttachNew" -> 2
    [] OTHER -> 0

Shown == {n \in Id : n < next}

(* The page puts its controls on outline bullets; a quote has none of them. *)
Anchors == {n \in Shown : nodes[n] # "chunk_ref"}

(* AddRoot and outlineAttachEvidenceNewBullet start with CreateNode. *)
RootRequests ==
  {NewRequest("create", op, NoParent, NoParent, 0, {}) : op \in {"AddRoot", "AttachNew"}}

(* The operations that start by reading the tree. *)
TreeRequests ==
  {NewRequest("nodes", op, n, NoParent, 0, {}) :
     op \in {"AddChild", "AddSibling", "Indent", "Unindent", "Attach"}, n \in Anchors}

(* AddChildAt has no handler; its position is a sibling's index. *)
AtRequests ==
  {NewRequest("nodes", "AddChildAt", n, NoParent, k, {}) :
     n \in Anchors, k \in Positions \cap Nat}

(* Service.Move gives up at once on a node moved under itself, and takes a *)
(* negative position as 0.                                                 *)
ClampPosition(k) == IF k < 0 THEN 0 ELSE k

MoveRequests ==
  {r \in {NewRequest("nodes", "Move", n, p, ClampPosition(k), {}) :
            n \in Anchors, p \in Shown \cup {NoParent}, k \in Positions} :
     r.node # r.parent}

(* outlineRescue anchors the bullet it recreates at an outline node it has  *)
(* just read, or at the top, with the weight a baseline recorded.           *)
Bullets == {n \in Live(nodes) : nodes[n] = "outline"}

RescueRequests ==
  {NewRequest("create", "Rescue", NoParent, p, k, {}) :
     p \in Bullets \cup {NoParent}, k \in Positions \cap Nat}

(* nodeExitCreate refuses a link from a node to itself, and searches from   *)
(* the target for the source.                                               *)
ExitRequest(p, n) == NewRequest("probe", "ExitCreate", n, p, 0, {n})

ExitRequests ==
  {r \in {ExitRequest(p, n) : p \in Anchors, n \in Anchors} : r.node # r.parent}

ClientRequests == RootRequests \cup TreeRequests \cup AtRequests \cup MoveRequests
                    \cup RescueRequests \cup ExitRequests

Asked(op) ==
  /\ op \in Ops
  /\ asked < MaxRequests
  /\ owed + Creates(op) <= MaxNode
  /\ asked' = asked + 1
  /\ owed' = owed + Creates(op)

Go(s, r) == req' = [req EXCEPT ![s] = r]

Finish(s) == Go(s, Idle)

Ask(s) ==
  /\ req[s].at = "idle"
  /\ \E r \in ClientRequests : Asked(r.op) /\ Go(s, r)
  /\ UNCHANGED <<nodes, edges, cited, next>>

-----------------------------------------------------------------------------
(* Service.Tree: ListNodes, then ListEdges; the operation decides on what   *)
(* the two returned.                                                        *)

ReadNodes(s) ==
  /\ req[s].at = "nodes"
  /\ Go(s, [req[s] EXCEPT !.at = "edges", !.seen = nodes])
  /\ UNCHANGED <<nodes, edges, cited, next, asked, owed>>

(* Where the operation will put its node, r being the request and f the     *)
(* node list it read; a plan with at = "idle" answers the request (not      *)
(* found, or nothing to do).                                                *)
Plan(r, parent, pos) ==
  [r EXCEPT !.at = IF r.op \in {"Indent", "Unindent", "Move"} THEN "place" ELSE "create",
            !.parent = parent, !.pos = pos, !.seen = NoNodes]

ChildCount(f, p) == Cardinality(Children(f, edges, p))

PlanSibling(r, f) ==
  LET p == ParentOf(f, edges, r.node)
  IN  Plan(r, p, IF p = NoParent THEN 0 ELSE IndexOf(f, edges, r.node) + 1)

PlanIndent(r, f) ==
  IF PrecedingSiblings(f, edges, r.node) = {} THEN Idle
  ELSE LET p == PreviousSibling(f, edges, r.node) IN Plan(r, p, ChildCount(f, p))

PlanUnindent(r, f) ==
  LET p == ParentOf(f, edges, r.node)
  IN  IF p = NoParent THEN Idle
      ELSE Plan(r, ParentOf(f, edges, p), IndexOf(f, edges, p) + 1)

\* mutant: no search for the new parent below the bullet
PlanMoveAnywhere(r, f) ==
  IF r.parent # NoParent /\ r.parent \notin InForest(f, edges)
  THEN Idle
  ELSE Plan(r, r.parent, r.pos)

PlanMove(r, f) ==
  IF r.parent # NoParent /\ \/ r.parent \in Subtree(f, edges, r.node)
                            \/ r.parent \notin InForest(f, edges)
  THEN Idle
  ELSE Plan(r, r.parent, r.pos)

PlanFor(r, f) ==
  IF r.node \notin InForest(f, edges) THEN Idle
  ELSE CASE r.op = "AddChildAt" -> Plan(r, r.node, r.pos)
         [] r.op = "AddSibling" -> PlanSibling(r, f)
         [] r.op = "Indent"     -> PlanIndent(r, f)
         [] r.op = "Unindent"   -> PlanUnindent(r, f)
         [] r.op = "Move"       -> PlanMove(r, f)
         [] OTHER               -> Plan(r, r.node, ChildCount(f, r.node))

ReadEdges(s) ==
  /\ req[s].at = "edges"
  /\ Go(s, PlanFor(req[s], req[s].seen))
  /\ UNCHANGED <<nodes, edges, cited, next, asked, owed>>

-----------------------------------------------------------------------------
(* The statements that write. *)

(* What follows CreateNode of n: AttachNew goes on to attach a quote to the *)
(* new bullet, unless the chunk it names is gone from the corpus; anything  *)
(* else moves n under its parent, if it has one.                            *)
AfterCreate(r, n) ==
  IF r.op = "AttachNew" /\ r.node = NoParent
  THEN {Idle, [r EXCEPT !.at = "nodes", !.node = n]}
  ELSE IF r.parent = NoParent THEN {Idle}
  ELSE {[r EXCEPT !.at = "place", !.node = n]}

TypeCreated(r) ==
  IF r.op = "Attach" \/ (r.op = "AttachNew" /\ r.node # NoParent)
  THEN "chunk_ref" ELSE "outline"

CreateNode(s) ==
  /\ req[s].at = "create"
  /\ next \in Id
  /\ nodes' = InsertNode(nodes, next, TypeCreated(req[s]))
  /\ next' = next + 1
  /\ \E r \in AfterCreate(req[s], next) : Go(s, r)
  /\ UNCHANGED <<edges, cited, asked, owed>>

(* MoveNode; a failing move ends the request with an error (Rescue logs it  *)
(* and answers).  Only an attachment goes on.                               *)
PlaceNode(s) ==
  LET r == req[s] IN
  /\ r.at = "place"
  /\ edges' = MoveNode(nodes, edges, r.node, r.parent, r.pos)
  /\ IF r.op \in {"Attach", "AttachNew"} /\ CanMoveNode(nodes, edges, r.node, r.parent)
     THEN Go(s, NewRequest("cite", r.op, r.node, NoParent, 0, {}))
     ELSE Finish(s)
  /\ UNCHANGED <<nodes, cited, next, asked, owed>>

(* CreateEvidence: its foreign key fails when the quote has been deleted. *)
CiteChunk(s) ==
  /\ req[s].at = "cite"
  /\ cited' = cited \cup ({req[s].node} \cap Live(nodes))
  /\ Finish(s)
  /\ UNCHANGED <<nodes, edges, next, asked, owed>>

(* DeleteNode; its focus lookup beforehand changes nothing. *)
DeleteNode ==
  \E n \in Live(nodes) :
    /\ Asked("Delete")
    /\ nodes' = DropNode(nodes, n)
    /\ edges' = CascadeEdges(edges, n)
    /\ cited' = cited \ {n}
    /\ UNCHANGED <<next, req>>

-----------------------------------------------------------------------------
(* CYOA exits: WouldCreateCycle lists the edges of one node at a time.  It  *)
(* goes depth first; here any node it has still to visit may be next.       *)

\* mutant: only the outline is searched
SuccessorsInOutline(n) == {e.to : e \in {f \in Linear(edges) : f.from = n}}

Successors(n) == {e.to : e \in {f \in edges : f.from = n}}

\* mutant: no visited set
LeftAgain(r, n) == (r.todo \cup Successors(n)) \ {n}

Left(r, n) == (r.todo \cup Successors(n)) \ (r.known \cup {n})

ProbeCycle(s) ==
  LET r == req[s] IN
  /\ r.at = "probe"
  /\ \E n \in r.todo :
       Go(s, IF n = r.parent THEN Idle
             ELSE IF Left(r, n) = {} THEN [r EXCEPT !.at = "link", !.todo = {}, !.known = {}]
             ELSE [r EXCEPT !.todo = Left(r, n), !.known = r.known \cup {n}])
  /\ UNCHANGED <<nodes, edges, cited, next, asked, owed>>

ExitEdge(p, n) == [from |-> p, to |-> n, type |-> "exit", weight |-> 0]

LinkExit(s) ==
  /\ req[s].at = "link"
  /\ edges' = InsertEdge(nodes, edges, ExitEdge(req[s].parent, req[s].node))
  /\ Finish(s)
  /\ UNCHANGED <<nodes, cited, next, asked, owed>>

(* nodeExitDelete, offered for the exits of a bullet. *)
DeleteExit ==
  \E e \in edges :
    /\ e.type = "exit"
    /\ Asked("ExitDelete")
    /\ edges' = edges \ {e}
    /\ UNCHANGED <<nodes, cited, next, req>>

-----------------------------------------------------------------------------
(* A statement fails (disk, busy database), or the process is killed: the   *)
(* request ends where it stands, and what it committed stays.               *)
Abort(s) ==
  /\ req[s].at # "idle"
  /\ Finish(s)
  /\ UNCHANGED <<nodes, edges, cited, next, asked, owed>>

Step(s) ==
  \/ ReadNodes(s) \/ ReadEdges(s) \/ CreateNode(s) \/ PlaceNode(s) \/ CiteChunk(s)
  \/ ProbeCycle(s) \/ LinkExit(s)

Next ==
  \/ \E s \in Sessions : Ask(s) \/ Step(s) \/ Abort(s)
  \/ DeleteNode
  \/ DeleteExit

Spec == Init /\ [][Next]_vars

(* Every request's goroutine runs on, and the database answers. *)
FairSpec == Spec /\ \A s \in Sessions : WF_vars(Step(s))

-----------------------------------------------------------------------------
(* Properties.  The first group holds whatever the requests and however     *)
(* they interleave.                                                         *)

(* The type invariant. *)
TypeOK ==
  /\ nodes \in Nodes
  /\ edges \subseteq Edge
  /\ cited \subseteq Id
  /\ next \in 1 .. MaxNode + 1
  /\ asked \in 0 .. MaxRequests
  /\ owed \in 0 .. MaxNode
  /\ req \in [Sessions -> Request]

(* No edge outlives a node it names, links a node to itself, or doubles     *)
(* another: BuildTree and the graph searches never meet a dangling or       *)
(* parallel edge in the tables, however a MoveNode, a CreateEdge and a      *)
(* DeleteNode of different requests fall between each other's statements.   *)
EdgesSound ==
  /\ \A e \in edges : {e.from, e.to} \subseteq Live(nodes) /\ e.from # e.to
  /\ \A e, f \in edges : e.from = f.from /\ e.to = f.to => e = f

(* A node has at most one parent, though every request decides on a tree it *)
(* read earlier: MoveNode drops the old edge where it adds the new one.     *)
(* BuildTree repeats a subtree otherwise.                                   *)
OneParent == \A e, f \in Linear(edges) : e.to = f.to => e = f

(* Two children of a node never have the same weight, so the order of       *)
(* siblings is the one the writers asked for and never falls back on the    *)
(* creation times, though their positions come from stale trees.            *)
SiblingWeightsDistinct ==
  \A e, f \in Linear(edges) : e.from = f.from /\ e.weight = f.weight => e = f

(* Only quotes are cited: an evidence row hangs off a chunk_ref that exists, *)
(* even when the quote is deleted between its CreateNode and its            *)
(* CreateEvidence.                                                          *)
CitedAreQuotes == \A n \in cited : nodes[n] = "chunk_ref"

(* What BuildTree, the graph searches, the next MoveNode and the exports     *)
(* rely on, kept by requests that each decide on tables they read statements *)
(* ago.                                                                      *)
TreeSound == EdgesSound /\ OneParent /\ SiblingWeightsDistinct /\ CitedAreQuotes

(* No request changes the order of two bullets it does not move: when two   *)
(* children of a node are both still its children after a step, they stand  *)
(* in the same order, unless the step is the MoveNode of one of the two.    *)
SameParent(m, n) ==
  /\ ParentOf(nodes, edges, m) = ParentOf(nodes, edges, n)
  /\ ParentOf(nodes, edges, m) # NoParent

SiblingOrderKept ==
  [][\A m, n \in Live(nodes) :
       /\ SameParent(m, n) /\ SameParent(m, n)'
       /\ Precedes(nodes, edges, m, n) /\ ~Precedes(nodes, edges, m, n)'
       => \E s \in Sessions : req[s].at = "place" /\ req[s].node \in {m, n}]_vars

(* An exit goes only when it is deleted or one of its ends is: rearranging  *)
(* bullets never drops one.                                                 *)
ExitsKept ==
  [][\A e \in edges \ edges' :
       e.type = "exit" =>
         \/ {e.from, e.to} \ Live(nodes') # {}
         \/ asked' # asked /\ edges' = edges \ {e}]_vars

(* Each request is answered: no handler waits for ever, and the search for  *)
(* a cycle ends even while others add and remove edges.                     *)
Answered == \A s \in Sessions : req[s].at # "idle" ~> req[s].at = "idle"

-----------------------------------------------------------------------------
(* What holds when the requests that rearrange bullets come one at a time   *)
(* (Sessions has one member; deletions still come at any moment).           *)

HasParentIn(S, es, n) == \E e \in es : e.to = n /\ e.from \in S

Acyclic(es) ==
  \A S \in SUBSET Id : S # {} => \E n \in S : ~HasParentIn(S, es, n)

(* Linear edges form a forest.  Indent, Unindent and Move each check a tree  *)
(* they read and then move a node in another transaction; two Moves at once *)
(* can close a loop (MCOutline with moves_race.cfg).                        *)
LinearAcyclic == Acyclic(Linear(edges))

(* No bullet is lost: one the page does not show is below a quote whose own  *)
(* parent has been deleted (such a quote is not a root).                    *)
OrphanQuotes ==
  {q \in Live(nodes) : nodes[q] = "chunk_ref" /\ ParentOf(nodes, edges, q) = NoParent}

BulletsShown ==
  Live(nodes) \ InForest(nodes, edges) \subseteq Closure(OrphanQuotes, ChildEdges(nodes, edges))

(* Adding an exit never closes a loop of linear and exit edges, although    *)
(* WouldCreateCycle reads the edges of one node at a time and edges go      *)
(* between its reads.                                                       *)
ExitsKeepAcyclic ==
  [][(\E e \in edges' \ edges : e.type = "exit") /\ Acyclic(edges) => Acyclic(edges')]_vars

=============================================================================
