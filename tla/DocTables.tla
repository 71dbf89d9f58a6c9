------------------------------ MODULE DocTables ------------------------------
(***************************************************************************)
(* The outline tables of a project database (internal/doc/sqlite.go): the  *)
(* nodes table and the edges table, and what each SQL statement or         *)
(* transaction of the store does to them.  Nothing here is a state         *)
(* machine: every operator maps table contents to table contents, the way  *)
(* one committed statement does.                                           *)
(*                                                                         *)
(*   nodes   a function from ids to "absent", "outline" or "chunk_ref"     *)
(*   edges   a set of rows [from, to, type, weight]                        *)
(*                                                                         *)
(* An id stands for a uuid.  Ids are handed out in increasing order and    *)
(* never twice, so m < n says that m was created before n.  The types      *)
(* "branch" and "jump" are one type here, "exit": no statement of the      *)
(* store and no property below tells them apart.  "synth" nodes are left   *)
(* out: nothing in the repository creates one.                             *)
(***************************************************************************)
EXTENDS Integers, FiniteSets

CONSTANT MaxNode     \* bound: at most this many nodes are ever created

ASSUME MaxNodeAssumption == MaxNode \in Nat

Id == 1 .. MaxNode

NoParent == 0        \* the empty parent id, ""

NodeType == {"outline", "chunk_ref"}

Nodes == [Id -> NodeType \cup {"absent"}]

Edge == [from : Id, to : Id, type : {"linear", "exit"}, weight : Nat]

Live(nodes) == {n \in Id : nodes[n] # "absent"}

Linear(edges) == {e \in edges : e.type = "linear"}

-----------------------------------------------------------------------------

(* INSERT INTO nodes, DELETE FROM nodes and its ON DELETE CASCADE on edges *)
InsertNode(nodes, n, type) == [nodes EXCEPT ![n] = type]

DropNode(nodes, n) == [nodes EXCEPT ![n] = "absent"]

CascadeEdges(edges, n) == {e \in edges : e.from # n /\ e.to # n}

(* INSERT INTO edges succeeds: both foreign keys resolve and no row has     *)
(* the same (from_node, to_node).                                           *)
CanInsertEdge(nodes, edges, e) ==
  /\ {e.from, e.to} \subseteq Live(nodes)
  /\ \A f \in edges : ~(f.from = e.from /\ f.to = e.to)

InsertEdge(nodes, edges, e) ==
  IF CanInsertEdge(nodes, edges, e) THEN edges \cup {e} ELSE edges

-----------------------------------------------------------------------------

(* MoveNode, one transaction: drop the incoming linear edges of n; unless n *)
(* becomes a root, shift the linear children of p whose weight is at least  *)
(* k, then insert p -> n with weight k.  A failing INSERT rolls all back.   *)
KeepOldParent(edges, n) == edges                        \* mutant: no DELETE

DropExitsToo(edges, n) == {e \in edges : e.to # n}      \* mutant: DELETE of every type

DetachEdges(edges, n) == {e \in edges : ~(e.type = "linear" /\ e.to = n)}

\* mutant: weight <= position
ShiftedBefore(e, p, k) ==
  IF e.type = "linear" /\ e.from = p /\ e.weight <= k
  THEN [e EXCEPT !.weight = e.weight + 1]
  ELSE e

Shifted(e, p, k) ==
  IF e.type = "linear" /\ e.from = p /\ e.weight >= k
  THEN [e EXCEPT !.weight = e.weight + 1]
  ELSE e

MakeRoom(edges, p, k) == {Shifted(e, p, k) : e \in edges}

LinearEdge(p, n, k) == [from |-> p, to |-> n, type |-> "linear", weight |-> k]

CanMoveNode(nodes, edges, n, p) ==
  p # NoParent => CanInsertEdge(nodes, DetachEdges(edges, n), LinearEdge(p, n, 0))

MoveNode(nodes, edges, n, p, k) ==
  IF ~CanMoveNode(nodes, edges, n, p) THEN edges
  ELSE IF p = NoParent THEN DetachEdges(edges, n)
  ELSE MakeRoom(DetachEdges(edges, n), p, k) \cup {LinearEdge(p, n, k)}

=============================================================================
