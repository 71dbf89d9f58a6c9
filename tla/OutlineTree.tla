----------------------------- MODULE OutlineTree -----------------------------
(***************************************************************************)
(* The outline forest that internal/outline/tree.go derives from a node    *)
(* list and an edge list.  The two lists are read by separate statements,  *)
(* so an edge may name a node the node list lacks; BuildTree skips it.     *)
(* BuildTree's recursion is replaced by the set it visits: Closure is the  *)
(* least set that contains its seeds and, with a node, its children.       *)
(***************************************************************************)
EXTENDS DocTables

(* The parent -> child pairs BuildTree keeps. *)
ChildEdges(nodes, edges) ==
  {e \in Linear(edges) : {e.from, e.to} \subseteq Live(nodes)}

(* A root is an outline node no kept edge enters; a chunk_ref never is. *)
Roots(nodes, edges) ==
  {n \in Live(nodes) : /\ nodes[n] = "outline"
                       /\ \A e \in ChildEdges(nodes, edges) : e.to # n}

Closed(S, es) == \A e \in es : e.from \in S => e.to \in S

Closure(seeds, es) ==
  {n \in Id : \A S \in SUBSET Id : seeds \subseteq S /\ Closed(S, es) => n \in S}

(* Find(forest, n) # nil; and the nodes Find searches below n. *)
InForest(nodes, edges) ==
  Closure(Roots(nodes, edges), ChildEdges(nodes, edges))

Subtree(nodes, edges, n) == Closure({n}, ChildEdges(nodes, edges))

Children(nodes, edges, p) ==
  {e.to : e \in {f \in ChildEdges(nodes, edges) : f.from = p}}

ParentOf(nodes, edges, n) ==
  LET incoming == {e \in ChildEdges(nodes, edges) : e.to = n}
  IN  IF incoming = {} THEN NoParent ELSE (CHOOSE e \in incoming : TRUE).from

Siblings(nodes, edges, n) ==
  LET p == ParentOf(nodes, edges, n)
  IN  IF p = NoParent THEN Roots(nodes, edges) ELSE Children(nodes, edges, p)

(* Children go by edge weight, then by creation; roots by creation. *)
WeightOf(nodes, edges, n) ==
  LET incoming == {e \in ChildEdges(nodes, edges) : e.to = n}
  IN  IF incoming = {} THEN 0 ELSE (CHOOSE e \in incoming : TRUE).weight

Precedes(nodes, edges, m, n) ==
  LET a == WeightOf(nodes, edges, m)
      b == WeightOf(nodes, edges, n)
  IN  a < b \/ (a = b /\ m < n)

PrecedingSiblings(nodes, edges, n) ==
  {m \in Siblings(nodes, edges, n) : Precedes(nodes, edges, m, n)}

IndexOf(nodes, edges, n) == Cardinality(PrecedingSiblings(nodes, edges, n))

IndexOffByOne(nodes, edges, n) == n      \* mutant: siblings[i] for siblings[i-1]

PreviousSibling(nodes, edges, n) ==
  LET before == PrecedingSiblings(nodes, edges, n)
  IN  CHOOSE m \in before : \A x \in before \ {m} : Precedes(nodes, edges, x, m)

=============================================================================
