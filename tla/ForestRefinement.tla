--------------------------- MODULE ForestRefinement ---------------------------
(***************************************************************************)
(* The tables, read the way BuildTree does (internal/outline/tree.go), as  *)
(* an ordered forest of bullets.                                           *)
(***************************************************************************)
EXTENDS OutlineService

Kids == [p \in Id |-> Children(nodes, edges, p)]

Before ==
  {x \in Id \X Id : SameParent(x[1], x[2]) /\ Precedes(nodes, edges, x[1], x[2])}

Forest == INSTANCE OutlineForest
            WITH Bullet <- Id, bullets <- Live(nodes), kids <- Kids, before <- Before

(* The requests of one session, with deletions at any moment, do to the     *)
(* outline what OutlineForest allows and nothing else: no bullet goes below *)
(* itself, none is doubled or lost with a parent that stays, and the        *)
(* bullets an edit does not name keep their order.                          *)
ImplementsForest == Forest!Spec

=============================================================================
