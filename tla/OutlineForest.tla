---------------------------- MODULE OutlineForest ----------------------------
(***************************************************************************)
(* What the outline promises to its reader, with no tables, weights or     *)
(* requests: an ordered forest of bullets in which every edit puts one new *)
(* bullet at the top level, takes one bullet and its subtree to another    *)
(* place, or removes one bullet and leaves its children without a parent.  *)
(* internal/outline/service.go implements it when the requests that        *)
(* rearrange bullets come one at a time (see ForestRefinement).            *)
(***************************************************************************)

CONSTANT Bullet      \* the bullets there can ever be

VARIABLES
  bullets,   \* the bullets there are
  kids,      \* bullet -> its children
  before     \* <<m, n>>: m and n are siblings, and m stands before n

vars == <<bullets, kids, before>>

(* The bullets below n, n included. *)
Below(n) ==
  {m \in Bullet : \A S \in SUBSET Bullet :
     n \in S /\ (\A p \in S : kids[p] \subseteq S) => m \in S}

(* Some top-level bullets and nothing below them. *)
Init ==
  /\ bullets \in SUBSET Bullet
  /\ kids = [n \in Bullet |-> {}]
  /\ before = {}

Add(n) ==
  /\ n \notin bullets
  /\ bullets' = bullets \cup {n}
  /\ UNCHANGED <<kids, before>>

(* An order of the children of each bullet, and of nothing else. *)
Orders(b, k) ==
  /\ b \subseteq UNION {k[p] \X k[p] : p \in Bullet}
  /\ \A p \in Bullet : \A m, n \in k[p] :
       /\ <<m, n>> \in b => <<n, m>> \notin b
       /\ m = n \/ <<m, n>> \in b \/ <<n, m>> \in b
       /\ \A l \in k[p] : <<l, m>> \in b /\ <<m, n>> \in b => <<l, n>> \in b

Without(b, n) == {x \in b : x[1] # n /\ x[2] # n}

(* n goes, with what is below it, to the top level or to any place among    *)
(* the children of a bullet that is not below n.  The other children of     *)
(* every bullet keep their order.                                           *)
Place(n) ==
  LET left == [q \in Bullet |-> kids[q] \ {n}]
  IN  /\ \/ kids' = left
         \/ \E p \in bullets \ Below(n) : kids' = [left EXCEPT ![p] = @ \cup {n}]
      /\ Orders(before', kids')
      /\ Without(before', n) = Without(before, n)
      /\ UNCHANGED bullets

Delete(n) ==
  /\ bullets' = bullets \ {n}
  /\ kids' = [q \in Bullet |-> IF q = n THEN {} ELSE kids[q] \ {n}]
  /\ before' = {x \in Without(before, n) : ~({x[1], x[2]} \subseteq kids[n])}

Next ==
  \/ \E n \in Bullet : Add(n)
  \/ \E n \in bullets : Place(n) \/ Delete(n)

Spec == Init /\ [][Next]_vars

=============================================================================
