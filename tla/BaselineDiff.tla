---------------------------- MODULE BaselineDiff ----------------------------
(* The comparison of the outline with a snapshot or a branch (Diff of         *)
(* outline/diff.go), and the rows the diffed outline shows.                   *)
(* A baseline is [bullets, edges]: the function from its outline nodes to     *)
(* their content, and its edges in order.  The current outline is a function  *)
(* from outline nodes to their content.  Nodes are positive numbers.          *)
EXTENDS Integers, Sequences, FiniteSets, FiniteSetsExt

Root == 0

\* The answer of a climb that would never end.
Endless == -1

DiffStatus(cur, base) ==
    [n \in {m \in DOMAIN cur : m \in DOMAIN base.bullets => base.bullets[m] # cur[m]} |->
       IF n \in DOMAIN base.bullets THEN "changed" ELSE "added"]

\* Only linear edges between two outline nodes count; the last one into a node wins.
ParentEdges(base, n) ==
    {i \in DOMAIN base.edges : /\ base.edges[i].type = "linear" /\ base.edges[i].to = n
                               /\ {base.edges[i].from, n} \subseteq DOMAIN base.bullets}

baseParent(base, n) ==
    LET into == ParentEdges(base, n) IN IF into = {} THEN Root ELSE base.edges[Max(into)].from

\* A climb stops at a bullet that is there, or above all bullets.
Stops(cur, at) == at = Root \/ at \in DOMAIN cur

Up(cur, base, at) == IF Stops(cur, at) THEN at ELSE baseParent(base, at)

\* Mutant: only the parent itself is looked at.
ClimbOnce(cur, base, cursor, steps) == IF cursor \in DOMAIN cur THEN cursor ELSE Root

\* The climb of the code, cut off when it has taken more steps than there are
\* bullets, since it then repeats one.
Climb(cur, base, cursor, steps) ==
    LET at[k \in 0..steps] == IF k = 0 THEN cursor ELSE Up(cur, base, at[k - 1])
    IN  IF Stops(cur, at[steps]) THEN at[steps] ELSE Endless

Anchor(cur, base, n) ==
    Climb(cur, base, baseParent(base, n), Cardinality(DOMAIN base.bullets))

Ghosts(cur, base) ==
    {[node |-> n, parent |-> Anchor(cur, base, n)] : n \in DOMAIN base.bullets \ DOMAIN cur}

\* outlineView draws a ghost below its anchor, or after the roots.
GhostsUnder(cur, base, n) == {g \in Ghosts(cur, base) : g.parent = n}

Drawn(cur, base) ==
    UNION {GhostsUnder(cur, base, n) : n \in DOMAIN cur \union {Root}}

\* outlineRescue puts a copy of a ghost, with an id of its own, below its anchor.
Rescue(cur, base, g, id) == [n \in DOMAIN cur \union {id} |->
    IF n = id THEN base.bullets[g.node] ELSE cur[n]]

(***************************************************************************)
(* What must be true of them                                               *)
(***************************************************************************)
Parents(base) == [n \in DOMAIN base.bullets |-> baseParent(base, n)]

Gone(cur, base) == DOMAIN base.bullets \ DOMAIN cur

\* The removed bullets from n upwards: the least set with n in it and, with a
\* bullet, its parent if that is removed too.
RemovedAbove(cur, base, n) ==
    LET gone == Gone(cur, base)
        parent == Parents(base)
    IN  {m \in gone : \A S \in SUBSET gone :
           (n \in S /\ \A x \in S : parent[x] \in gone => parent[x] \in S) => m \in S}

\* The places those hang from that are not removed themselves: one, or none when
\* they form a loop.
Survivors(cur, base, n) ==
    LET above == RemovedAbove(cur, base, n)
    IN  {baseParent(base, m) : m \in above} \ above

Loops(base, n) == Root \notin {baseParent(base, m) : m \in RemovedAbove(<<>>, base, n)}

(* Each removed bullet is drawn exactly once, below the nearest ancestor that *)
(* is left; the climb to it ends unless it runs into a loop of removed        *)
(* bullets that the baseline holds.                                           *)
GhostsSound(cur, base) ==
    /\ \A n \in Gone(cur, base) :
         IF Survivors(cur, base, n) = {}
         THEN Anchor(cur, base, n) = Endless /\ Loops(base, n)
         ELSE {Anchor(cur, base, n)} = Survivors(cur, base, n)
    /\ (\A n \in DOMAIN base.bullets : ~Loops(base, n)) =>
         {g.node : g \in Drawn(cur, base)} = Gone(cur, base)

(* A rescue changes no other row: the diff afterwards has one bullet more,    *)
(* marked added, and the ghosts it had.                                       *)
RescueSound(cur, base, id) ==
    \A g \in Drawn(cur, base) : LET after == Rescue(cur, base, g, id)
        IN  /\ Ghosts(after, base) = Ghosts(cur, base)
            /\ DiffStatus(after, base)[id] = "added"

=============================================================================
