------------------------- MODULE OutlineServiceProofs -------------------------
(***************************************************************************)
(* What holds of the outline for any bullets, positions and requests.      *)
(*                                                                         *)
(* For any number of requests in flight: the type invariant, EdgesSound,   *)
(* OneParent, SiblingWeightsDistinct, CitedAreQuotes, ExitsKept and        *)
(* SiblingOrderKept.  The invariants are not inductive alone: MoveNode and *)
(* CreateEdge would link a node to itself if a request asked for it, so    *)
(* IInv adds what each request in flight knows (RequestOK).                *)
(*                                                                         *)
(* For one request at a time (Alone), deletions at any moment:             *)
(* LinearAcyclic and BulletsShown (FInv: a move knows a set that separates *)
(* what it moves from where it goes), ExitsKeepAcyclic (SInv: what the     *)
(* cycle search has not visited yet it will), and that the tables, read as *)
(* BuildTree reads them, implement OutlineForest.                          *)
(***************************************************************************)
EXTENDS ForestRefinement, FiniteSetTheorems, WellFoundedInduction, TLAPS

-----------------------------------------------------------------------------
(* Lemmas about the tables and the tree: what a MoveNode, an INSERT and a   *)
(* cascading DELETE preserve, and what the lookups in a tree return.        *)

(* The three integrity conditions, of any edge list over any node list. *)
Sound(f, es) ==
  /\ \A e \in es : {e.from, e.to} \subseteq Live(f) /\ e.from # e.to
  /\ \A e, g \in es : e.from = g.from /\ e.to = g.to => e = g

SingleParent(es) == \A e, g \in Linear(es) : e.to = g.to => e = g

DistinctWeights(es) ==
  \A e, g \in Linear(es) : e.from = g.from /\ e.weight = g.weight => e = g

-----------------------------------------------------------------------------
(* The tables. *)

(* Making room changes weights only: rows keep their ends and their type,   *)
(* and linear rows of one parent keep their order.                          *)
LEMMA ShiftedKeeps ==
  ASSUME NEW e \in Edge, NEW p, NEW k \in Nat
  PROVE  /\ Shifted(e, p, k) \in Edge
         /\ Shifted(e, p, k).from = e.from
         /\ Shifted(e, p, k).to = e.to
         /\ Shifted(e, p, k).type = e.type
         /\ e.type = "linear" /\ e.from = p => Shifted(e, p, k).weight # k
         /\ Shifted(e, p, k).weight =
              IF e.type = "linear" /\ e.from = p /\ e.weight >= k THEN e.weight + 1
              ELSE e.weight
  BY DEF Shifted, Edge

(* A move, done or rolled back, leaves well-typed rows. *)
LEMMA MoveNodeType ==
  ASSUME NEW f, NEW es \in SUBSET Edge, NEW n \in Id, NEW p \in Id \cup {NoParent},
         NEW k \in Nat
  PROVE  MoveNode(f, es, n, p, k) \in SUBSET Edge
<1>1. DetachEdges(es, n) \in SUBSET Edge
  BY DEF DetachEdges
<1>2. MakeRoom(DetachEdges(es, n), p, k) \in SUBSET Edge
  BY <1>1, ShiftedKeeps DEF MakeRoom
<1>3. p # NoParent => LinearEdge(p, n, k) \in Edge
  BY DEF LinearEdge, Edge
<1> QED
  BY <1>1, <1>2, <1>3 DEF MoveNode

(* A move of n to a parent other than itself keeps the tables sound: the    *)
(* new row's ends are live, and no row joins them already.                  *)
LEMMA MoveNodeSound ==
  ASSUME NEW f, NEW es \in SUBSET Edge, NEW n \in Id, NEW p \in Id \cup {NoParent},
         NEW k \in Nat, n # p, Sound(f, es)
  PROVE  Sound(f, MoveNode(f, es, n, p, k))
<1> DEFINE left == DetachEdges(es, n)
<1>1. left \subseteq es /\ Sound(f, left)
  BY DEF DetachEdges, Sound
<1>2. CASE ~CanMoveNode(f, es, n, p)
  BY <1>2 DEF MoveNode
<1>3. CASE p = NoParent
  BY <1>1, <1>3 DEF MoveNode
<1>4. CASE CanMoveNode(f, es, n, p) /\ p # NoParent
  <2>1. /\ {p, n} \subseteq Live(f)
        /\ \A e \in left : ~(e.from = p /\ e.to = n)
    BY <1>4 DEF CanMoveNode, CanInsertEdge, LinearEdge
  <2>2. \A e \in left : /\ Shifted(e, p, k).from = e.from
                        /\ Shifted(e, p, k).to = e.to
    BY <1>1, ShiftedKeeps
  <2>3. Sound(f, MakeRoom(left, p, k))
    BY <1>1, <2>2 DEF Sound, MakeRoom
  <2>4. \A e \in MakeRoom(left, p, k) : ~(e.from = p /\ e.to = n)
    BY <2>1, <2>2 DEF MakeRoom
  <2> DEFINE row == LinearEdge(p, n, k)
  <2>5. row.from = p /\ row.to = n
    BY DEF LinearEdge
  <2>6. Sound(f, MakeRoom(left, p, k) \cup {row})
    <3> HIDE DEF row
    <3> QED
      BY <2>1, <2>3, <2>4, <2>5 DEF Sound
  <2> QED
    BY <1>4, <2>6 DEF MoveNode
<1> QED
  BY <1>2, <1>3, <1>4

(* A move leaves n one parent, and no other node a new one. *)
LEMMA MoveNodeSingleParent ==
  ASSUME NEW f, NEW es \in SUBSET Edge, NEW n \in Id, NEW p \in Id \cup {NoParent},
         NEW k \in Nat, SingleParent(es)
  PROVE  SingleParent(MoveNode(f, es, n, p, k))
<1> DEFINE left == DetachEdges(es, n)
           room == MakeRoom(left, p, k)
           row  == LinearEdge(p, n, k)
<1>1. left \subseteq es /\ \A e \in Linear(left) : e.to # n
  BY DEF DetachEdges, Linear
<1>2. SingleParent(left)
  BY <1>1 DEF SingleParent, Linear
<1>3. \A e \in left : /\ Shifted(e, p, k).to = e.to
                      /\ Shifted(e, p, k).type = e.type
  BY <1>1, ShiftedKeeps
<1>4. SingleParent(room) /\ \A e \in Linear(room) : e.to # n
  BY <1>1, <1>2, <1>3 DEF SingleParent, Linear, MakeRoom
<1>5. row.to = n
  BY DEF LinearEdge
<1>6. SingleParent(room \cup {row})
  <2> HIDE DEF row, room
  <2> QED
    BY <1>4, <1>5 DEF SingleParent, Linear
<1> QED
  BY <1>2, <1>6 DEF MoveNode

(* A move leaves the children of every node with distinct weights. *)
LEMMA MoveNodeDistinctWeights ==
  ASSUME NEW f, NEW es \in SUBSET Edge, NEW n \in Id, NEW p \in Id \cup {NoParent},
         NEW k \in Nat, DistinctWeights(es)
  PROVE  DistinctWeights(MoveNode(f, es, n, p, k))
<1> DEFINE left == DetachEdges(es, n)
           room == MakeRoom(left, p, k)
           row  == LinearEdge(p, n, k)
<1>1. left \subseteq es /\ left \subseteq Edge
  BY DEF DetachEdges
<1>2. DistinctWeights(left)
  BY <1>1 DEF DistinctWeights, Linear
<1>3. DistinctWeights(room)
  <2> SUFFICES ASSUME NEW e \in left, NEW g \in left,
                      Shifted(e, p, k).type = "linear", Shifted(g, p, k).type = "linear",
                      Shifted(e, p, k).from = Shifted(g, p, k).from,
                      Shifted(e, p, k).weight = Shifted(g, p, k).weight
               PROVE  e = g
    BY DEF DistinctWeights, Linear, MakeRoom
  <2>1. e \in Edge /\ g \in Edge
    BY <1>1
  <2>2. e.type = "linear" /\ g.type = "linear" /\ e.from = g.from
    BY <2>1, ShiftedKeeps
  <2>3. e.weight \in Nat /\ g.weight \in Nat
    BY <2>1 DEF Edge
  <2>4. e.weight = g.weight
    <3>1. Shifted(e, p, k).weight = IF e.from = p /\ e.weight >= k THEN e.weight + 1 ELSE e.weight
      BY <2>1, <2>2, ShiftedKeeps
    <3>2. Shifted(g, p, k).weight = IF e.from = p /\ g.weight >= k THEN g.weight + 1 ELSE g.weight
      BY <2>1, <2>2, ShiftedKeeps
    <3>3. \A a, b \in Nat : \A same \in BOOLEAN :
            (IF same /\ a >= k THEN a + 1 ELSE a) = (IF same /\ b >= k THEN b + 1 ELSE b)
            => a = b
      OBVIOUS
    <3> QED
      BY <2>3, <3>1, <3>2, <3>3
  <2> QED
    BY <1>2, <2>2, <2>4 DEF DistinctWeights, Linear
<1>4. \A e \in Linear(room) : e.from = p => e.weight # k
  BY <1>1, ShiftedKeeps DEF Linear, MakeRoom
<1>5. row.from = p /\ row.weight = k
  BY DEF LinearEdge
<1>6. DistinctWeights(room \cup {row})
  <2> HIDE DEF row, room
  <2> QED
    BY <1>3, <1>4, <1>5 DEF DistinctWeights, Linear
<1> QED
  BY <1>2, <1>6 DEF MoveNode

(* INSERT INTO edges of an exit between two different nodes. *)
LEMMA InsertEdgeSound ==
  ASSUME NEW f, NEW es \in SUBSET Edge, NEW e \in Edge, e.from # e.to, Sound(f, es)
  PROVE  /\ InsertEdge(f, es, e) \in SUBSET Edge
         /\ Sound(f, InsertEdge(f, es, e))
         /\ e.type = "exit" => Linear(InsertEdge(f, es, e)) = Linear(es)
  BY DEF InsertEdge, CanInsertEdge, Sound, Linear

(* DELETE of a node takes its rows along, so the rest still joins live nodes. *)
LEMMA DeleteNodeSound ==
  ASSUME NEW f \in Nodes, NEW es \in SUBSET Edge, NEW n \in Id, Sound(f, es)
  PROVE  /\ DropNode(f, n) \in Nodes
         /\ Live(DropNode(f, n)) = Live(f) \ {n}
         /\ CascadeEdges(es, n) \subseteq es
         /\ Sound(DropNode(f, n), CascadeEdges(es, n))
<1>1. DropNode(f, n) \in Nodes /\ Live(DropNode(f, n)) = Live(f) \ {n}
  BY DEF DropNode, Nodes, Live
<1>2. CascadeEdges(es, n) \subseteq es
  BY DEF CascadeEdges
<1>3. Sound(DropNode(f, n), CascadeEdges(es, n))
  BY <1>1, <1>2 DEF Sound, CascadeEdges
<1> QED
  BY <1>1, <1>2, <1>3

(* A new node takes nothing from the others. *)
LEMMA InsertNodeLive ==
  ASSUME NEW f \in Nodes, NEW n \in Id, NEW type \in NodeType
  PROVE  /\ InsertNode(f, n, type) \in Nodes
         /\ Live(InsertNode(f, n, type)) = Live(f) \cup {n}
  BY DEF InsertNode, Nodes, Live, NodeType

(* Fewer rows of the same tables are as sound. *)
LEMMA FewerRows ==
  ASSUME NEW es, NEW fewer, fewer \subseteq es
  PROVE  /\ \A f : Sound(f, es) => Sound(f, fewer)
         /\ SingleParent(es) => SingleParent(fewer)
         /\ DistinctWeights(es) => DistinctWeights(fewer)
  BY DEF Sound, SingleParent, DistinctWeights, Linear

(* Both conditions on linear rows look at nothing else. *)
LEMMA LinearOnly ==
  ASSUME NEW es, NEW es2, Linear(es) = Linear(es2)
  PROVE  /\ SingleParent(es) => SingleParent(es2)
         /\ DistinctWeights(es) => DistinctWeights(es2)
  BY DEF SingleParent, DistinctWeights

-----------------------------------------------------------------------------
(* The tree. *)

(* There are finitely many ids.                                            *)
LEMMA IdFinite == IsFiniteSet(Id) /\ \A S \in SUBSET Id : IsFiniteSet(S) /\ Cardinality(S) \in Nat
<1>1. IsFiniteSet(Id)
  BY MaxNodeAssumption, FS_Interval DEF Id
<1> QED
  BY <1>1, FS_Subset, FS_CardinalityType

(* Children are nodes of the table.                                        *)
LEMMA ChildrenType ==
  ASSUME NEW f, NEW es, NEW p
  PROVE  /\ Children(f, es, p) \subseteq Live(f) /\ Live(f) \subseteq Id
         /\ Cardinality(Children(f, es, p)) \in Nat
<1>1. Children(f, es, p) \subseteq Live(f) /\ Live(f) \subseteq Id
  BY DEF Children, ChildEdges, Live
<1> QED
  BY <1>1, IdFinite

(* The parent of a node is live, is there because of an edge to the node,   *)
(* and is a different node where the edges are sound.                       *)
LEMMA ParentOfType ==
  ASSUME NEW f, NEW es, NEW n
  PROVE  \/ ParentOf(f, es, n) = NoParent
         \/ /\ ParentOf(f, es, n) \in Live(f)
            /\ \E e \in ChildEdges(f, es) : e.to = n /\ e.from = ParentOf(f, es, n)
<1> DEFINE incoming == {e \in ChildEdges(f, es) : e.to = n}
<1>1. CASE incoming = {}
  BY <1>1 DEF ParentOf
<1>2. CASE incoming # {}
  <2>1. (CHOOSE e \in incoming : TRUE) \in incoming
    BY <1>2
  <2>2. ParentOf(f, es, n) = (CHOOSE e \in incoming : TRUE).from
    BY <1>2 DEF ParentOf
  <2> QED
    BY <2>1, <2>2 DEF ChildEdges
<1> QED
  BY <1>1, <1>2

(* A weight is a natural number.                                           *)
LEMMA WeightOfType ==
  ASSUME NEW f, NEW es \in SUBSET Edge, NEW n
  PROVE  WeightOf(f, es, n) \in Nat
<1> DEFINE incoming == {e \in ChildEdges(f, es) : e.to = n}
<1>1. CASE incoming = {}
  BY <1>1 DEF WeightOf
<1>2. CASE incoming # {}
  <2>1. (CHOOSE e \in incoming : TRUE) \in incoming
    BY <1>2
  <2>2. (CHOOSE e \in incoming : TRUE) \in Edge
    BY <2>1 DEF ChildEdges, Linear
  <2>3. WeightOf(f, es, n) = (CHOOSE e \in incoming : TRUE).weight
    BY <1>2 DEF WeightOf
  <2> QED
    BY <2>2, <2>3 DEF Edge
<1> QED
  BY <1>1, <1>2

(* Siblings are nodes of the table.                                        *)
LEMMA SiblingsType ==
  ASSUME NEW f, NEW es, NEW n
  PROVE  /\ PrecedingSiblings(f, es, n) \subseteq Live(f)
         /\ IndexOf(f, es, n) \in Nat
<1>1. Roots(f, es) \subseteq Live(f) /\ Live(f) \subseteq Id
  BY DEF Roots, Live
<1>2. Siblings(f, es, n) \subseteq Live(f)
  BY <1>1, ChildrenType DEF Siblings
<1>3. PrecedingSiblings(f, es, n) \subseteq Live(f)
  BY <1>2 DEF PrecedingSiblings
<1> QED
  BY <1>1, <1>3, IdFinite DEF IndexOf

(* The order of siblings is a strict total order on ids. *)
LEMMA PrecedesOrder ==
  ASSUME NEW f, NEW es \in SUBSET Edge
  PROVE  /\ \A m \in Id : ~Precedes(f, es, m, m)
         /\ \A m, n \in Id : m = n \/ Precedes(f, es, m, n) \/ Precedes(f, es, n, m)
         /\ \A l, m, n \in Id : Precedes(f, es, l, m) /\ Precedes(f, es, m, n)
                                => Precedes(f, es, l, n)
<1>1. \A m \in Id : m \in Int /\ WeightOf(f, es, m) \in Nat
  BY WeightOfType, MaxNodeAssumption DEF Id
<1> QED
  BY <1>1 DEF Precedes

(* There is a last one among the siblings before n, when there are any:     *)
(* siblings[i-1] of a node that is not the first is one of its siblings.    *)
LEMMA PreviousSiblingType ==
  ASSUME NEW f, NEW es \in SUBSET Edge, NEW n \in Id, PrecedingSiblings(f, es, n) # {}
  PROVE  /\ PreviousSibling(f, es, n) \in PrecedingSiblings(f, es, n)
         /\ PreviousSibling(f, es, n) \in Live(f)
         /\ PreviousSibling(f, es, n) # n
<1> DEFINE before == PrecedingSiblings(f, es, n)
           After(m) == {x \in before : Precedes(f, es, m, x)}
           tails == {After(m) : m \in before}
<1>1. before \subseteq Id /\ before \subseteq Live(f)
  BY SiblingsType DEF Live
<1>2. tails \subseteq FiniteSubsetsOf(before) /\ tails # {}
  BY <1>1, IdFinite DEF FiniteSubsetsOf
<1>3. PICK t \in tails : \A u \in tails : <<u, t>> \notin StrictSubsetOrdering(before)
  <2>1. IsWellFoundedOn(StrictSubsetOrdering(before), FiniteSubsetsOf(before))
    BY FS_StrictSubsetOrderingWellFounded
  <2> HIDE DEF tails, before
  <2> QED
    BY <1>2, <2>1, WFMin
<1>4. PICK m \in before : t = After(m)
  OBVIOUS
<1>5. ASSUME NEW x \in before \ {m}
      PROVE  Precedes(f, es, x, m)
  <2>1. SUFFICES ASSUME Precedes(f, es, m, x)
                 PROVE  FALSE
    BY <1>1, PrecedesOrder
  <2>2. After(x) \subseteq After(m)
    BY <1>1, <2>1, PrecedesOrder
  <2>3. x \in After(m) /\ x \notin After(x)
    BY <1>1, <2>1, PrecedesOrder
  <2>4. <<After(x), After(m)>> \in StrictSubsetOrdering(before)
    BY <2>2, <2>3 DEF StrictSubsetOrdering
  <2> QED
    BY <1>3, <1>4, <2>4
<1>6. PreviousSibling(f, es, n) \in before
  BY <1>5 DEF PreviousSibling
<1>7. Precedes(f, es, PreviousSibling(f, es, n), n)
  BY <1>6 DEF PrecedingSiblings
<1> QED
  BY <1>1, <1>6, <1>7, PrecedesOrder

(* A node in the forest is not its own grandparent, where a node has at     *)
(* most one parent: from the roots, no loop can be entered.                 *)
LEMMA GrandparentIsAnother ==
  ASSUME NEW f, NEW es \in SUBSET Edge, SingleParent(es),
         NEW n \in InForest(f, es),
         ParentOf(f, es, n) # NoParent
  PROVE  ParentOf(f, es, ParentOf(f, es, n)) # n
<1> DEFINE p == ParentOf(f, es, n)
           rest == Id \ {n, p}
<1> SUFFICES ASSUME ParentOf(f, es, p) = n
             PROVE  FALSE
  OBVIOUS
<1>1. n \in Id /\ n # NoParent
  BY DEF InForest, Closure, Id, NoParent
<1>2. /\ \E e \in ChildEdges(f, es) : e.to = n /\ e.from = p
      /\ \E e \in ChildEdges(f, es) : e.to = p /\ e.from = n
  BY <1>1, ParentOfType
<1>3. \A e \in ChildEdges(f, es) : /\ e \in Linear(es)
                                   /\ e.to \in Id /\ e.from \in Id
  BY DEF ChildEdges, Linear, Edge
<1>4. \A e \in ChildEdges(f, es) : /\ e.to = n => e.from = p
                                   /\ e.to = p => e.from = n
  BY <1>2, <1>3 DEF SingleParent
<1>5. Closed(rest, ChildEdges(f, es))
  BY <1>3, <1>4 DEF Closed
<1>6. Roots(f, es) \subseteq rest
  BY <1>2 DEF Roots, Live
<1> QED
  BY <1>5, <1>6 DEF InForest, Closure

-----------------------------------------------------------------------------
(* The requests. *)

(* What a request in flight may rely on, wherever the others stand. *)
RequestOK(r) ==
  /\ r.node < next /\ r.parent < next
  /\ \A n \in Live(r.seen) : n < next
  /\ r.at \in {"nodes", "edges", "place", "cite", "probe", "link"} => r.node \in Id
  /\ r.at \in {"probe", "link"} => r.parent \in Id
  /\ r.at \in {"place", "probe", "link"} => r.node # r.parent
  /\ r.at \in {"nodes", "edges"} /\ r.op = "Move" => r.node # r.parent
  /\ \/ r.at = "cite"
     \/ r.at = "place" /\ r.op \in {"Attach", "AttachNew"}
     => nodes[r.node] # "outline"

IInv ==
  /\ TypeOK
  /\ EdgesSound
  /\ OneParent
  /\ SiblingWeightsDistinct
  /\ CitedAreQuotes
  /\ \A n \in Live(nodes) : n < next
  /\ \A s \in Sessions : RequestOK(req[s])

-----------------------------------------------------------------------------

(* The ids, and what stands for no parent and for an empty table.          *)
LEMMA IdAndNoParent ==
  /\ Id \subseteq Nat /\ NoParent = 0 /\ NoParent \notin Id
  /\ NoNodes \in Nodes /\ Live(NoNodes) = {}
  BY MaxNodeAssumption DEF Id, NoParent, NoNodes, Nodes, Live

(* Ids are compared as numbers.                                            *)
LEMMA IdsAreIntegers ==
  /\ \A n \in Id \cup {NoParent} : n \in Int
  /\ \A f : Live(f) \subseteq Id
  BY MaxNodeAssumption DEF Id, NoParent, Live

(* A session without a request is well typed and relies on nothing.        *)
LEMMA IdleOK == Idle \in Request /\ (next \in 1 .. MaxNode + 1 => RequestOK(Idle))
<1>1. Idle \in Request
  BY IdAndNoParent DEF Idle, NewRequest, Request, Statement, AllOps
<1>2. next \in 1 .. MaxNode + 1 => RequestOK(Idle)
  BY IdAndNoParent DEF Idle, NewRequest, RequestOK
<1> QED
  BY <1>1, <1>2

(* The invariant says of the tables what the lemmas above say of any.        *)
LEMMA SameConditions ==
  /\ EdgesSound <=> Sound(nodes, edges)
  /\ OneParent <=> SingleParent(edges)
  /\ SiblingWeightsDistinct <=> DistinctWeights(edges)
  BY DEF EdgesSound, Sound, OneParent, SingleParent, SiblingWeightsDistinct, DistinctWeights

(* What a request knows outlives the steps of others: the next id only      *)
(* grows, and a node already handed out changes only by going.              *)
LEMMA RequestStable ==
  ASSUME TypeOK, NEW r \in Request, RequestOK(r),
         next' \in Int, next <= next',
         \A n \in Id : n < next => nodes'[n] \in {nodes[n], "absent"}
  PROVE  RequestOK(r)'
<1>1. next \in Int /\ r.node \in Int /\ r.parent \in Int
  <2>1. next \in Int
    BY MaxNodeAssumption DEF TypeOK
  <2>2. r.node \in Id \cup {NoParent} /\ r.parent \in Id \cup {NoParent}
    BY DEF Request
  <2> QED
    BY <2>1, <2>2, IdsAreIntegers
<1>2. \A n \in Live(r.seen) : n \in Int
  BY IdAndNoParent DEF Live
<1>3. r.node < next' /\ r.parent < next' /\ \A n \in Live(r.seen) : n < next'
  BY <1>1, <1>2 DEF RequestOK
<1> QED
  BY <1>1, <1>3 DEF RequestOK

(* The place an operation plans, from any tree it has read, is one MoveNode *)
(* can be given: the parent is a node the operation saw, or none, and never *)
(* the bullet it moves.                                                     *)
LEMMA PlanOK ==
  ASSUME TypeOK, OneParent, NEW r \in Request, r.at = "edges", RequestOK(r)
  PROVE  PlanFor(r, r.seen) \in Request /\ RequestOK(PlanFor(r, r.seen))
<1> DEFINE f == r.seen
<1>a. f \in Nodes /\ edges \in SUBSET Edge /\ next \in 1 .. MaxNode + 1 /\ SingleParent(edges)
  BY SameConditions DEF TypeOK, Request
<1>b. r.node \in Id /\ r.node < next /\ r.op \in AllOps
      /\ r.parent \in Id \cup {NoParent} /\ r.parent < next /\ r.pos \in Nat
  BY DEF RequestOK, Request
<1>c. Live(f) \subseteq Id /\ \A n \in Live(f) : n < next
  BY DEF RequestOK, Live
<1>d. Idle \in Request /\ RequestOK(Idle)
  BY <1>a, IdleOK
<1>e. \A n \in Id : ParentOf(f, edges, n) \in Live(f) \cup {NoParent}
  BY ParentOfType
<1>h. NoParent < next /\ NoParent \in Id \cup {NoParent}
  BY <1>a, IdAndNoParent, MaxNodeAssumption
<1>f. \A p : ChildCount(f, p) \in Nat
  BY ChildrenType DEF ChildCount
<1>g. \A n : IndexOf(f, edges, n) + 1 \in Nat
  BY SiblingsType
<1>1. ASSUME NEW parent \in Id \cup {NoParent}, NEW pos \in Nat, parent < next,
             r.op \in {"Indent", "Unindent", "Move"} => parent # r.node
      PROVE  Plan(r, parent, pos) \in Request /\ RequestOK(Plan(r, parent, pos))
  <2> DEFINE q == Plan(r, parent, pos)
  <2>1. q \in Request
    BY <1>b, IdAndNoParent DEF Plan, Request, Statement
  <2>2. /\ q.node = r.node /\ q.parent = parent /\ q.op = r.op /\ q.seen = NoNodes
        /\ q.at = IF r.op \in {"Indent", "Unindent", "Move"} THEN "place" ELSE "create"
    BY DEF Plan, Request
  <2>3. RequestOK(q)
    <3> HIDE DEF q
    <3> QED
      BY <1>1, <1>b, <2>2, IdAndNoParent DEF RequestOK
  <2> QED
    BY <2>1, <2>3
<1>2. CASE r.node \notin InForest(f, edges)
  BY <1>2, <1>d DEF PlanFor
<1>3. ASSUME r.node \in InForest(f, edges), r.op = "AddChildAt"
      PROVE  PlanFor(r, f) \in Request /\ RequestOK(PlanFor(r, f))
  <2>1. PlanFor(r, f) = Plan(r, r.node, r.pos)
    BY <1>3 DEF PlanFor
  <2> QED
    BY <1>1, <1>3, <1>b, <2>1
<1>4. ASSUME r.node \in InForest(f, edges), r.op = "AddSibling"
      PROVE  PlanFor(r, f) \in Request /\ RequestOK(PlanFor(r, f))
  <2> DEFINE p == ParentOf(f, edges, r.node)
  <2>1. PlanFor(r, f) = Plan(r, p, IF p = NoParent THEN 0 ELSE IndexOf(f, edges, r.node) + 1)
    BY <1>4 DEF PlanFor, PlanSibling
  <2>2. p \in Id \cup {NoParent} /\ p < next
    BY <1>b, <1>c, <1>e, <1>h
  <2> HIDE DEF p
  <2> QED
    BY <1>1, <1>4, <1>g, <2>1, <2>2
<1>5. ASSUME r.node \in InForest(f, edges), r.op = "Indent"
      PROVE  PlanFor(r, f) \in Request /\ RequestOK(PlanFor(r, f))
  <2>1. PlanFor(r, f) = PlanIndent(r, f)
    BY <1>5 DEF PlanFor
  <2>2. CASE PrecedingSiblings(f, edges, r.node) = {}
    BY <1>d, <2>1, <2>2 DEF PlanIndent
  <2>3. CASE PrecedingSiblings(f, edges, r.node) # {}
    <3> DEFINE p == PreviousSibling(f, edges, r.node)
    <3>1. p \in Live(f) /\ p # r.node
      BY <1>a, <1>b, <2>3, PreviousSiblingType
    <3>2. PlanFor(r, f) = Plan(r, p, ChildCount(f, p))
      BY <2>1, <2>3 DEF PlanIndent
    <3> HIDE DEF p
    <3> QED
      BY <1>1, <1>5, <1>c, <1>f, <3>1, <3>2
  <2> QED
    BY <2>2, <2>3
<1>6. ASSUME r.node \in InForest(f, edges), r.op = "Unindent"
      PROVE  PlanFor(r, f) \in Request /\ RequestOK(PlanFor(r, f))
  <2> DEFINE p == ParentOf(f, edges, r.node)
             g == ParentOf(f, edges, p)
  <2>1. PlanFor(r, f) = PlanUnindent(r, f)
    BY <1>6 DEF PlanFor
  <2>2. CASE p = NoParent
    BY <1>d, <2>1, <2>2 DEF PlanUnindent
  <2>3. CASE p # NoParent
    <3>1. g # r.node
      BY <1>6, <1>a, <2>3, GrandparentIsAnother
    <3>2. PlanFor(r, f) = Plan(r, g, IndexOf(f, edges, p) + 1)
      BY <2>1, <2>3 DEF PlanUnindent
    <3>3. g \in Id \cup {NoParent} /\ g < next
      BY <1>b, <1>c, <1>e, <1>h, <2>3
    <3> HIDE DEF p, g
    <3> QED
      BY <1>1, <1>6, <1>g, <3>1, <3>2, <3>3
  <2> QED
    BY <2>2, <2>3
<1>7. ASSUME r.node \in InForest(f, edges), r.op = "Move"
      PROVE  PlanFor(r, f) \in Request /\ RequestOK(PlanFor(r, f))
  <2>1. PlanFor(r, f) \in {Idle, Plan(r, r.parent, r.pos)}
    BY <1>7 DEF PlanFor, PlanMove
  <2>2. r.parent # r.node
    BY <1>7 DEF RequestOK
  <2> QED
    BY <1>1, <1>b, <1>d, <2>1, <2>2
<1>8. ASSUME r.node \in InForest(f, edges),
             r.op # "AddChildAt", r.op # "AddSibling", r.op # "Indent",
             r.op # "Unindent", r.op # "Move"
      PROVE  PlanFor(r, f) \in Request /\ RequestOK(PlanFor(r, f))
  <2>1. PlanFor(r, f) = Plan(r, r.node, ChildCount(f, r.node))
    BY <1>8 DEF PlanFor
  <2> QED
    BY <1>1, <1>8, <1>b, <1>f, <2>1
<1> QED
  BY <1>2, <1>3, <1>4, <1>5, <1>6, <1>7, <1>8

-----------------------------------------------------------------------------
(* The invariant holds at first: some top-level bullets, nothing in flight. *)
LEMMA InitInv == Init => IInv
<1> SUFFICES ASSUME Init PROVE IInv
  OBVIOUS
<1>1. next \in 1 .. MaxNode + 1 /\ next = InitialRoots + 1
  BY OutlineAssumption, MaxNodeAssumption DEF Init
<1>2. TypeOK
  BY <1>1, IdleOK, OutlineAssumption, MaxNodeAssumption
     DEF Init, TypeOK, Nodes, NodeType
<1>3. EdgesSound /\ OneParent /\ SiblingWeightsDistinct /\ CitedAreQuotes
  BY DEF Init, EdgesSound, OneParent, SiblingWeightsDistinct, CitedAreQuotes, Linear
<1>4. \A n \in Live(nodes) : n < next
  BY <1>1, OutlineAssumption, MaxNodeAssumption DEF Init, Live, Id
<1>5. \A s \in Sessions : RequestOK(req[s])
  BY <1>1, IdleOK DEF Init
<1> QED
  BY <1>2, <1>3, <1>4, <1>5 DEF IInv

(* A step that leaves the tables and the ids alone keeps the invariant if   *)
(* the request it changes is still well formed.                             *)
LEMMA TablesUnchanged ==
  ASSUME IInv, UNCHANGED <<nodes, edges, cited, next>>,
         asked' \in 0 .. MaxRequests, owed' \in 0 .. MaxNode,
         NEW s \in Sessions, NEW r \in Request, Go(s, r), RequestOK(r)
  PROVE  IInv'
<1>1. req' \in [Sessions -> Request]
  BY DEF IInv, TypeOK, Go
<1>2. TypeOK'
  BY <1>1 DEF IInv, TypeOK
<1>3. (EdgesSound /\ OneParent /\ SiblingWeightsDistinct /\ CitedAreQuotes)'
  BY DEF IInv, EdgesSound, OneParent, SiblingWeightsDistinct, CitedAreQuotes
<1>4. (\A n \in Live(nodes) : n < next)'
  BY DEF IInv
<1>5. ASSUME NEW u \in Sessions
      PROVE  RequestOK(req[u])'
  <2>1. req'[u] = IF u = s THEN r ELSE req[u]
    BY DEF IInv, TypeOK, Go
  <2>2. RequestOK(req'[u])
    BY <2>1 DEF IInv
  <2> QED
    BY <2>2 DEF RequestOK
<1> QED
  BY <1>2, <1>3, <1>4, <1>5 DEF IInv

(* The requests clients make are well formed. *)
LEMMA ClientRequestOK ==
  ASSUME IInv, NEW r \in ClientRequests
  PROVE  r \in Request /\ RequestOK(r) /\ r.at \in {"create", "nodes", "probe"}
<1>1. next \in 1 .. MaxNode + 1 /\ next \in Int /\ 0 < next /\ Idle \in Request
  BY IdleOK, MaxNodeAssumption DEF IInv, TypeOK
<1>2. Anchors \subseteq Id /\ Shown \subseteq Id /\ Live(nodes) \subseteq Id
      /\ \A n \in Anchors \cup Shown \cup Live(nodes) : n < next
  BY DEF Anchors, Shown, Live, IInv
<1>3. \A k \in Positions : ClampPosition(k) \in Nat
  BY OutlineAssumption DEF ClampPosition
<1>4. NoParent \in Id \cup {NoParent} /\ NoParent < next /\ 0 \in Nat /\ {} \in SUBSET Id
  BY <1>1, IdAndNoParent
<1>5. ASSUME NEW at \in {"create", "nodes", "probe"}, NEW op \in AllOps,
             NEW n \in Id \cup {NoParent}, NEW p \in Id \cup {NoParent},
             NEW k \in Nat, NEW todo \in SUBSET Id,
             n < next, p < next, at # "create" => n \in Id,
             at = "probe" => p \in Id,
             at = "probe" \/ op = "Move" => n # p
      PROVE  /\ NewRequest(at, op, n, p, k, todo) \in Request
             /\ RequestOK(NewRequest(at, op, n, p, k, todo))
             /\ NewRequest(at, op, n, p, k, todo).at = at
  <2> DEFINE q == NewRequest(at, op, n, p, k, todo)
  <2>1. q \in Request
    BY <1>5, IdAndNoParent DEF NewRequest, Request, Statement
  <2>2. /\ q.at = at /\ q.op = op /\ q.node = n /\ q.parent = p /\ q.seen = NoNodes
    BY DEF NewRequest
  <2>3. RequestOK(q)
    <3> HIDE DEF q
    <3> QED
      BY <1>5, <2>2, IdAndNoParent DEF RequestOK
  <2> QED
    BY <2>1, <2>2, <2>3
<1>6. \A at, op, n, p, k, todo : /\ NewRequest(at, op, n, p, k, todo).node = n
                                 /\ NewRequest(at, op, n, p, k, todo).parent = p
  BY DEF NewRequest
<1>7. CASE r \in RootRequests
  <2>1. PICK op \in {"AddRoot", "AttachNew"} :
          r = NewRequest("create", op, NoParent, NoParent, 0, {})
    BY <1>7 DEF RootRequests
  <2> QED
    BY <1>4, <1>5, <2>1 DEF AllOps
<1>8. CASE r \in TreeRequests
  <2>1. PICK op \in {"AddChild", "AddSibling", "Indent", "Unindent", "Attach"}, n \in Anchors :
          r = NewRequest("nodes", op, n, NoParent, 0, {})
    BY <1>8 DEF TreeRequests
  <2> QED
    BY <1>2, <1>4, <1>5, <2>1 DEF AllOps
<1>9. CASE r \in AtRequests
  <2>1. PICK n \in Anchors, k \in Positions \cap Nat :
          r = NewRequest("nodes", "AddChildAt", n, NoParent, k, {})
    BY <1>9 DEF AtRequests
  <2> QED
    BY <1>2, <1>4, <1>5, <2>1 DEF AllOps
<1>10. CASE r \in MoveRequests
  <2>1. PICK n \in Anchors, p \in Shown \cup {NoParent}, k \in Positions :
          r = NewRequest("nodes", "Move", n, p, ClampPosition(k), {})
    BY <1>10 DEF MoveRequests
  <2>2. n # p
    BY <1>6, <1>10, <2>1 DEF MoveRequests
  <2> QED
    BY <1>2, <1>3, <1>4, <1>5, <2>1, <2>2 DEF AllOps
<1>11. CASE r \in RescueRequests
  <2>1. PICK p \in Bullets \cup {NoParent}, k \in Positions \cap Nat :
          r = NewRequest("create", "Rescue", NoParent, p, k, {})
    BY <1>11 DEF RescueRequests
  <2>2. p \in Id \cup {NoParent} /\ p < next
    BY <1>2, <1>4 DEF Bullets
  <2> QED
    BY <1>4, <1>5, <2>1, <2>2 DEF AllOps
<1>12. CASE r \in ExitRequests
  <2>1. PICK p \in Anchors, n \in Anchors : r = ExitRequest(p, n)
    BY <1>12 DEF ExitRequests
  <2>2. n # p
    BY <1>6, <1>12, <2>1 DEF ExitRequests, ExitRequest
  <2>3. {n} \in SUBSET Id
    BY <1>2
  <2> QED
    BY <1>2, <1>5, <2>1, <2>2, <2>3 DEF AllOps, ExitRequest
<1> QED
  BY <1>7, <1>8, <1>9, <1>10, <1>11, <1>12 DEF ClientRequests

(* Asking changes the counters only, within their bounds. *)
LEMMA AskedType ==
  ASSUME TypeOK, NEW op \in AllOps, Asked(op)
  PROVE  asked' \in 0 .. MaxRequests /\ owed' \in 0 .. MaxNode
<1>1. Creates(op) \in 0 .. 2
  BY DEF Creates, AllOps
<1> QED
  BY <1>1, OutlineAssumption, MaxNodeAssumption DEF TypeOK, Asked

-----------------------------------------------------------------------------
(* Each step keeps the invariant. *)

(* Ending a request always does. *)
LEMMA FinishInv ==
  ASSUME IInv, UNCHANGED <<nodes, edges, cited, next, asked, owed>>,
         NEW s \in Sessions, Finish(s)
  PROVE  IInv'
<1>1. Idle \in Request /\ RequestOK(Idle)
  BY IdleOK DEF IInv, TypeOK
<1> QED
  BY <1>1, TablesUnchanged DEF Finish, IInv, TypeOK

(* A new request relies on nothing but ids that have been handed out.      *)
LEMMA AskInv == ASSUME IInv, NEW s \in Sessions, Ask(s) PROVE IInv'
<1>1. PICK r \in ClientRequests : Asked(r.op) /\ Go(s, r)
  BY DEF Ask
<1>2. r \in Request /\ RequestOK(r)
  BY ClientRequestOK
<1>3. r.op \in AllOps
  BY <1>2 DEF Request
<1>4. asked' \in 0 .. MaxRequests /\ owed' \in 0 .. MaxNode
  BY <1>1, <1>3, AskedType DEF IInv
<1> QED
  BY <1>1, <1>2, <1>4, TablesUnchanged DEF Ask

(* Reading the nodes changes no table.                                     *)
LEMMA ReadNodesInv == ASSUME IInv, NEW s \in Sessions, ReadNodes(s) PROVE IInv'
<1> DEFINE r == [req[s] EXCEPT !.at = "edges", !.seen = nodes]
<1>1. req[s] \in Request /\ RequestOK(req[s]) /\ nodes \in Nodes /\ req[s].at = "nodes"
  BY DEF IInv, TypeOK, ReadNodes
<1>2. r \in Request
  BY <1>1 DEF Request, Statement
<1>3. /\ r.at = "edges" /\ r.op = req[s].op /\ r.node = req[s].node
      /\ r.parent = req[s].parent /\ r.seen = nodes
  BY <1>1 DEF Request
<1>4. RequestOK(r)
  <2> HIDE DEF r
  <2> QED
    BY <1>1, <1>3 DEF RequestOK, IInv
<1> QED
  BY <1>2, <1>4, TablesUnchanged DEF ReadNodes, IInv, TypeOK

(* The plan made on the tree just read asks for what RequestOK allows.     *)
LEMMA ReadEdgesInv == ASSUME IInv, NEW s \in Sessions, ReadEdges(s) PROVE IInv'
<1> DEFINE r == PlanFor(req[s], req[s].seen)
<1>1. r \in Request /\ RequestOK(r)
  BY PlanOK DEF ReadEdges, IInv, TypeOK
<1> QED
  BY <1>1, TablesUnchanged DEF ReadEdges, IInv, TypeOK

(* The new node has no edges and no evidence; the request goes on to place  *)
(* it below a node older than it is.                                        *)
LEMMA CreateNodeInv == ASSUME IInv, NEW s \in Sessions, CreateNode(s) PROVE IInv'
<1> DEFINE type == TypeCreated(req[s])
<1>1. /\ req[s] \in Request /\ RequestOK(req[s]) /\ req[s].at = "create"
      /\ nodes \in Nodes /\ next \in Id /\ next \in Int
  BY MaxNodeAssumption DEF IInv, TypeOK, CreateNode, Id
<1>2. type \in NodeType
  BY DEF TypeCreated, NodeType
<1>3. /\ nodes' = [nodes EXCEPT ![next] = type] /\ nodes' \in Nodes
      /\ Live(nodes') = Live(nodes) \cup {next}
      /\ next' = next + 1 /\ next' \in 1 .. MaxNode + 1
      /\ UNCHANGED <<edges, cited, asked, owed>>
  <2>1. next' = next + 1 /\ next' \in 1 .. MaxNode + 1
    BY <1>1, MaxNodeAssumption DEF CreateNode, Id
  <2> QED
    BY <1>1, <1>2, <2>1, InsertNodeLive DEF CreateNode, InsertNode
<1>4. PICK r \in AfterCreate(req[s], next) : Go(s, r)
  BY DEF CreateNode
<1>5. next \notin Live(nodes)
  BY <1>1 DEF IInv
<1>a. /\ req[s].parent < next' /\ req[s].parent # next /\ next < next'
      /\ \A n \in Live(req[s].seen) : n < next'
  <2>1. req[s].parent \in Id \cup {NoParent} /\ req[s].parent < next
    BY <1>1 DEF RequestOK, Request
  <2>2. \A n \in Live(req[s].seen) : n \in Int /\ n < next
    BY <1>1, IdsAreIntegers DEF RequestOK
  <2>3. req[s].parent \in Int
    BY <2>1, IdsAreIntegers
  <2>4. next' = next + 1 /\ next \in Int
    BY <1>1, <1>3
  <2> QED
    BY <2>1, <2>2, <2>3, <2>4
<1>6. r \in Request /\ RequestOK(r)'
  <2>1. CASE r = Idle
    <3>1. r \in Request
      BY <2>1, IdleOK
    <3>2. RequestOK(Idle)'
      BY <1>3, IdAndNoParent, MaxNodeAssumption DEF Idle, NewRequest, RequestOK
    <3> QED
      BY <2>1, <3>1, <3>2
  <2>2. CASE /\ req[s].op = "AttachNew" /\ req[s].node = NoParent
             /\ r = [req[s] EXCEPT !.at = "nodes", !.node = next]
    <3>1. r \in Request
      BY <1>1, <2>2 DEF Request, Statement
    <3>2. /\ r.at = "nodes" /\ r.op = "AttachNew" /\ r.node = next
          /\ r.parent = req[s].parent /\ r.seen = req[s].seen
      BY <1>1, <2>2 DEF Request
    <3>3. RequestOK(r)'
      BY <1>1, <1>a, <3>2 DEF RequestOK
    <3> QED
      BY <3>1, <3>3
  <2>3. CASE /\ req[s].parent # NoParent
             /\ ~(req[s].op = "AttachNew" /\ req[s].node = NoParent)
             /\ r = [req[s] EXCEPT !.at = "place", !.node = next]
    <3>1. r \in Request
      BY <1>1, <2>3 DEF Request, Statement
    <3>2. /\ r.at = "place" /\ r.op = req[s].op /\ r.node = next
          /\ r.parent = req[s].parent /\ r.seen = req[s].seen
      BY <1>1, <2>3 DEF Request
    <3>3. r.op \in {"Attach", "AttachNew"} => nodes'[next] = "chunk_ref"
      BY <1>1, <1>3, <2>3, <3>2 DEF TypeCreated, Nodes
    <3>4. RequestOK(r)'
      BY <1>1, <1>a, <3>2, <3>3 DEF RequestOK
    <3> QED
      BY <3>1, <3>4
  <2> QED
    BY <1>4, <2>1, <2>2, <2>3 DEF AfterCreate
<1>7. TypeOK'
  <2>1. req' \in [Sessions -> Request]
    BY <1>4, <1>6 DEF IInv, TypeOK, Go
  <2> QED
    BY <1>3, <2>1 DEF IInv, TypeOK
<1>8. EdgesSound' /\ OneParent' /\ SiblingWeightsDistinct'
  BY <1>3 DEF IInv, EdgesSound, OneParent, SiblingWeightsDistinct
<1>9. CitedAreQuotes'
  BY <1>1, <1>3, <1>5 DEF IInv, CitedAreQuotes, Live, Nodes
<1>10. (\A n \in Live(nodes) : n < next)'
  BY <1>1, <1>3 DEF IInv, Live, Id
<1>11. ASSUME NEW u \in Sessions
       PROVE  RequestOK(req[u])'
  <2>1. req'[u] = IF u = s THEN r ELSE req[u]
    BY <1>4 DEF IInv, TypeOK, Go
  <2>2. CASE u = s
    BY <1>6, <2>1, <2>2 DEF RequestOK
  <2>3. CASE u # s
    <3> DEFINE q == req[u]
    <3>1. q \in Request /\ RequestOK(q)
      BY DEF IInv, TypeOK
    <3>2. \A n \in Id : n < next => nodes'[n] \in {nodes[n], "absent"}
      BY <1>1, <1>3 DEF Nodes
    <3>3. next' \in Int /\ next <= next'
      BY <1>1, <1>3
    <3>4. RequestOK(req[u]) /\ req[u] = req'[u]
      BY <2>1, <2>3, <3>1
    <3>5. ASSUME NEW w \in Request, RequestOK(w)
          PROVE  RequestOK(w)'
      BY <3>2, <3>3, <3>5, RequestStable DEF IInv
    <3> QED
      BY <3>1, <3>4, <3>5 DEF RequestOK
  <2> QED
    BY <2>2, <2>3
<1> QED
  BY <1>7, <1>8, <1>9, <1>10, <1>11 DEF IInv

(* MoveNode, the one step that changes linear edges. *)
LEMMA PlaceNodeInv == ASSUME IInv, NEW s \in Sessions, PlaceNode(s) PROVE IInv'
<1> DEFINE n == req[s].node
           p == req[s].parent
           k == req[s].pos
<1>1. /\ req[s] \in Request /\ RequestOK(req[s]) /\ req[s].at = "place"
      /\ edges' = MoveNode(nodes, edges, n, p, k)
      /\ UNCHANGED <<nodes, cited, next, asked, owed>>
  BY DEF IInv, TypeOK, PlaceNode
<1>2. /\ n \in Id /\ p \in Id \cup {NoParent} /\ n # p /\ k \in Nat /\ n < next
      /\ edges \in SUBSET Edge
  BY <1>1 DEF RequestOK, Request, IInv, TypeOK
<1>3. edges' \in SUBSET Edge
  BY <1>1, <1>2, MoveNodeType
<1>4. EdgesSound' /\ OneParent' /\ SiblingWeightsDistinct'
  <2>1. Sound(nodes, edges) /\ SingleParent(edges) /\ DistinctWeights(edges)
    BY SameConditions DEF IInv
  <2>2. Sound(nodes, edges') /\ SingleParent(edges') /\ DistinctWeights(edges')
    <3> HIDE DEF n, p, k
    <3> QED
      BY <1>1, <1>2, <2>1, MoveNodeSound, MoveNodeSingleParent, MoveNodeDistinctWeights
  <2> QED
    BY <1>1, <2>2 DEF EdgesSound, OneParent, SiblingWeightsDistinct,
                      Sound, SingleParent, DistinctWeights
<1>5. PICK r \in Request : Go(s, r) /\ RequestOK(r)
  <2> DEFINE c == NewRequest("cite", req[s].op, n, NoParent, 0, {})
  <2>1. CASE Finish(s)
    BY <2>1, IdleOK DEF Finish, IInv, TypeOK
  <2>2. CASE req[s].op \in {"Attach", "AttachNew"} /\ Go(s, c)
    <3>1. req[s].op \in AllOps
      BY <1>1 DEF Request
    <3>2. c \in Request
      BY <1>2, <3>1, IdAndNoParent DEF NewRequest, Request, Statement
    <3>3. c.at = "cite" /\ c.node = n /\ c.parent = NoParent /\ c.seen = NoNodes
      BY DEF NewRequest
    <3>4. nodes[n] # "outline"
      BY <1>1, <2>2 DEF RequestOK
    <3>5. NoParent < next
      BY IdleOK, MaxNodeAssumption DEF IInv, TypeOK, NoParent
    <3>6. RequestOK(c)
      <4> HIDE DEF c, n
      <4> QED
        BY <1>2, <3>3, <3>4, <3>5, IdAndNoParent DEF RequestOK
    <3> QED
      BY <2>2, <3>2, <3>6
  <2> QED
    BY <2>1, <2>2 DEF PlaceNode
<1>6. TypeOK'
  <2>1. req' \in [Sessions -> Request]
    BY <1>5 DEF IInv, TypeOK, Go
  <2> QED
    BY <1>1, <1>3, <2>1 DEF IInv, TypeOK
<1>7. CitedAreQuotes' /\ (\A m \in Live(nodes) : m < next)'
  BY <1>1 DEF IInv, CitedAreQuotes
<1>8. ASSUME NEW u \in Sessions
      PROVE  RequestOK(req[u])'
  <2>1. req'[u] = IF u = s THEN r ELSE req[u]
    BY <1>5 DEF IInv, TypeOK, Go
  <2>2. RequestOK(req'[u])
    BY <1>5, <2>1 DEF IInv
  <2> QED
    BY <1>1, <2>2 DEF RequestOK
<1> QED
  BY <1>4, <1>6, <1>7, <1>8 DEF IInv

(* The evidence of an attachment hangs off a quote, if it is still there.  *)
LEMMA CiteChunkInv == ASSUME IInv, NEW s \in Sessions, CiteChunk(s) PROVE IInv'
<1>1. /\ req[s].at = "cite" /\ RequestOK(req[s])
      /\ cited' = cited \cup ({req[s].node} \cap Live(nodes)) /\ Finish(s)
      /\ UNCHANGED <<nodes, edges, next, asked, owed>>
  BY DEF IInv, CiteChunk
<1>2. CitedAreQuotes' /\ cited' \subseteq Id
  <2>1. req[s].node \in Live(nodes) => nodes[req[s].node] = "chunk_ref"
    BY <1>1 DEF RequestOK, Live, IInv, TypeOK, Nodes, NodeType
  <2> QED
    BY <1>1, <2>1 DEF CitedAreQuotes, IInv, TypeOK, Live
<1>3. Idle \in Request /\ RequestOK(Idle)
  BY IdleOK DEF IInv, TypeOK
<1>4. TypeOK'
  <2>1. req' \in [Sessions -> Request]
    BY <1>1, <1>3 DEF IInv, TypeOK, Finish, Go
  <2> QED
    BY <1>1, <1>2, <2>1 DEF IInv, TypeOK
<1>5. EdgesSound' /\ OneParent' /\ SiblingWeightsDistinct' /\ (\A n \in Live(nodes) : n < next)'
  BY <1>1 DEF IInv, EdgesSound, OneParent, SiblingWeightsDistinct
<1>6. ASSUME NEW u \in Sessions
      PROVE  RequestOK(req[u])'
  <2>1. req'[u] = IF u = s THEN Idle ELSE req[u]
    BY <1>1 DEF IInv, TypeOK, Finish, Go
  <2>2. RequestOK(req'[u])
    BY <1>3, <2>1 DEF IInv
  <2> QED
    BY <1>1, <2>2 DEF RequestOK
<1> QED
  BY <1>2, <1>4, <1>5, <1>6 DEF IInv

(* A deletion, at any moment of any request, takes the rows and the         *)
(* evidence of the node along.                                              *)
LEMMA DeleteNodeInv == ASSUME IInv, DeleteNode PROVE IInv'
<1>1. PICK n \in Live(nodes) :
        /\ Asked("Delete") /\ nodes' = DropNode(nodes, n)
        /\ edges' = CascadeEdges(edges, n) /\ cited' = cited \ {n}
        /\ UNCHANGED <<next, req>>
  BY DEF DeleteNode
<1>2. n \in Id /\ nodes \in Nodes /\ edges \in SUBSET Edge /\ next \in Int
  BY MaxNodeAssumption DEF Live, IInv, TypeOK
<1>3. /\ nodes' \in Nodes /\ Live(nodes') = Live(nodes) \ {n} /\ edges' \subseteq edges
      /\ Sound(nodes', edges') /\ SingleParent(edges') /\ DistinctWeights(edges')
  BY <1>1, <1>2, DeleteNodeSound, FewerRows, SameConditions DEF IInv
<1>4. EdgesSound' /\ OneParent' /\ SiblingWeightsDistinct'
  BY <1>3 DEF EdgesSound, OneParent, SiblingWeightsDistinct,
              Sound, SingleParent, DistinctWeights
<1>5. "Delete" \in AllOps
  BY DEF AllOps
<1>6. asked' \in 0 .. MaxRequests /\ owed' \in 0 .. MaxNode
  BY <1>1, <1>5, AskedType DEF IInv
<1>7. TypeOK'
  BY <1>1, <1>2, <1>3, <1>6 DEF IInv, TypeOK
<1>8. \A m \in Id : nodes'[m] = IF m = n THEN "absent" ELSE nodes[m]
  BY <1>1, <1>2 DEF DropNode, Nodes
<1>9. CitedAreQuotes' /\ (\A m \in Live(nodes) : m < next)'
  BY <1>1, <1>3, <1>8 DEF IInv, TypeOK, CitedAreQuotes
<1>10. ASSUME NEW u \in Sessions
       PROVE  RequestOK(req[u])'
  <2>1. ASSUME NEW w \in Request, RequestOK(w)
        PROVE  RequestOK(w)'
    BY <1>1, <1>2, <1>8, <2>1, RequestStable DEF IInv
  <2>2. req[u] \in Request /\ RequestOK(req[u]) /\ req'[u] = req[u]
    BY <1>1 DEF IInv, TypeOK
  <2> QED
    BY <2>1, <2>2 DEF RequestOK
<1> QED
  BY <1>4, <1>7, <1>9, <1>10 DEF IInv

(* The search for a cycle keeps the two ends it was asked about. *)
LEMMA ProbeCycleInv == ASSUME IInv, NEW s \in Sessions, ProbeCycle(s) PROVE IInv'
<1>1. /\ req[s] \in Request /\ RequestOK(req[s]) /\ req[s].at = "probe"
      /\ edges \in SUBSET Edge
      /\ UNCHANGED <<nodes, edges, cited, next, asked, owed>>
  BY DEF IInv, TypeOK, ProbeCycle
<1>2. PICK n \in req[s].todo :
        Go(s, IF n = req[s].parent THEN Idle
              ELSE IF Left(req[s], n) = {}
                   THEN [req[s] EXCEPT !.at = "link", !.todo = {}, !.known = {}]
              ELSE [req[s] EXCEPT !.todo = Left(req[s], n), !.known = req[s].known \cup {n}])
  BY DEF ProbeCycle
<1>3. n \in Id /\ Left(req[s], n) \in SUBSET Id /\ req[s].known \cup {n} \in SUBSET Id
  BY <1>1 DEF Request, Left, Successors, Edge
<1>4. CASE Go(s, Idle)
  BY <1>1, <1>4, FinishInv DEF Finish
<1>5. ASSUME NEW at \in {"probe", "link"}, NEW todo \in SUBSET Id, NEW known \in SUBSET Id,
             Go(s, [req[s] EXCEPT !.at = at, !.todo = todo, !.known = known])
      PROVE  IInv'
  <2> DEFINE r == [req[s] EXCEPT !.at = at, !.todo = todo, !.known = known]
  <2>1. r \in Request
    BY <1>1 DEF Request, Statement
  <2>2. /\ r.at = at /\ r.op = req[s].op /\ r.node = req[s].node
        /\ r.parent = req[s].parent /\ r.seen = req[s].seen
    BY <1>1 DEF Request
  <2>3. RequestOK(r)
    <3> HIDE DEF r
    <3> QED
      BY <1>1, <2>2 DEF RequestOK
  <2> QED
    BY <1>1, <1>5, <2>1, <2>3, TablesUnchanged DEF IInv, TypeOK
<1>6. [req[s] EXCEPT !.todo = Left(req[s], n), !.known = req[s].known \cup {n}]
      = [req[s] EXCEPT !.at = "probe", !.todo = Left(req[s], n),
                       !.known = req[s].known \cup {n}]
  BY <1>1 DEF Request
<1>7. {} \in SUBSET Id
  OBVIOUS
<1> QED
  BY <1>2, <1>3, <1>4, <1>5, <1>6, <1>7

(* An exit joins two different nodes, and no two edges join the same.      *)
LEMMA LinkExitInv == ASSUME IInv, NEW s \in Sessions, LinkExit(s) PROVE IInv'
<1> DEFINE e == ExitEdge(req[s].parent, req[s].node)
<1>1. /\ req[s] \in Request /\ RequestOK(req[s]) /\ req[s].at = "link"
      /\ edges' = InsertEdge(nodes, edges, e) /\ Finish(s)
      /\ UNCHANGED <<nodes, cited, next, asked, owed>> /\ edges \in SUBSET Edge
  BY DEF IInv, TypeOK, LinkExit
<1>2. e \in Edge /\ e.from # e.to /\ e.type = "exit"
  BY <1>1 DEF RequestOK, ExitEdge, Edge
<1>3. /\ edges' \in SUBSET Edge /\ Sound(nodes, edges')
      /\ SingleParent(edges') /\ DistinctWeights(edges')
  <2> HIDE DEF e
  <2>1. Sound(nodes, edges) /\ SingleParent(edges) /\ DistinctWeights(edges)
    BY SameConditions DEF IInv
  <2>2. edges' \in SUBSET Edge /\ Sound(nodes, edges') /\ Linear(edges') = Linear(edges)
    BY <1>1, <1>2, <2>1, InsertEdgeSound
  <2> QED
    BY <2>1, <2>2, LinearOnly
<1>4. Idle \in Request /\ RequestOK(Idle)
  BY IdleOK DEF IInv, TypeOK
<1>5. TypeOK'
  <2>1. req' \in [Sessions -> Request]
    BY <1>1, <1>4 DEF IInv, TypeOK, Finish, Go
  <2> QED
    BY <1>1, <1>3, <2>1 DEF IInv, TypeOK
<1>6. EdgesSound' /\ OneParent' /\ SiblingWeightsDistinct'
  BY <1>1, <1>3 DEF EdgesSound, OneParent, SiblingWeightsDistinct,
                    Sound, SingleParent, DistinctWeights
<1>7. CitedAreQuotes' /\ (\A n \in Live(nodes) : n < next)'
  BY <1>1 DEF IInv, CitedAreQuotes
<1>8. ASSUME NEW u \in Sessions
      PROVE  RequestOK(req[u])'
  <2>1. req'[u] = IF u = s THEN Idle ELSE req[u]
    BY <1>1 DEF IInv, TypeOK, Finish, Go
  <2>2. RequestOK(req'[u])
    BY <1>4, <2>1 DEF IInv
  <2> QED
    BY <1>1, <2>2 DEF RequestOK
<1> QED
  BY <1>5, <1>6, <1>7, <1>8 DEF IInv

(* Deleting an exit takes an edge away.                                    *)
LEMMA DeleteExitInv == ASSUME IInv, DeleteExit PROVE IInv'
<1>1. /\ edges' \subseteq edges /\ Asked("ExitDelete")
      /\ UNCHANGED <<nodes, cited, next, req>>
  BY DEF DeleteExit
<1>2. EdgesSound' /\ OneParent' /\ SiblingWeightsDistinct'
  BY <1>1 DEF IInv, EdgesSound, OneParent, SiblingWeightsDistinct, Linear
<1>3. "ExitDelete" \in AllOps
  BY DEF AllOps
<1>4. asked' \in 0 .. MaxRequests /\ owed' \in 0 .. MaxNode
  BY <1>1, <1>3, AskedType DEF IInv
<1>5. TypeOK'
  BY <1>1, <1>4 DEF IInv, TypeOK
<1>6. CitedAreQuotes' /\ (\A n \in Live(nodes) : n < next)'
  BY <1>1 DEF IInv, CitedAreQuotes
<1>7. \A u \in Sessions : RequestOK(req[u])'
  BY <1>1 DEF IInv, RequestOK
<1> QED
  BY <1>2, <1>5, <1>6, <1>7 DEF IInv

(* The invariant is inductive. *)
THEOREM InvariantKept == IInv /\ [Next]_vars => IInv'
<1> SUFFICES ASSUME IInv, [Next]_vars PROVE IInv'
  OBVIOUS
<1>1. ASSUME NEW s \in Sessions, Ask(s) \/ Step(s) \/ Abort(s)
      PROVE  IInv'
  <2>1. CASE Ask(s)
    BY <2>1, AskInv
  <2>2. CASE ReadNodes(s)
    BY <2>2, ReadNodesInv
  <2>3. CASE ReadEdges(s)
    BY <2>3, ReadEdgesInv
  <2>4. CASE CreateNode(s)
    BY <2>4, CreateNodeInv
  <2>5. CASE PlaceNode(s)
    BY <2>5, PlaceNodeInv
  <2>6. CASE CiteChunk(s)
    BY <2>6, CiteChunkInv
  <2>7. CASE ProbeCycle(s)
    BY <2>7, ProbeCycleInv
  <2>8. CASE LinkExit(s)
    BY <2>8, LinkExitInv
  <2>9. CASE Abort(s)
    BY <2>9, FinishInv DEF Abort
  <2> QED
    BY <1>1, <2>1, <2>2, <2>3, <2>4, <2>5, <2>6, <2>7, <2>8, <2>9 DEF Step
<1>2. CASE DeleteNode
  BY <1>2, DeleteNodeInv
<1>3. CASE DeleteExit
  BY <1>3, DeleteExitInv
<1>4. CASE UNCHANGED vars
  BY <1>4 DEF vars, IInv, TypeOK, EdgesSound, OneParent, SiblingWeightsDistinct,
              CitedAreQuotes, RequestOK
<1> QED
  BY <1>1, <1>2, <1>3, <1>4 DEF Next

(* Every reachable state satisfies the inductive invariant. *)
THEOREM Invariance == Spec => []IInv
  BY InitInv, InvariantKept, PTL DEF Spec

(* The type invariant holds whatever the requests. *)
THEOREM TypeCorrect == Spec => []TypeOK
<1>1. IInv => TypeOK
  BY DEF IInv
<1> QED
  BY <1>1, Invariance, PTL

(* No interleaving of requests, deletions and failures leaves a dangling    *)
(* edge, a self-link or a doubled edge in the tables.                       *)
THEOREM EdgesStaySound == Spec => []EdgesSound
<1>1. IInv => EdgesSound
  BY DEF IInv
<1> QED
  BY <1>1, Invariance, PTL

(* No interleaving gives a bullet two parents. *)
THEOREM AtMostOneParent == Spec => []OneParent
<1>1. IInv => OneParent
  BY DEF IInv
<1> QED
  BY <1>1, Invariance, PTL

(* Stale positions never give two siblings the same weight. *)
THEOREM WeightsStayDistinct == Spec => []SiblingWeightsDistinct
<1>1. IInv => SiblingWeightsDistinct
  BY DEF IInv
<1> QED
  BY <1>1, Invariance, PTL

(* The three together: the tables stay a tree the next request can use. *)
THEOREM TreeStaysSound == Spec => []TreeSound
<1>1. IInv => TreeSound
  BY DEF IInv, TreeSound
<1> QED
  BY <1>1, Invariance, PTL

(* Evidence always hangs off a quote that exists. *)
THEOREM OnlyQuotesCited == Spec => []CitedAreQuotes
<1>1. IInv => CitedAreQuotes
  BY DEF IInv
<1> QED
  BY <1>1, Invariance, PTL

-----------------------------------------------------------------------------
(***************************************************************************)
(* When at most one request rearranges bullets at a time, the linear edges *)
(* are a forest, for any number of bullets and whatever is deleted in      *)
(* between: Spec => []LinearAcyclic, if Sessions has one member.           *)
(*                                                                         *)
(* The argument: a request about to run MoveNode knows a set of bullets    *)
(* that contains the one it moves, is closed under children and does not   *)
(* contain the new parent.  A loop the move closed would have to leave     *)
(* that set by an edge, and none does.                                     *)
(***************************************************************************)

Alone == \A s, u \in Sessions : s = u

Separates(D, es, n, p) == n \in D /\ p \notin D /\ Closed(D, Linear(es))

Separated(r) ==
  /\ r.at = "edges" => Live(nodes) \subseteq Live(r.seen)
  /\ r.at = "place" /\ r.parent # NoParent =>
       \E D \in SUBSET Id : Separates(D, edges, r.node, r.parent)

FInv ==
  /\ IInv
  /\ LinearAcyclic
  /\ \A s \in Sessions : Separated(req[s])

-----------------------------------------------------------------------------
(* Trees. *)

(* A subtree is closed under children, and is the least set that is. *)
LEMMA SubtreeLeast ==
  ASSUME NEW f, NEW es \in SUBSET Edge, NEW n \in Id
  PROVE  /\ Subtree(f, es, n) \in SUBSET Id
         /\ n \in Subtree(f, es, n)
         /\ Closed(Subtree(f, es, n), ChildEdges(f, es))
         /\ \A S \in SUBSET Id : n \in S /\ Closed(S, ChildEdges(f, es))
                                 => Subtree(f, es, n) \subseteq S
<1> DEFINE es2 == ChildEdges(f, es)
<1>1. \A e \in es2 : e.to \in Id
  BY DEF ChildEdges, Live
<1>2. Closed(Subtree(f, es, n), es2)
  <2> SUFFICES ASSUME NEW e \in es2, e.from \in Subtree(f, es, n),
                      NEW S \in SUBSET Id, {n} \subseteq S, Closed(S, es2)
               PROVE  e.to \in S
    BY <1>1 DEF Closed, Subtree, Closure
  <2> QED
    BY DEF Closed, Subtree, Closure
<1> QED
  BY <1>2 DEF Subtree, Closure

(* In a forest a bullet's parent is not below it. *)
LEMMA ParentNotBelow ==
  ASSUME NEW f, NEW es \in SUBSET Edge, Acyclic(ChildEdges(f, es)),
         NEW n \in Id, NEW q, \E e \in ChildEdges(f, es) : e.from = q /\ e.to = n
  PROVE  q \notin Subtree(f, es, n)
<1> DEFINE S == Subtree(f, es, n)
           es2 == ChildEdges(f, es)
<1> SUFFICES ASSUME q \in S
             PROVE  FALSE
  OBVIOUS
<1>1. S \in SUBSET Id /\ n \in S /\ Closed(S, es2)
      /\ \A T \in SUBSET Id : n \in T /\ Closed(T, es2) => S \subseteq T
  BY SubtreeLeast
<1>2. PICK m \in S : ~HasParentIn(S, es2, m)
  BY <1>1 DEF Acyclic
<1>3. m # n
  BY <1>2 DEF HasParentIn
<1>4. Closed(S \ {m}, es2)
  BY <1>1, <1>2 DEF Closed, HasParentIn
<1> QED
  BY <1>1, <1>3, <1>4

(* Two siblings in a forest: neither is below the other. *)
LEMMA SiblingNotBelow ==
  ASSUME NEW f, NEW es \in SUBSET Edge, Acyclic(ChildEdges(f, es)), SingleParent(es),
         NEW n \in Id, NEW p \in Siblings(f, es, n), p # n
  PROVE  \E D \in SUBSET Id : n \in D /\ p \notin D /\ Closed(D, ChildEdges(f, es))
<1> DEFINE q == ParentOf(f, es, n)
           S == Subtree(f, es, n)
           es2 == ChildEdges(f, es)
<1>0. \A e \in es2 : e.to \in Id /\ e \in Linear(es)
  BY DEF ChildEdges, Live
<1>1. CASE q = NoParent
  <2>1. \A e \in es2 : e.to # p
    BY <1>1 DEF Siblings, Roots
  <2>2. Closed(Id \ {p}, es2)
    BY <1>0, <2>1 DEF Closed
  <2> QED
    BY <2>2
<1>2. CASE q # NoParent
  <2>1. \E e \in es2 : e.to = n /\ e.from = q
    BY <1>2, ParentOfType
  <2>2. PICK c \in es2 : c.to = p /\ c.from = q
    BY <1>2 DEF Siblings, Children
  <2>3. q \notin S
    <3> HIDE DEF q, S
    <3> QED
      BY <2>1, ParentNotBelow DEF S
  <2>4. S \in SUBSET Id /\ n \in S /\ Closed(S, es2)
        /\ \A T \in SUBSET Id : n \in T /\ Closed(T, es2) => S \subseteq T
    BY SubtreeLeast
  <2>5. \A e \in es2 : e.to = p => e.from = q
    BY <1>0, <2>2 DEF SingleParent
  <2>6. Closed(S \ {p}, es2)
    BY <2>3, <2>4, <2>5 DEF Closed
  <2>7. p \notin S
    BY <2>4, <2>6
  <2> QED
    BY <2>4, <2>7
<1> QED
  BY <1>1, <1>2

(* A move below a bullet outside a closed set that holds the moved one      *)
(* closes no loop.                                                          *)
LEMMA MoveKeepsAcyclic ==
  ASSUME NEW f, NEW es \in SUBSET Edge, Acyclic(Linear(es)),
         NEW n \in Id, NEW p \in Id \cup {NoParent}, NEW k \in Nat,
         p # NoParent => \E D \in SUBSET Id : Separates(D, es, n, p)
  PROVE  Acyclic(Linear(MoveNode(f, es, n, p, k)))
<1> DEFINE left == DetachEdges(es, n)
           room == MakeRoom(left, p, k)
           row  == LinearEdge(p, n, k)
<1>1. left \subseteq es
  BY DEF DetachEdges
<1>2. Acyclic(Linear(left))
  BY <1>1 DEF Acyclic, HasParentIn, Linear
<1>3. ASSUME p # NoParent
      PROVE  Acyclic(Linear(room \cup {row}))
  <2>1. PICK D \in SUBSET Id : Separates(D, es, n, p)
    BY <1>3
  <2>2. \A e \in Linear(room) : \E g \in Linear(es) :
          g.from = e.from /\ g.to = e.to /\ g.to # n
    <3> SUFFICES ASSUME NEW e0 \in left, Shifted(e0, p, k).type = "linear"
                 PROVE  \E g \in Linear(es) : /\ g.from = Shifted(e0, p, k).from
                                              /\ g.to = Shifted(e0, p, k).to /\ g.to # n
      BY DEF Linear, MakeRoom
    <3>1. e0 \in Edge /\ e0 \in es
      BY <1>1
    <3> QED
      BY <3>1, ShiftedKeeps DEF Linear, DetachEdges
  <2>3. row.from = p /\ row.to = n /\ row.type = "linear"
    BY DEF LinearEdge
  <2> HIDE DEF row, room
  <2> SUFFICES ASSUME NEW S \in SUBSET Id, S # {}
               PROVE  \E m \in S : ~HasParentIn(S, Linear(room \cup {row}), m)
    BY DEF Acyclic
  <2>4. CASE S \ D # {}
    <3>1. PICK m \in S \ D : ~HasParentIn(S \ D, Linear(es), m)
      BY <2>4 DEF Acyclic
    <3>2. ~HasParentIn(S, Linear(es), m)
      BY <2>1, <3>1 DEF HasParentIn, Separates, Closed
    <3>3. m # n
      BY <2>1, <3>1 DEF Separates
    <3> QED
      BY <2>2, <2>3, <3>1, <3>2, <3>3 DEF HasParentIn, Linear
  <2>5. CASE S \subseteq D
    <3>1. PICK m \in S : ~HasParentIn(S, Linear(es), m)
      BY DEF Acyclic
    <3>2. p \notin S
      BY <2>1, <2>5 DEF Separates
    <3> QED
      BY <2>2, <2>3, <3>1, <3>2 DEF HasParentIn, Linear
  <2> QED
    BY <2>4, <2>5
<1> QED
  BY <1>2, <1>3 DEF MoveNode

-----------------------------------------------------------------------------
(* Requests. *)

(* Deletions take nothing from what a request knows. *)
LEMMA SeparatedStable ==
  ASSUME NEW r, Separated(r), Live(nodes') \subseteq Live(nodes),
         Linear(edges') \subseteq Linear(edges)
  PROVE  Separated(r)'
  BY DEF Separated, Separates, Closed

(* Indent, Unindent and Move plan a place outside the subtree they move,    *)
(* although the tree was read in two statements.                            *)
LEMMA PlanSeparated ==
  ASSUME IInv, LinearAcyclic, NEW s \in Sessions, req[s].at = "edges", Separated(req[s])
  PROVE  Separated(PlanFor(req[s], req[s].seen))
<1> DEFINE r == req[s]
           f == r.seen
           es2 == ChildEdges(f, edges)
<1>a. /\ r \in Request /\ RequestOK(r) /\ r.at = "edges" /\ edges \in SUBSET Edge
      /\ Live(nodes) \subseteq Live(f) /\ SingleParent(edges)
  BY SameConditions DEF IInv, TypeOK, Separated
<1>b. es2 = Linear(edges)
  BY <1>a DEF ChildEdges, IInv, EdgesSound, Linear
<1>c. Acyclic(es2) /\ r.node \in Id
  BY <1>a, <1>b DEF LinearAcyclic, RequestOK
<1>d. \A parent, pos : LET q == Plan(r, parent, pos) IN
        /\ q.node = r.node /\ q.parent = parent
        /\ q.at = IF r.op \in {"Indent", "Unindent", "Move"} THEN "place" ELSE "create"
  BY <1>a DEF Plan, Request
<1>e. Separated(Idle)
  BY DEF Separated, Idle, NewRequest
<1>1. ASSUME NEW D \in SUBSET Id, NEW parent, NEW pos, r.node \in D, parent \notin D,
             Closed(D, es2)
      PROVE  Separated(Plan(r, parent, pos))
  BY <1>1, <1>b, <1>d DEF Separated, Separates
<1>2. ASSUME NEW pos
      PROVE  Separated(Plan(r, NoParent, pos))
  BY <1>d DEF Separated
<1>3. ASSUME NEW parent, NEW pos, r.op \notin {"Indent", "Unindent", "Move"}
      PROVE  Separated(Plan(r, parent, pos))
  BY <1>3, <1>d DEF Separated
<1>s. /\ Subtree(f, edges, r.node) \in SUBSET Id /\ r.node \in Subtree(f, edges, r.node)
      /\ Closed(Subtree(f, edges, r.node), es2)
  BY <1>a, <1>c, SubtreeLeast
<1>4. CASE r.node \notin InForest(f, edges)
  BY <1>4, <1>e DEF PlanFor
<1>5. CASE r.node \in InForest(f, edges) /\ r.op = "Indent"
  <2>1. CASE PrecedingSiblings(f, edges, r.node) = {}
    BY <1>5, <1>e, <2>1 DEF PlanFor, PlanIndent
  <2>2. CASE PrecedingSiblings(f, edges, r.node) # {}
    <3> DEFINE p == PreviousSibling(f, edges, r.node)
    <3>1. p \in Siblings(f, edges, r.node) /\ p # r.node
      BY <1>a, <1>c, <2>2, PreviousSiblingType DEF PrecedingSiblings
    <3>2. PlanFor(r, f) = Plan(r, p, ChildCount(f, p))
      BY <1>5, <2>2 DEF PlanFor, PlanIndent
    <3> HIDE DEF p
    <3>3. PICK D \in SUBSET Id : r.node \in D /\ p \notin D /\ Closed(D, es2)
      BY <1>a, <1>c, <3>1, SiblingNotBelow
    <3> QED
      BY <1>1, <3>2, <3>3
  <2> QED
    BY <2>1, <2>2
<1>6. CASE r.node \in InForest(f, edges) /\ r.op = "Unindent"
  <2> DEFINE p == ParentOf(f, edges, r.node)
             g == ParentOf(f, edges, p)
  <2>1. CASE p = NoParent
    BY <1>6, <1>e, <2>1 DEF PlanFor, PlanUnindent
  <2>2. CASE p # NoParent
    <3>1. PlanFor(r, f) = Plan(r, g, IndexOf(f, edges, p) + 1)
      BY <1>6, <2>2 DEF PlanFor, PlanUnindent
    <3>2. \E e \in es2 : e.to = r.node /\ e.from = p
      BY <2>2, ParentOfType
    <3>3. g = NoParent \/ \E e \in es2 : e.to = p /\ e.from = g
      BY ParentOfType
    <3> HIDE DEF p, g
    <3>4. p \notin Subtree(f, edges, r.node)
      BY <1>a, <1>c, <3>2, ParentNotBelow
    <3>5. g # NoParent => g \notin Subtree(f, edges, r.node)
      BY <1>s, <3>3, <3>4 DEF Closed
    <3>6. CASE g = NoParent
      BY <1>2, <3>1, <3>6
    <3>7. CASE g # NoParent
      BY <1>1, <1>s, <3>1, <3>5, <3>7
    <3> QED
      BY <3>6, <3>7
  <2> QED
    BY <2>1, <2>2
<1>7. CASE r.node \in InForest(f, edges) /\ r.op = "Move"
  <2>1. PlanFor(r, f) = PlanMove(r, f)
    BY <1>7 DEF PlanFor
  <2>2. CASE r.parent = NoParent
    BY <1>2, <2>1, <2>2 DEF PlanMove
  <2>3. CASE r.parent # NoParent /\ r.parent \notin Subtree(f, edges, r.node)
    BY <1>1, <1>e, <1>s, <2>1, <2>3 DEF PlanMove
  <2>4. CASE r.parent # NoParent /\ r.parent \in Subtree(f, edges, r.node)
    BY <1>e, <2>1, <2>4 DEF PlanMove
  <2> QED
    BY <2>2, <2>3, <2>4
<1>8. CASE r.node \in InForest(f, edges) /\ r.op \notin {"Indent", "Unindent", "Move"}
  <2>1. \E parent, pos : PlanFor(r, f) = Plan(r, parent, pos)
    <3>1. CASE r.op = "AddChildAt"
      BY <1>8, <3>1 DEF PlanFor
    <3>2. CASE r.op = "AddSibling"
      BY <1>8, <3>2 DEF PlanFor, PlanSibling
    <3>3. CASE r.op # "AddChildAt" /\ r.op # "AddSibling"
      <4>1. r.op # "Indent" /\ r.op # "Unindent" /\ r.op # "Move"
        BY <1>8
      <4> QED
        BY <1>8, <3>3, <4>1 DEF PlanFor
    <3> QED
      BY <3>1, <3>2, <3>3
  <2> QED
    BY <1>3, <1>8, <2>1
<1> QED
  BY <1>4, <1>5, <1>6, <1>7, <1>8

(* What clients ask for neither has read the tree nor knows a place. *)
LEMMA ClientSeparated == ASSUME IInv, NEW r \in ClientRequests PROVE Separated(r)
  BY ClientRequestOK DEF Separated

-----------------------------------------------------------------------------
LEMMA InitForest == Init => FInv
<1> SUFFICES ASSUME Init PROVE FInv
  OBVIOUS
<1>1. LinearAcyclic
  BY DEF Init, LinearAcyclic, Acyclic, HasParentIn, Linear
<1>2. \A s \in Sessions : Separated(req[s])
  BY DEF Init, Idle, NewRequest, Separated
<1> QED
  BY <1>1, <1>2, InitInv DEF FInv

(* Fewer linear edges are still a forest. *)
LEMMA FewerAcyclic ==
  ASSUME LinearAcyclic, Linear(edges') \subseteq Linear(edges)
  PROVE  LinearAcyclic'
  BY DEF LinearAcyclic, Acyclic, HasParentIn

(* A step of the only request in flight. *)
LEMMA AloneStep ==
  ASSUME FInv, Alone, NEW s \in Sessions, Ask(s) \/ Step(s) \/ Abort(s)
  PROVE  LinearAcyclic' /\ \A u \in Sessions : Separated(req[u])'
<1>a. /\ IInv /\ LinearAcyclic /\ Separated(req[s]) /\ req[s] \in Request
      /\ RequestOK(req[s]) /\ edges \in SUBSET Edge
  BY DEF FInv, IInv, TypeOK
<1>b. \A r : Go(s, r) => req'[s] = r
  BY DEF Go, IInv, TypeOK, FInv
<1>c. \A r : Go(s, r) /\ Separated(r)' => \A u \in Sessions : Separated(req[u])'
  BY <1>b DEF Alone, Separated
<1>d. Separated(Idle)'
  BY DEF Separated, Idle, NewRequest
<1>e. Finish(s) => \A u \in Sessions : Separated(req[u])'
  BY <1>c, <1>d DEF Finish
<1>f. UNCHANGED edges => LinearAcyclic'
  BY <1>a, FewerAcyclic
<1>1. CASE Ask(s)
  <2>1. PICK r \in ClientRequests : Go(s, r)
    BY <1>1 DEF Ask
  <2>2. Separated(r)'
    BY <1>1, <1>a, <2>1, ClientSeparated, SeparatedStable DEF Ask
  <2> QED
    BY <1>1, <1>c, <1>f, <2>1, <2>2 DEF Ask
<1>2. CASE ReadNodes(s)
  <2>1. PICK r : r = [req[s] EXCEPT !.at = "edges", !.seen = nodes]
    OBVIOUS
  <2>2. r.at = "edges" /\ r.seen = nodes
    BY <1>a, <2>1 DEF Request
  <2>3. Separated(r)'
    BY <1>2, <2>2 DEF Separated, ReadNodes
  <2> QED
    BY <1>2, <1>c, <1>f, <2>1, <2>3 DEF ReadNodes
<1>3. CASE ReadEdges(s)
  <2>1. PICK r : r = PlanFor(req[s], req[s].seen)
    OBVIOUS
  <2>2. Separated(r)
    BY <1>3, <1>a, <2>1, PlanSeparated DEF ReadEdges
  <2>3. Separated(r)'
    BY <1>3, <2>2, SeparatedStable DEF ReadEdges
  <2> QED
    BY <1>3, <1>c, <1>f, <2>1, <2>3 DEF ReadEdges
<1>4. CASE CreateNode(s)
  <2>1. PICK r \in AfterCreate(req[s], next) : Go(s, r)
    BY <1>4 DEF CreateNode
  <2>2. /\ UNCHANGED edges /\ next \in Id /\ req[s].parent # next
        /\ \A e \in edges : e.from # next
    <3>1. next \in Id /\ UNCHANGED edges
      BY <1>4 DEF CreateNode
    <3>2. next \in Int /\ req[s].parent < next /\ \A n \in Live(nodes) : n < next
      BY <1>a, <3>1, IdsAreIntegers DEF RequestOK, IInv
    <3>3. req[s].parent # next /\ next \notin Live(nodes)
      BY <3>2
    <3> QED
      BY <1>a, <3>1, <3>3 DEF IInv, EdgesSound
  <2>a. \/ r = Idle
        \/ r = [req[s] EXCEPT !.at = "nodes", !.node = next]
        \/ r = [req[s] EXCEPT !.at = "place", !.node = next]
    BY <2>1 DEF AfterCreate
  <2>b. Idle.at = "idle"
    BY DEF Idle, NewRequest
  <2>3. CASE r.at = "place"
    <3>1. r.node = next /\ r.parent = req[s].parent
      BY <1>a, <2>a, <2>b, <2>3 DEF Request
    <3>2. Separates({next}, edges', r.node, r.parent) /\ {next} \in SUBSET Id
      BY <2>2, <3>1 DEF Separates, Closed, Linear
    <3>3. Separated(r)'
      BY <2>3, <3>2 DEF Separated
    <3> QED
      BY <1>c, <1>f, <2>1, <2>2, <3>3
  <2>4. CASE r.at # "place"
    <3>1. r.at # "edges"
      BY <1>a, <2>a, <2>b DEF Request
    <3>2. Separated(r)'
      BY <2>4, <3>1 DEF Separated
    <3> QED
      BY <1>c, <1>f, <2>1, <2>2, <3>2
  <2> QED
    BY <2>3, <2>4
<1>5. CASE PlaceNode(s)
  <2> DEFINE n == req[s].node
             p == req[s].parent
             k == req[s].pos
  <2>1. /\ req[s].at = "place" /\ edges' = MoveNode(nodes, edges, n, p, k)
        /\ n \in Id /\ p \in Id \cup {NoParent} /\ k \in Nat
    BY <1>5, <1>a DEF PlaceNode, RequestOK, Request
  <2>2. p # NoParent => \E D \in SUBSET Id : Separates(D, edges, n, p)
    BY <1>a, <2>1 DEF Separated
  <2>3. LinearAcyclic'
    <3> HIDE DEF n, p, k
    <3>1. Acyclic(Linear(MoveNode(nodes, edges, n, p, k)))
      BY <1>a, <2>1, <2>2, MoveKeepsAcyclic DEF LinearAcyclic
    <3> QED
      BY <2>1, <3>1 DEF LinearAcyclic
  <2>4. \A op, m : Separated(NewRequest("cite", op, m, NoParent, 0, {}))'
    BY DEF Separated, NewRequest
  <2> QED
    BY <1>5, <1>c, <1>e, <2>3, <2>4 DEF PlaceNode
<1>6. CASE CiteChunk(s)
  BY <1>6, <1>e, <1>f DEF CiteChunk
<1>7. CASE ProbeCycle(s)
  <2>1. PICK r : Go(s, r) /\ r.at \in {"idle", "link", "probe"}
    <3>1. PICK n \in req[s].todo :
            Go(s, IF n = req[s].parent THEN Idle
                  ELSE IF Left(req[s], n) = {}
                       THEN [req[s] EXCEPT !.at = "link", !.todo = {}, !.known = {}]
                  ELSE [req[s] EXCEPT !.todo = Left(req[s], n),
                                      !.known = req[s].known \cup {n}])
      BY <1>7 DEF ProbeCycle
    <3>2. req[s].at = "probe"
      BY <1>7 DEF ProbeCycle
    <3>3. Idle.at = "idle"
      BY DEF Idle, NewRequest
    <3>4. \A todo, known :
            /\ [req[s] EXCEPT !.at = "link", !.todo = todo, !.known = known].at = "link"
            /\ [req[s] EXCEPT !.todo = todo, !.known = known].at = "probe"
      BY <1>a, <3>2 DEF Request
    <3>5. CASE n = req[s].parent
      BY <3>1, <3>3, <3>5
    <3>6. CASE n # req[s].parent /\ Left(req[s], n) = {}
      <4>1. PICK r : r = [req[s] EXCEPT !.at = "link", !.todo = {}, !.known = {}]
        OBVIOUS
      <4>2. Go(s, r) /\ r.at = "link"
        BY <3>1, <3>4, <3>6, <4>1
      <4> QED
        BY <4>2
    <3>7. CASE n # req[s].parent /\ Left(req[s], n) # {}
      <4>1. PICK r : r = [req[s] EXCEPT !.todo = Left(req[s], n),
                                        !.known = req[s].known \cup {n}]
        OBVIOUS
      <4>2. Go(s, r) /\ r.at = "probe"
        BY <3>1, <3>4, <3>7, <4>1
      <4> QED
        BY <4>2
    <3> QED
      BY <3>5, <3>6, <3>7
  <2>2. Separated(r)'
    BY <2>1 DEF Separated
  <2> QED
    BY <1>7, <1>c, <1>f, <2>1, <2>2 DEF ProbeCycle
<1>8. CASE LinkExit(s)
  <2> DEFINE e == ExitEdge(req[s].parent, req[s].node)
  <2>1. Linear(edges') = Linear(edges)
    BY <1>8 DEF LinkExit, InsertEdge, Linear, ExitEdge
  <2>2. LinearAcyclic'
    BY <1>a, <2>1, FewerAcyclic
  <2> QED
    BY <1>8, <1>e, <2>2 DEF LinkExit
<1>9. CASE Abort(s)
  BY <1>9, <1>e, <1>f DEF Abort
<1> QED
  BY <1>1, <1>2, <1>3, <1>4, <1>5, <1>6, <1>7, <1>8, <1>9 DEF Step

(* Deletions, whenever they come. *)
LEMMA DeletionStep ==
  ASSUME FInv, DeleteNode \/ DeleteExit \/ UNCHANGED vars
  PROVE  LinearAcyclic' /\ \A u \in Sessions : Separated(req[u])'
<1>1. Linear(edges') \subseteq Linear(edges) /\ Live(nodes') \subseteq Live(nodes) /\ UNCHANGED req
  BY DEF FInv, IInv, TypeOK, DeleteNode, DeleteExit, DropNode, CascadeEdges, Linear, Live,
         Nodes, vars
<1>2. ASSUME NEW u \in Sessions
      PROVE  Separated(req[u])'
  <2>1. Separated(req[u])
    BY DEF FInv
  <2>2. ASSUME NEW r, Separated(r)
        PROVE  Separated(r)'
    BY <1>1, <2>2, SeparatedStable
  <2> QED
    BY <1>1, <2>1, <2>2 DEF Separated
<1> QED
  BY <1>1, <1>2, FewerAcyclic DEF FInv

(* One request at a time keeps the outline a forest: Indent, Unindent and   *)
(* Move never close a loop, whatever is deleted between their statements.   *)
THEOREM OutlineStaysForest == Alone => (Spec => []LinearAcyclic)
<1> SUFFICES ASSUME Alone PROVE Spec => []LinearAcyclic
  OBVIOUS
<1>1. FInv /\ [Next]_vars => FInv'
  <2> SUFFICES ASSUME FInv, [Next]_vars PROVE FInv'
    OBVIOUS
  <2>1. IInv'
    BY InvariantKept DEF FInv
  <2>2. LinearAcyclic' /\ \A u \in Sessions : Separated(req[u])'
    BY AloneStep, DeletionStep DEF Next
  <2> QED
    BY <2>1, <2>2 DEF FInv
<1>2. FInv => LinearAcyclic
  BY DEF FInv
<1> QED
  BY <1>1, <1>2, InitForest, PTL DEF Spec


-----------------------------------------------------------------------------
(* No bullet is lost.                                                       *)

(* A closure contains its seeds and, with a node, its children.             *)
LEMMA ClosureClosed ==
  ASSUME NEW seeds \in SUBSET Id, NEW es, \A e \in es : e.to \in Id
  PROVE  seeds \subseteq Closure(seeds, es) /\ Closed(Closure(seeds, es), es)
  BY DEF Closure, Closed

(* In a forest every bullet has a root above it, or a quote that lost its   *)
(* parent.                                                                  *)
LEMMA ForestShown == ASSUME IInv, LinearAcyclic PROVE BulletsShown
<1> DEFINE es == ChildEdges(nodes, edges)
           shown == InForest(nodes, edges)
           orphaned == Closure(OrphanQuotes, es)
           S == {n \in Live(nodes) : n \notin shown /\ n \notin orphaned}
<1>1. /\ nodes \in Nodes /\ Live(nodes) \subseteq Id /\ es = Linear(edges)
      /\ \A e \in es : e.to \in Id /\ e.from \in Live(nodes) /\ e.to \in Live(nodes)
  BY DEF IInv, TypeOK, EdgesSound, ChildEdges, Linear, Live
<1>2. /\ Roots(nodes, edges) \subseteq shown /\ Closed(shown, es)
      /\ OrphanQuotes \subseteq orphaned /\ Closed(orphaned, es)
  <2>1. Roots(nodes, edges) \in SUBSET Id /\ OrphanQuotes \in SUBSET Id
    BY <1>1 DEF Roots, OrphanQuotes
  <2> HIDE DEF es
  <2> QED
    BY <1>1, <2>1, ClosureClosed DEF InForest, es
<1>3. ASSUME NEW n \in S
      PROVE  HasParentIn(S, Linear(edges), n)
  <2>1. CASE \E e \in es : e.to = n
    <3>1. PICK e \in es : e.to = n
      BY <2>1
    <3>2. e.from \in S
      BY <1>1, <1>2, <3>1 DEF Closed
    <3> QED
      BY <1>1, <3>1, <3>2 DEF HasParentIn
  <2>2. CASE \A e \in es : e.to # n
    <3>1. ParentOf(nodes, edges, n) = NoParent
      BY <2>2, ParentOfType
    <3>2. nodes[n] \in {"outline", "chunk_ref"}
      BY <1>1 DEF Nodes, NodeType, Live
    <3>3. CASE nodes[n] = "outline"
      BY <1>2, <2>2, <3>3 DEF Roots
    <3>4. CASE nodes[n] = "chunk_ref"
      BY <1>2, <3>1, <3>4 DEF OrphanQuotes
    <3> QED
      BY <3>2, <3>3, <3>4
  <2> QED
    BY <2>1, <2>2
<1>4. S = {}
  <2>1. S \in SUBSET Id
    BY <1>1
  <2> HIDE DEF S
  <2> QED
    BY <1>3, <2>1 DEF LinearAcyclic, Acyclic
<1> QED
  BY <1>4 DEF BulletsShown

(* FInv is kept: the step of a theorem below.                               *)
LEMMA ForestKept == ASSUME Alone, FInv, [Next]_vars PROVE FInv'
<1>1. IInv'
  BY InvariantKept DEF FInv
<1>2. LinearAcyclic' /\ \A u \in Sessions : Separated(req[u])'
  BY AloneStep, DeletionStep DEF Next
<1> QED
  BY <1>1, <1>2 DEF FInv

(* With one request at a time no bullet is lost: one the page does not show *)
(* is below a quote whose parent was deleted (tree.go BuildTree).           *)
THEOREM NoBulletLost == ASSUME Alone PROVE Spec => []BulletsShown
<1>1. FInv /\ [Next]_vars => FInv'
  BY ForestKept
<1>2. FInv => BulletsShown
  BY ForestShown DEF FInv
<1> QED
  BY <1>1, <1>2, InitForest, PTL DEF Spec

-----------------------------------------------------------------------------
(* Adding an exit closes no loop.                                           *)

(* What the search of a request has established.  While it runs: what it    *)
(* has visited leads only to what it has visited or will visit.  After it:  *)
(* some set of nodes has the target, lacks the source, and is left by no    *)
(* edge.                                                                    *)
Searched(r) ==
  /\ r.at = "probe" =>
       /\ r.node \in r.todo \cup r.known /\ r.parent \notin r.known
       /\ \A e \in edges : e.from \in r.known => e.to \in r.todo \cup r.known
  /\ r.at = "link" => \E D \in SUBSET Id : r.node \in D /\ r.parent \notin D /\ Closed(D, edges)

SInv == IInv /\ \A s \in Sessions : Searched(req[s])

(* Other requests' deletions do not spoil a search.                         *)
LEMMA SearchedStable ==
  ASSUME NEW r, Searched(r), edges' \subseteq edges
  PROVE  Searched(r)'
  BY DEF Searched, Closed

(* A search goes on, or has seen all there is below the target.             *)
LEMMA ProbeSearched ==
  ASSUME IInv, NEW s \in Sessions, Searched(req[s]), ProbeCycle(s)
  PROVE  \A u \in Sessions : u = s => Searched(req[u])'
<1> DEFINE r == req[s]
<1>1. PICK n \in r.todo :
        Go(s, IF n = r.parent THEN Idle
              ELSE IF Left(r, n) = {} THEN [r EXCEPT !.at = "link", !.todo = {}, !.known = {}]
              ELSE [r EXCEPT !.todo = Left(r, n), !.known = r.known \cup {n}])
  BY DEF ProbeCycle
<1>2. /\ r \in Request /\ r.at = "probe" /\ edges' = edges /\ edges \subseteq Edge
      /\ \A q : Go(s, q) => req'[s] = q
  BY DEF IInv, TypeOK, ProbeCycle, Go
<1>3. /\ r.node \in r.todo \cup r.known /\ r.parent \notin r.known
      /\ \A e \in edges : e.from \in r.known => e.to \in r.todo \cup r.known
      /\ r.todo \subseteq Id /\ r.known \subseteq Id
  BY <1>2 DEF Searched, Request
<1>4. PICK D \in SUBSET Id : D = r.known \cup {n}
  BY <1>3
<1>5. \A e \in edges : e.from \in D => e.to \in Left(r, n) \cup D
  BY <1>3, <1>4 DEF Left, Successors
<1>6. PICK q : q = IF n = r.parent THEN Idle
                   ELSE IF Left(r, n) = {}
                        THEN [r EXCEPT !.at = "link", !.todo = {}, !.known = {}]
                   ELSE [r EXCEPT !.todo = Left(r, n), !.known = r.known \cup {n}]
  OBVIOUS
<1>7. req'[s] = q
  BY <1>1, <1>2, <1>6
<1>8. Searched(q)'
  <2>1. CASE n = r.parent
    BY <1>6, <2>1 DEF Searched, Idle, NewRequest
  <2>2. CASE n # r.parent /\ Left(r, n) = {}
    <3>1. q.at = "link" /\ q.node = r.node /\ q.parent = r.parent
      BY <1>2, <1>6, <2>2 DEF Request
    <3>2. r.node \in D /\ r.parent \notin D
      BY <1>3, <1>4, <2>2 DEF Left
    <3>3. Closed(D, edges')
      BY <1>2, <1>5, <2>2 DEF Closed
    <3> QED
      BY <3>1, <3>2, <3>3 DEF Searched
  <2>3. CASE n # r.parent /\ Left(r, n) # {}
    <3>1. /\ q.at = "probe" /\ q.node = r.node /\ q.parent = r.parent
          /\ q.todo = Left(r, n) /\ q.known = D
      BY <1>2, <1>4, <1>6, <2>3 DEF Request
    <3>2. r.node \in Left(r, n) \cup D /\ r.parent \notin D
      BY <1>3, <1>4, <2>3 DEF Left
    <3> QED
      BY <1>2, <1>5, <3>1, <3>2 DEF Searched
  <2> QED
    BY <2>1, <2>2, <2>3
<1> QED
  BY <1>7, <1>8 DEF Searched

(* SInv is kept by a step of the only request in flight.                    *)
LEMMA AloneSearched ==
  ASSUME SInv, Alone, NEW s \in Sessions, Ask(s) \/ Step(s) \/ Abort(s)
  PROVE  \A u \in Sessions : Searched(req[u])'
<1>a. /\ IInv /\ Searched(req[s]) /\ req[s] \in Request /\ edges \in SUBSET Edge
  BY DEF SInv, IInv, TypeOK
<1>b. \A r : Go(s, r) => req'[s] = r
  BY <1>a DEF Go, IInv, TypeOK
<1>c. \A r : Go(s, r) /\ r.at \notin {"probe", "link"} =>
               \A u \in Sessions : Searched(req[u])'
  BY <1>b DEF Alone, Searched
<1>d. Idle.at \notin {"probe", "link"}
  BY DEF Idle, NewRequest
<1>e. Finish(s) => \A u \in Sessions : Searched(req[u])'
  BY <1>c, <1>d DEF Finish
<1>1. CASE Ask(s)
  <2>1. PICK r \in ClientRequests : Go(s, r)
    BY <1>1 DEF Ask
  <2>2. CASE r \in ExitRequests
    <3>1. /\ r.at = "probe" /\ r.node # r.parent /\ r.todo = {r.node} /\ r.known = {}
      BY <2>2 DEF ExitRequests, ExitRequest, NewRequest
    <3>2. Searched(r)'
      BY <3>1 DEF Searched
    <3> QED
      BY <1>b, <2>1, <3>2 DEF Alone, Searched
  <2>3. CASE r \notin ExitRequests
    <3>1. r.at \notin {"probe", "link"}
      BY <2>3 DEF ClientRequests, RootRequests, TreeRequests, AtRequests, MoveRequests,
                  RescueRequests, NewRequest
    <3> QED
      BY <1>c, <2>1, <3>1
  <2> QED
    BY <2>2, <2>3
<1>2. CASE ReadNodes(s)
  <2>1. PICK r : r = [req[s] EXCEPT !.at = "edges", !.seen = nodes]
    OBVIOUS
  <2>2. r.at = "edges" /\ Go(s, r)
    BY <1>2, <1>a, <2>1 DEF Request, ReadNodes
  <2> QED
    BY <1>c, <2>2
<1>3. CASE ReadEdges(s)
  <2>1. PICK r : r = PlanFor(req[s], req[s].seen)
    OBVIOUS
  <2>2. \A parent, pos : Plan(req[s], parent, pos).at \in {"place", "create"}
    BY <1>a DEF Plan, Request
  <2>3. r.at \notin {"probe", "link"}
    BY <1>d, <2>1, <2>2 DEF PlanFor, PlanSibling, PlanIndent, PlanUnindent, PlanMove
  <2> QED
    BY <1>3, <1>c, <2>1, <2>3 DEF ReadEdges
<1>4. CASE CreateNode(s)
  <2>1. PICK r \in AfterCreate(req[s], next) : Go(s, r)
    BY <1>4 DEF CreateNode
  <2>2. r.at \notin {"probe", "link"}
    <3>1. \/ r = Idle
          \/ r = [req[s] EXCEPT !.at = "nodes", !.node = next]
          \/ r = [req[s] EXCEPT !.at = "place", !.node = next]
      BY <2>1 DEF AfterCreate
    <3> QED
      BY <1>a, <1>d, <3>1 DEF Request
  <2> QED
    BY <1>c, <2>1, <2>2
<1>5. CASE PlaceNode(s)
  <2>1. \A op, m : NewRequest("cite", op, m, NoParent, 0, {}).at = "cite"
    BY DEF NewRequest
  <2> QED
    BY <1>5, <1>c, <1>e, <2>1 DEF PlaceNode
<1>6. CASE CiteChunk(s)
  BY <1>6, <1>e DEF CiteChunk
<1>7. CASE ProbeCycle(s)
  BY <1>7, <1>a, ProbeSearched DEF Alone
<1>8. CASE LinkExit(s)
  BY <1>8, <1>e DEF LinkExit
<1>9. CASE Abort(s)
  BY <1>9, <1>e DEF Abort
<1> QED
  BY <1>1, <1>2, <1>3, <1>4, <1>5, <1>6, <1>7, <1>8, <1>9 DEF Step

(* SInv is inductive for one request at a time.                             *)
LEMMA SearchKept == ASSUME Alone, SInv, [Next]_vars PROVE SInv'
<1>1. IInv'
  BY InvariantKept DEF SInv
<1>2. CASE \E s \in Sessions : Ask(s) \/ Step(s) \/ Abort(s)
  BY <1>1, <1>2, AloneSearched DEF SInv
<1>3. CASE DeleteNode \/ DeleteExit \/ UNCHANGED vars
  <2>1. edges' \subseteq edges /\ req' = req
    BY <1>3 DEF DeleteNode, DeleteExit, CascadeEdges, vars
  <2>2. ASSUME NEW u \in Sessions
        PROVE  Searched(req[u])'
    <3>1. PICK r : r = req[u]
      OBVIOUS
    <3>2. Searched(r)'
      BY <2>1, <3>1, SearchedStable DEF SInv
    <3> QED
      BY <2>1, <3>1, <3>2 DEF Searched
  <2> QED
    BY <1>1, <2>2 DEF SInv
<1> QED
  BY <1>2, <1>3 DEF Next

(* An edge into a set that no edge leaves, from outside it, closes no loop. *)
LEMMA EdgeIntoClosed ==
  ASSUME NEW es, Acyclic(es), NEW D \in SUBSET Id, Closed(D, es),
         NEW e, e.to \in D, e.from \notin D
  PROVE  Acyclic(es \cup {e})
<1> SUFFICES ASSUME NEW S \in SUBSET Id, S # {}
             PROVE  \E n \in S : ~HasParentIn(S, es \cup {e}, n)
  BY DEF Acyclic
<1>1. CASE S \subseteq D
  <2>1. PICK n \in S : ~HasParentIn(S, es, n)
    BY DEF Acyclic
  <2> QED
    BY <1>1, <2>1 DEF HasParentIn
<1>2. CASE ~(S \subseteq D)
  <2>1. PICK n \in S \ D : ~HasParentIn(S \ D, es, n)
    BY <1>2 DEF Acyclic
  <2>2. ~HasParentIn(S, es \cup {e}, n)
    BY <2>1 DEF HasParentIn, Closed
  <2> QED
    BY <2>1, <2>2
<1> QED
  BY <1>1, <1>2

(* Only LinkExit adds an exit.                                              *)
LEMMA ExitsAdded ==
  ASSUME IInv, NEW s \in Sessions, Ask(s) \/ Step(s) \/ Abort(s), ~LinkExit(s)
  PROVE  \A e \in edges' \ edges : e.type # "exit"
<1>1. CASE PlaceNode(s)
  <2>1. edges' = MoveNode(nodes, edges, req[s].node, req[s].parent, req[s].pos)
    BY <1>1 DEF PlaceNode
  <2>2. \A e \in Edge : \A p, k : Shifted(e, p, k) = e \/ Shifted(e, p, k).type = "linear"
    BY DEF Shifted, Edge
  <2>3. \A p, n, k : LinearEdge(p, n, k).type = "linear"
    BY DEF LinearEdge
  <2>4. edges \subseteq Edge
    BY DEF IInv, TypeOK
  <2> QED
    BY <2>1, <2>2, <2>3, <2>4 DEF MoveNode, MakeRoom, DetachEdges
<1>2. CASE ~PlaceNode(s)
  <2>1. edges' = edges
    BY <1>2 DEF Ask, Step, Abort, ReadNodes, ReadEdges, CreateNode, CiteChunk, ProbeCycle
  <2> QED
    BY <2>1
<1> QED
  BY <1>1, <1>2

(* With one request at a time, and deletions at any moment, adding an exit  *)
(* closes no loop of linear and exit edges (graph.go WouldCreateCycle).     *)
THEOREM ExitsCloseNoLoop == ASSUME Alone PROVE Spec => ExitsKeepAcyclic
<1> DEFINE A == (\E e \in edges' \ edges : e.type = "exit") /\ Acyclic(edges) => Acyclic(edges')
<1>1. Init => SInv
  BY InitInv DEF Init, SInv, Searched, Idle, NewRequest
<1>2. SInv /\ [Next]_vars => SInv'
  BY SearchKept
<1>3. SInv /\ [Next]_vars => [A]_vars
  <2> SUFFICES ASSUME SInv, Next, NEW x \in edges' \ edges, x.type = "exit", Acyclic(edges)
               PROVE  Acyclic(edges')
    OBVIOUS
  <2>1. PICK s \in Sessions : Ask(s) \/ Step(s) \/ Abort(s)
    BY DEF Next, DeleteNode, DeleteExit, CascadeEdges
  <2>2. LinkExit(s)
    BY <2>1, ExitsAdded DEF SInv
  <2>3. PICK e : e = ExitEdge(req[s].parent, req[s].node)
    OBVIOUS
  <2>4. edges' = edges \cup {e} /\ e.from = req[s].parent /\ e.to = req[s].node
    BY <2>2, <2>3 DEF LinkExit, InsertEdge, ExitEdge
  <2>5. PICK D \in SUBSET Id : req[s].node \in D /\ req[s].parent \notin D /\ Closed(D, edges)
    BY <2>2 DEF SInv, Searched, LinkExit
  <2> QED
    BY <2>4, <2>5, EdgeIntoClosed
<1> QED
  BY <1>1, <1>2, <1>3, PTL DEF Spec, ExitsKeepAcyclic

-----------------------------------------------------------------------------
(* What a step may do to exits and to the order of siblings, with any       *)
(* number of requests in flight.                                            *)

(* What MoveNode leaves of the row of a node it does not move, or of an     *)
(* exit: the row, or the row shifted to make room.                          *)
LEMMA MoveNodeRows ==
  ASSUME NEW f, NEW es \in SUBSET Edge, NEW n, NEW p, NEW k \in Nat,
         NEW after, after = MoveNode(f, es, n, p, k)
  PROVE  /\ \A e \in es : e.type = "exit" => e \in after
         /\ \/ \A e \in Linear(after) : e.to # n => e \in Linear(es)
            \/ \A e \in Linear(after) : e.to # n => \E g \in Linear(es) : e = Shifted(g, p, k)
<1> DEFINE left == DetachEdges(es, n)
<1>1. \/ after = es \/ after = left
      \/ after = {Shifted(e, p, k) : e \in left} \cup {LinearEdge(p, n, k)}
  BY DEF MoveNode, MakeRoom
<1>2. \A e \in Edge : /\ Shifted(e, p, k).type = e.type
                      /\ e.type = "exit" => Shifted(e, p, k) = e
  BY DEF Shifted, Edge
<1>3. LinearEdge(p, n, k).to = n
  BY DEF LinearEdge
<1>4. left \subseteq es /\ \A e \in es : e.type = "exit" \/ e.to # n => e \in left
  BY DEF DetachEdges
<1> HIDE DEF left
<1>5. CASE after = es \/ after = left
  BY <1>4, <1>5 DEF Linear
<1>6. CASE after = {Shifted(e, p, k) : e \in left} \cup {LinearEdge(p, n, k)}
  <2>1. \A e \in left : Shifted(e, p, k) \in after
    BY <1>6
  <2>2. ASSUME NEW e \in after, e.to # n
        PROVE  \E g \in left : e = Shifted(g, p, k)
    BY <1>3, <1>6, <2>2
  <2>3. \A e \in es : e.type = "exit" => e \in after
    <3>1. ASSUME NEW e \in es, e.type = "exit"
          PROVE  e \in after
      <4>1. e \in left /\ e = Shifted(e, p, k)
        BY <1>2, <1>4, <3>1
      <4> QED
        BY <2>1, <4>1
    <3> QED
      BY <3>1
  <2>4. ASSUME NEW e \in Linear(after), e.to # n
        PROVE  \E g \in Linear(es) : e = Shifted(g, p, k)
    <3>1. PICK g \in left : e = Shifted(g, p, k)
      BY <2>2, <2>4 DEF Linear
    <3>2. g \in es /\ g.type = "linear"
      BY <1>2, <1>4, <2>4, <3>1 DEF Linear
    <3> QED
      BY <3>1, <3>2 DEF Linear
  <2> QED
    BY <2>3, <2>4
<1> QED
  BY <1>1, <1>5, <1>6

(* No request drops an exit it was not asked to delete, as long as both its *)
(* ends are there (sqlite.go MoveNode, DeleteNode, DeleteEdge).             *)
THEOREM ExitsStay == Spec => ExitsKept
<1> DEFINE A == \A e \in edges \ edges' :
                  e.type = "exit" =>
                    \/ {e.from, e.to} \ Live(nodes') # {}
                    \/ asked' # asked /\ edges' = edges \ {e}
<1>1. IInv /\ [Next]_vars => [A]_vars
  <2> SUFFICES ASSUME IInv, Next, NEW e \in edges, e \notin edges', e.type = "exit"
               PROVE  \/ {e.from, e.to} \ Live(nodes') # {}
                      \/ asked' # asked /\ edges' = edges \ {e}
    OBVIOUS
  <2>a. edges \in SUBSET Edge /\ nodes \in Nodes
    BY DEF IInv, TypeOK
  <2>1. ASSUME NEW s \in Sessions, PlaceNode(s)
        PROVE  FALSE
    <3>1. edges' = MoveNode(nodes, edges, req[s].node, req[s].parent, req[s].pos)
      BY <2>1 DEF PlaceNode
    <3>2. req[s].pos \in Nat
      BY DEF IInv, TypeOK, Request
    <3> QED
      BY <2>a, <3>1, <3>2, MoveNodeRows
  <2>2. ASSUME NEW s \in Sessions, Ask(s) \/ Step(s) \/ Abort(s), ~PlaceNode(s)
        PROVE  FALSE
    <3>1. edges \subseteq edges'
      BY <2>2 DEF Ask, Step, Abort, ReadNodes, ReadEdges, CreateNode, CiteChunk, ProbeCycle,
                  LinkExit, InsertEdge
    <3> QED
      BY <3>1
  <2>3. CASE DeleteNode
    <3>1. PICK n \in Live(nodes) : /\ nodes' = DropNode(nodes, n)
                                   /\ edges' = CascadeEdges(edges, n)
      BY <2>3 DEF DeleteNode
    <3>2. n \in {e.from, e.to}
      BY <3>1 DEF CascadeEdges
    <3>3. n \notin Live(nodes')
      BY <2>a, <3>1 DEF DropNode, Live, Nodes
    <3> QED
      BY <3>2, <3>3
  <2>4. CASE DeleteExit
    <3>1. PICK x \in edges : Asked("ExitDelete") /\ edges' = edges \ {x}
      BY <2>4 DEF DeleteExit
    <3>2. x = e
      BY <3>1
    <3>3. asked' = asked + 1 /\ asked \in Nat
      BY <3>1, OutlineAssumption DEF Asked, IInv, TypeOK
    <3> QED
      BY <3>1, <3>2, <3>3
  <2> QED
    BY <2>1, <2>2, <2>3, <2>4 DEF Next
<1> QED
  BY <1>1, Invariance, PTL DEF Spec, ExitsKept

(* The parent and the weight the tree gives a node are those of the only    *)
(* linear row that enters it.                                               *)
LEMMA RowOf ==
  ASSUME NEW f, NEW es, Sound(f, es), SingleParent(es), NEW e \in Linear(es)
  PROVE  ParentOf(f, es, e.to) = e.from /\ WeightOf(f, es, e.to) = e.weight
<1> DEFINE incoming == {g \in ChildEdges(f, es) : g.to = e.to}
<1>1. incoming = {e}
  BY DEF ChildEdges, Sound, SingleParent, Linear
<1>2. (CHOOSE g \in incoming : TRUE) = e
  BY <1>1
<1> QED
  BY <1>1, <1>2 DEF ParentOf, WeightOf

(* A node with a parent has a row.                                          *)
LEMMA HasRow ==
  ASSUME NEW f, NEW es, NEW n, ParentOf(f, es, n) # NoParent
  PROVE  \E e \in Linear(es) : e.to = n
  BY ParentOfType DEF ChildEdges

\* The rows of nodes that stay: unchanged, or shifted to make room.
RowsFollow(moved) ==
  \/ \A e \in Linear(edges') : e.to \notin moved => e \in Linear(edges)
  \/ \E p, k : /\ k \in Nat
               /\ \A e \in Linear(edges') :
                    e.to \notin moved => \E g \in Linear(edges) : e = Shifted(g, p, k)

(* Two siblings whose rows stay keep their order.                           *)
LEMMA OrderFollows ==
  ASSUME IInv, IInv', NEW moved, RowsFollow(moved), NEW m \in Id \ moved, NEW n \in Id \ moved,
         SameParent(m, n), SameParent(m, n)', Precedes(nodes, edges, m, n)
  PROVE  Precedes(nodes, edges, m, n)'
<1>1. /\ Sound(nodes, edges) /\ SingleParent(edges) /\ Sound(nodes', edges')
      /\ SingleParent(edges') /\ edges \in SUBSET Edge /\ edges' \in SUBSET Edge
  <2>1. Sound(nodes, edges) /\ SingleParent(edges) /\ edges \in SUBSET Edge
    BY SameConditions DEF IInv, TypeOK
  <2>2. Sound(nodes', edges') /\ SingleParent(edges') /\ edges' \in SUBSET Edge
    BY DEF IInv, TypeOK, EdgesSound, OneParent, Sound, SingleParent
  <2> QED
    BY <2>1, <2>2
<1>2. PICK a \in Linear(edges'), b \in Linear(edges') : a.to = m /\ b.to = n
  BY HasRow DEF SameParent
<1>3. PICK x \in Linear(edges), y \in Linear(edges) : x.to = m /\ y.to = n
  BY HasRow DEF SameParent
<1>4. /\ ParentOf(nodes, edges, m) = x.from /\ WeightOf(nodes, edges, m) = x.weight
      /\ ParentOf(nodes, edges, n) = y.from /\ WeightOf(nodes, edges, n) = y.weight
  BY <1>1, <1>3, RowOf
<1>5. /\ ParentOf(nodes', edges', m) = a.from /\ WeightOf(nodes', edges', m) = a.weight
      /\ ParentOf(nodes', edges', n) = b.from /\ WeightOf(nodes', edges', n) = b.weight
  BY <1>1, <1>2, RowOf
<1>6. x.from = y.from /\ x.weight \in Nat /\ y.weight \in Nat /\ x \in Edge /\ y \in Edge
  BY <1>1, <1>3, <1>4 DEF SameParent, Linear, Edge
<1>7. x.weight < y.weight \/ (x.weight = y.weight /\ m < n)
  BY <1>4 DEF Precedes
<1>8. CASE \A e \in Linear(edges') : e.to \notin moved => e \in Linear(edges)
  <2>1. a = x /\ b = y
    BY <1>1, <1>2, <1>3, <1>8 DEF SingleParent
  <2> QED
    BY <1>5, <1>7, <2>1 DEF Precedes
<1>9. ASSUME NEW p, NEW k \in Nat,
             \A e \in Linear(edges') :
               e.to \notin moved => \E g \in Linear(edges) : e = Shifted(g, p, k)
      PROVE  Precedes(nodes, edges, m, n)'
  <2>1. PICK g \in Linear(edges), h \in Linear(edges) : a = Shifted(g, p, k) /\ b = Shifted(h, p, k)
    BY <1>2, <1>9
  <2>2. g \in Edge /\ h \in Edge
    BY <1>1 DEF Linear
  <2>3. g.to = m /\ h.to = n
    BY <1>2, <2>1, <2>2, ShiftedKeeps
  <2>4. g = x /\ h = y
    BY <1>1, <1>3, <2>3 DEF SingleParent
  <2>5. /\ a.weight = IF x.type = "linear" /\ x.from = p /\ x.weight >= k THEN x.weight + 1
                      ELSE x.weight
        /\ b.weight = IF y.type = "linear" /\ y.from = p /\ y.weight >= k THEN y.weight + 1
                      ELSE y.weight
    BY <2>1, <2>2, <2>4, ShiftedKeeps
  <2>6. a.weight < b.weight \/ (a.weight = b.weight /\ m < n)
    BY <1>3, <1>6, <1>7, <2>5 DEF Linear
  <2> QED
    BY <1>5, <2>6 DEF Precedes
<1> QED
  BY <1>8, <1>9 DEF RowsFollow

(* No request changes the order of two siblings it does not move, whatever  *)
(* stale tree its position comes from (sqlite.go MoveNode).                 *)
THEOREM SiblingsKeepOrder == Spec => SiblingOrderKept
<1> DEFINE A == \A m, n \in Live(nodes) :
                  /\ SameParent(m, n) /\ SameParent(m, n)'
                  /\ Precedes(nodes, edges, m, n) /\ ~Precedes(nodes, edges, m, n)'
                  => \E s \in Sessions : req[s].at = "place" /\ req[s].node \in {m, n}
<1>1. IInv /\ IInv' /\ [Next]_vars => [A]_vars
  <2> SUFFICES ASSUME IInv, IInv', Next, NEW m \in Live(nodes), NEW n \in Live(nodes),
                      SameParent(m, n), SameParent(m, n)',
                      Precedes(nodes, edges, m, n), ~Precedes(nodes, edges, m, n)'
               PROVE  \E s \in Sessions : req[s].at = "place" /\ req[s].node \in {m, n}
    OBVIOUS
  <2>a. m \in Id /\ n \in Id
    BY DEF Live
  <2>1. CASE \E s \in Sessions : PlaceNode(s)
    <3>1. PICK s \in Sessions : PlaceNode(s)
      BY <2>1
    <3>2. PICK x : x = req[s].node
      OBVIOUS
    <3>3. RowsFollow({x})
      <4>1. /\ edges' = MoveNode(nodes, edges, x, req[s].parent, req[s].pos)
            /\ req[s].pos \in Nat /\ edges \in SUBSET Edge
        BY <3>1, <3>2 DEF PlaceNode, IInv, TypeOK, Request
      <4>2. PICK p, k : p = req[s].parent /\ k = req[s].pos
        OBVIOUS
      <4>3. k \in Nat /\ edges' = MoveNode(nodes, edges, x, p, k)
        BY <4>1, <4>2
      <4>4. \/ \A e \in Linear(edges') : e.to # x => e \in Linear(edges)
            \/ \A e \in Linear(edges') :
                 e.to # x => \E g \in Linear(edges) : e = Shifted(g, p, k)
        BY <4>1, <4>3, MoveNodeRows
      <4> QED
        BY <4>3, <4>4 DEF RowsFollow
    <3>4. req[s].at = "place"
      BY <3>1 DEF PlaceNode
    <3> QED
      BY <2>a, <3>2, <3>3, <3>4, OrderFollows
  <2>2. CASE ~\E s \in Sessions : PlaceNode(s)
    <3>1. Linear(edges') \subseteq Linear(edges)
      <4>1. \/ edges' \subseteq edges
            \/ \E s \in Sessions : LinkExit(s)
        BY <2>2 DEF Next, Ask, Step, Abort, ReadNodes, ReadEdges, CreateNode, CiteChunk,
                    ProbeCycle, DeleteNode, DeleteExit, CascadeEdges
      <4>2. ASSUME NEW s \in Sessions, LinkExit(s)
            PROVE  Linear(edges') = Linear(edges)
        BY <4>2 DEF LinkExit, InsertEdge, Linear, ExitEdge
      <4> QED
        BY <4>1, <4>2 DEF Linear
    <3>2. RowsFollow({})
      BY <3>1 DEF RowsFollow
    <3> QED
      BY <2>a, <3>2, OrderFollows
  <2> QED
    BY <2>1, <2>2
<1> QED
  BY <1>1, Invariance, PTL DEF Spec, SiblingOrderKept

-----------------------------------------------------------------------------
(* With one request at a time the tables implement OutlineForest.           *)

(* In sound tables BuildTree keeps every linear row.                        *)
LEMMA KidsAreRows ==
  ASSUME IInv
  PROVE  /\ ChildEdges(nodes, edges) = Linear(edges)
         /\ Sound(nodes, edges) /\ SingleParent(edges)
         /\ edges \in SUBSET Edge /\ nodes \in Nodes
         /\ \A p \in Id : Kids[p] = {e.to : e \in {g \in Linear(edges) : g.from = p}}
<1>1. Sound(nodes, edges) /\ SingleParent(edges) /\ edges \in SUBSET Edge /\ nodes \in Nodes
  BY SameConditions DEF IInv, TypeOK
<1>2. ChildEdges(nodes, edges) = Linear(edges)
  BY <1>1 DEF ChildEdges, Sound, Linear
<1> QED
  BY <1>1, <1>2 DEF Kids, Children

(* Two bullets have the same parent when one bullet has both as children.   *)
LEMMA KidsShareParent ==
  ASSUME IInv, NEW m \in Id, NEW n \in Id
  PROVE  /\ \A p \in Id : m \in Kids[p] <=> ParentOf(nodes, edges, m) = p
         /\ SameParent(m, n) <=> \E p \in Id : m \in Kids[p] /\ n \in Kids[p]
<1>1. ASSUME NEW l \in Id, NEW p \in Id
      PROVE  l \in Kids[p] <=> ParentOf(nodes, edges, l) = p
  <2>1. ASSUME l \in Kids[p] PROVE ParentOf(nodes, edges, l) = p
    <3>1. PICK e \in Linear(edges) : e.from = p /\ e.to = l
      BY <2>1, KidsAreRows
    <3> QED
      BY <3>1, KidsAreRows, RowOf
  <2>2. ASSUME ParentOf(nodes, edges, l) = p PROVE l \in Kids[p]
    <3>1. p # NoParent
      BY IdAndNoParent
    <3>2. \E e \in ChildEdges(nodes, edges) : e.to = l /\ e.from = p
      BY <2>2, <3>1, ParentOfType
    <3> QED
      BY <3>2, KidsAreRows
  <2> QED
    BY <2>1, <2>2
<1>2. \/ ParentOf(nodes, edges, m) = NoParent
      \/ ParentOf(nodes, edges, m) \in Id
  BY ParentOfType DEF Live
<1>3. NoParent \notin Id
  BY IdAndNoParent
<1> QED
  BY <1>1, <1>2, <1>3 DEF SameParent

(* Before orders the children of every bullet.                              *)
LEMMA BeforeOrders == ASSUME IInv PROVE Forest!Orders(Before, Kids)
<1>1. \A p \in Id : Kids[p] \subseteq Id
  BY KidsAreRows DEF Linear, Edge
<1>2. \A m, n \in Id : <<m, n>> \in Before <=>
        Precedes(nodes, edges, m, n) /\ \E p \in Id : m \in Kids[p] /\ n \in Kids[p]
  BY KidsShareParent DEF Before
<1>3. Before \subseteq UNION {Kids[p] \X Kids[p] : p \in Id}
  <2> SUFFICES ASSUME NEW x \in Before PROVE \E p \in Id : x \in Kids[p] \X Kids[p]
    OBVIOUS
  <2>1. x = <<x[1], x[2]>> /\ x[1] \in Id /\ x[2] \in Id
    BY DEF Before
  <2> QED
    BY <1>2, <2>1
<1>4. /\ \A m \in Id : ~Precedes(nodes, edges, m, m)
      /\ \A m, n \in Id : m = n \/ Precedes(nodes, edges, m, n) \/ Precedes(nodes, edges, n, m)
      /\ \A l, m, n \in Id : Precedes(nodes, edges, l, m) /\ Precedes(nodes, edges, m, n)
                             => Precedes(nodes, edges, l, n)
  BY PrecedesOrder, KidsAreRows
<1>5. ASSUME NEW p \in Id, NEW m \in Kids[p], NEW n \in Kids[p]
      PROVE  /\ <<m, n>> \in Before => <<n, m>> \notin Before
             /\ m = n \/ <<m, n>> \in Before \/ <<n, m>> \in Before
             /\ \A l \in Kids[p] :
                  <<l, m>> \in Before /\ <<m, n>> \in Before => <<l, n>> \in Before
  BY <1>1, <1>2, <1>4
<1> QED
  BY <1>3, <1>5 DEF Forest!Orders

(* Tables with the same linear rows between live nodes are the same forest. *)
LEMMA SameRowsSameForest ==
  ASSUME ChildEdges(nodes', edges') = ChildEdges(nodes, edges)
  PROVE  Kids' = Kids /\ Before' = Before
<1>1. Kids' = Kids
  BY DEF Kids, Children
<1>2. \A m : /\ ParentOf(nodes', edges', m) = ParentOf(nodes, edges, m)
             /\ WeightOf(nodes', edges', m) = WeightOf(nodes, edges, m)
  BY DEF ParentOf, WeightOf
<1>3. Before' = Before
  BY <1>2 DEF Before, SameParent, Precedes
<1> QED
  BY <1>1, <1>3

(* A new bullet has no row.                                                 *)
LEMMA CreateAdds ==
  ASSUME IInv, NEW s \in Sessions, CreateNode(s)
  PROVE  \E n \in Id : Forest!Add(n)
<1>1. /\ next \in Id /\ UNCHANGED edges /\ nodes \in Nodes /\ next \notin Live(nodes)
      /\ nodes' = InsertNode(nodes, next, TypeCreated(req[s]))
  BY IdsAreIntegers DEF CreateNode, IInv, TypeOK
<1>2. PICK n, type : n = next /\ type = TypeCreated(req[s])
  OBVIOUS
<1>3. type \in NodeType
  BY <1>2 DEF TypeCreated, NodeType
<1>4. Live(nodes') = Live(nodes) \cup {n}
  BY <1>1, <1>2, <1>3, InsertNodeLive
<1>5. ChildEdges(nodes', edges') = ChildEdges(nodes, edges)
  BY <1>1, <1>4 DEF ChildEdges, IInv, EdgesSound, Linear
<1>6. Kids' = Kids /\ Before' = Before
  BY <1>5, SameRowsSameForest
<1> QED
  BY <1>1, <1>2, <1>4, <1>6 DEF Forest!Add

(* Siblings that a step leaves siblings, and does not move, keep their      *)
(* order both ways: it is a total order before and after.                   *)
LEMMA BeforeFollows ==
  ASSUME IInv, IInv', NEW moved, RowsFollow(moved), NEW m \in Id \ moved, NEW n \in Id \ moved,
         SameParent(m, n), SameParent(m, n)'
  PROVE  <<m, n>> \in Before' <=> <<m, n>> \in Before
<1>1. /\ Precedes(nodes, edges, m, n) => Precedes(nodes', edges', m, n)
      /\ Precedes(nodes, edges, n, m) => Precedes(nodes', edges', n, m)
  BY OrderFollows DEF SameParent
<1>2. /\ ~Precedes(nodes', edges', m, m)
      /\ m = n \/ Precedes(nodes, edges, m, n) \/ Precedes(nodes, edges, n, m)
      /\ Precedes(nodes', edges', m, n) /\ Precedes(nodes', edges', n, m)
           => Precedes(nodes', edges', m, m)
  <2>1. edges \in SUBSET Edge /\ edges' \in SUBSET Edge
    BY DEF IInv, TypeOK
  <2> QED
    BY <2>1, PrecedesOrder
<1>3. ~Precedes(nodes, edges, m, m)
  BY PrecedesOrder DEF IInv, TypeOK
<1>4. Precedes(nodes', edges', m, n) <=> Precedes(nodes, edges, m, n)
  BY <1>1, <1>2, <1>3
<1> QED
  BY <1>4 DEF Before

(* The rows after a move that is not rolled back: those of the bullets that *)
(* stay, shifted or not, and the new one.                                   *)
LEMMA MoveNodeKids ==
  ASSUME IInv, IInv', nodes' = nodes, NEW n \in Id, NEW p \in Id \cup {NoParent}, NEW k \in Nat,
         edges' = MoveNode(nodes, edges, n, p, k), CanMoveNode(nodes, edges, n, p)
  PROVE  \A q \in Id : Kids'[q] = (Kids[q] \ {n}) \cup (IF q = p THEN {n} ELSE {})
<1>1. /\ edges \in SUBSET Edge
      /\ \A q \in Id : Kids[q] = {e.to : e \in {g \in Linear(edges) : g.from = q}}
  BY KidsAreRows
<1>2. \A q \in Id : Kids'[q] = {e.to : e \in {g \in Linear(edges') : g.from = q}}
  <2>1. ChildEdges(nodes', edges') = Linear(edges')
    BY DEF IInv, EdgesSound, ChildEdges, Linear
  <2> QED
    BY <2>1 DEF Kids, Children
<1>3. CASE p = NoParent
  <2>1. Linear(edges') = {e \in Linear(edges) : e.to # n}
    BY <1>3 DEF MoveNode, DetachEdges, Linear
  <2> QED
    BY <1>1, <1>2, <1>3, <2>1, IdAndNoParent
<1>4. CASE p # NoParent
  <2> DEFINE row == LinearEdge(p, n, k)
  <2>1. row.type = "linear" /\ row.from = p /\ row.to = n
    BY DEF LinearEdge
  <2>2. edges' = {Shifted(e, p, k) : e \in DetachEdges(edges, n)} \cup {row}
    BY <1>4 DEF MoveNode, MakeRoom
  <2>3. \A e \in edges : /\ Shifted(e, p, k).from = e.from /\ Shifted(e, p, k).to = e.to
                         /\ Shifted(e, p, k).type = e.type
    BY <1>1, ShiftedKeeps
  <2> HIDE DEF row
  <2>4. ASSUME NEW q \in Id, NEW m
        PROVE  m \in Kids'[q] <=> m \in (Kids[q] \ {n}) \cup (IF q = p THEN {n} ELSE {})
    <3>1. m \in Kids'[q] <=> \E g \in edges' : g.type = "linear" /\ g.from = q /\ g.to = m
      BY <1>2 DEF Linear
    <3>2. m \in Kids[q] <=> \E g \in edges : g.type = "linear" /\ g.from = q /\ g.to = m
      BY <1>1 DEF Linear
    <3>3. ASSUME NEW g \in edges', g.type = "linear", g.from = q, g.to = m
          PROVE  m \in (Kids[q] \ {n}) \cup (IF q = p THEN {n} ELSE {})
      <4>1. CASE g = row
        BY <2>1, <3>3, <4>1
      <4>2. CASE g # row
        <5>1. PICK e \in DetachEdges(edges, n) : g = Shifted(e, p, k)
          BY <2>2, <4>2
        <5>2. e \in edges /\ e.type = "linear" /\ e.from = q /\ e.to = m
          BY <2>3, <3>3, <5>1 DEF DetachEdges
        <5>3. m # n
          BY <5>1, <5>2 DEF DetachEdges
        <5> QED
          BY <3>2, <5>2, <5>3
      <4> QED
        BY <4>1, <4>2
    <3>4. ASSUME m \in Kids[q], m # n
          PROVE  m \in Kids'[q]
      <4>1. PICK e \in edges : e.type = "linear" /\ e.from = q /\ e.to = m
        BY <3>2, <3>4
      <4>2. e \in DetachEdges(edges, n)
        BY <3>4, <4>1 DEF DetachEdges
      <4>3. Shifted(e, p, k) \in edges'
        BY <2>2, <4>2
      <4> QED
        BY <2>3, <3>1, <4>1, <4>3
    <3>5. ASSUME q = p, m = n
          PROVE  m \in Kids'[q]
      BY <2>1, <2>2, <3>1, <3>5
    <3> QED
      BY <3>1, <3>3, <3>4, <3>5
  <2> QED
    BY <2>4
<1> QED
  BY <1>3, <1>4

\* What the two lemmas say of the forest.
Arranged ==
  /\ \A m, n \in Id : SameParent(m, n) <=> \E p \in Id : m \in Kids[p] /\ n \in Kids[p]
  /\ Forest!Orders(Before, Kids)

(* It is as true after a step.                                              *)
LEMMA ForestAfter == IInv' => Arranged'
<1>1. IInv => Arranged
  BY KidsShareParent, BeforeOrders DEF Arranged
<1> QED
  BY <1>1, PTL

(* A move, by the only request there is, places its bullet as OutlineForest *)
(* allows: not below itself, the others in the order they had.              *)
LEMMA PlacePlaces ==
  ASSUME FInv, IInv', NEW s \in Sessions, PlaceNode(s)
  PROVE  \/ UNCHANGED <<Live(nodes), Kids, Before>>
         \/ \E n \in Live(nodes) : Forest!Place(n)
<1>1. PICK n, p, k : n = req[s].node /\ p = req[s].parent /\ k = req[s].pos
  OBVIOUS
<1>2. /\ n \in Id /\ p \in Id \cup {NoParent} /\ k \in Nat
      /\ edges' = MoveNode(nodes, edges, n, p, k) /\ nodes' = nodes
      /\ edges \in SUBSET Edge /\ IInv
      /\ p # NoParent => \E D \in SUBSET Id : Separates(D, edges, n, p)
  BY <1>1 DEF FInv, IInv, TypeOK, PlaceNode, Request, RequestOK, Separated
<1>3. CASE edges' = edges
  BY <1>2, <1>3, SameRowsSameForest
<1>4. CASE edges' # edges
  <2>1. CanMoveNode(nodes, edges, n, p)
    BY <1>2, <1>4 DEF MoveNode
  <2>2. n \in Live(nodes) /\ p \in Live(nodes) \cup {NoParent}
    <3>1. CASE p = NoParent
      <4>1. \E e \in edges : e.to = n
        BY <1>2, <1>4, <2>1, <3>1 DEF MoveNode, DetachEdges
      <4> QED
        BY <1>2, <3>1, <4>1 DEF IInv, EdgesSound
    <3>2. CASE p # NoParent
      BY <2>1, <3>2 DEF CanMoveNode, CanInsertEdge, LinearEdge
    <3> QED
      BY <3>1, <3>2
  <2>3. \A q \in Id : Kids'[q] = (Kids[q] \ {n}) \cup (IF q = p THEN {n} ELSE {})
    BY <1>2, <2>1, MoveNodeKids
  <2>4. p # NoParent => p \in Live(nodes) \ Forest!Below(n)
    <3> SUFFICES ASSUME p # NoParent PROVE p \notin Forest!Below(n)
      BY <2>2
    <3>1. PICK D \in SUBSET Id : n \in D /\ p \notin D /\ Closed(D, Linear(edges))
      BY <1>2 DEF Separates
    <3>2. \A q \in D : Kids[q] \subseteq D
      BY <1>2, <3>1, KidsAreRows DEF Closed
    <3> QED
      BY <3>1, <3>2 DEF Forest!Below
  <2> DEFINE left == [q \in Id |-> Kids[q] \ {n}]
  <2>5. Kids' = left \/ \E q \in Live(nodes) \ Forest!Below(n) :
                          Kids' = [left EXCEPT ![q] = @ \cup {n}]
    <3>1. Kids' = [q \in Id |-> Kids'[q]]
      BY DEF Kids
    <3>2. CASE p = NoParent
      <4>1. \A q \in Id : Kids'[q] = Kids[q] \ {n}
        BY <2>3, <3>2, IdAndNoParent
      <4> QED
        BY <3>1, <4>1
    <3>3. CASE p # NoParent
      <4>1. \A q \in Id : Kids'[q] = IF q = p THEN (Kids[q] \ {n}) \cup {n} ELSE Kids[q] \ {n}
        BY <2>3
      <4>2. Kids' = [left EXCEPT ![p] = @ \cup {n}]
        BY <1>2, <3>1, <4>1
      <4> QED
        BY <2>4, <3>3, <4>2
    <3> QED
      BY <3>2, <3>3
  <2>6. Forest!Orders(Before', Kids')
    <3>1. Forest!Orders(Before, Kids)'
      BY ForestAfter DEF Arranged
    <3> QED
      BY <3>1 DEF Forest!Orders
  <2>7. ASSUME NEW l \in Id \ {n}, NEW m \in Id \ {n}
        PROVE  <<l, m>> \in Before' <=> <<l, m>> \in Before
    <3>1. SameParent(l, m) <=> \E q \in Id : l \in Kids[q] /\ m \in Kids[q]
      BY <1>2, KidsShareParent
    <3>2. SameParent(l, m)' <=> \E q \in Id : l \in Kids'[q] /\ m \in Kids'[q]
      BY ForestAfter DEF Arranged
    <3>3. SameParent(l, m)' <=> SameParent(l, m)
      BY <2>3, <3>1, <3>2
    <3>4. RowsFollow({n})
      <4>1. PICK after : after = edges'
        OBVIOUS
      <4>2. \/ \A e \in Linear(after) : e.to # n => e \in Linear(edges)
            \/ \A e \in Linear(after) :
                 e.to # n => \E g \in Linear(edges) : e = Shifted(g, p, k)
        BY <1>2, <4>1, MoveNodeRows
      <4> QED
        BY <1>2, <4>1, <4>2 DEF RowsFollow
    <3>5. CASE SameParent(l, m)
      BY <1>2, <3>3, <3>4, <3>5, BeforeFollows
    <3>6. CASE ~SameParent(l, m)
      BY <3>3, <3>6 DEF Before
    <3> QED
      BY <3>5, <3>6
  <2>8. Forest!Without(Before', n) = Forest!Without(Before, n)
    <3>1. Before \subseteq Id \X Id /\ Before' \subseteq Id \X Id
      BY DEF Before
    <3>2. ASSUME NEW x
          PROVE  x \in Forest!Without(Before', n) <=> x \in Forest!Without(Before, n)
      BY <2>7, <3>1 DEF Forest!Without
    <3> QED
      BY <3>2
  <2>9. Forest!Place(n)
    BY <1>2, <2>5, <2>6, <2>8 DEF Forest!Place
  <2> QED
    BY <2>2, <2>9
<1> QED
  BY <1>3, <1>4

(* A deletion takes the bullet and its rows, and moves no other.            *)
LEMMA DeleteDeletes ==
  ASSUME IInv, IInv', DeleteNode
  PROVE  \E n \in Live(nodes) : Forest!Delete(n)
<1>1. PICK n \in Live(nodes) : nodes' = DropNode(nodes, n) /\ edges' = CascadeEdges(edges, n)
  BY DEF DeleteNode
<1>2. n \in Id /\ Live(nodes') = Live(nodes) \ {n}
  BY <1>1 DEF IInv, TypeOK, DropNode, Live, Nodes
<1>3. Linear(edges') = {e \in Linear(edges) : e.from # n /\ e.to # n}
  BY <1>1 DEF CascadeEdges, Linear
<1>4. \A q \in Id : Kids'[q] = IF q = n THEN {} ELSE Kids[q] \ {n}
  <2>1. \A q \in Id : Kids[q] = {e.to : e \in {g \in Linear(edges) : g.from = q}}
    BY KidsAreRows
  <2>2. ChildEdges(nodes', edges') = Linear(edges')
    BY DEF IInv, EdgesSound, ChildEdges, Linear
  <2>3. \A q \in Id : Kids'[q] = {e.to : e \in {g \in Linear(edges') : g.from = q}}
    BY <2>2 DEF Kids, Children
  <2>4. ASSUME NEW q \in Id, NEW m
        PROVE  m \in Kids'[q] <=> q # n /\ m # n /\ m \in Kids[q]
    BY <1>3, <2>1, <2>3
  <2> QED
    BY <2>4
<1>5. Kids' = [q \in Id |-> IF q = n THEN {} ELSE Kids[q] \ {n}]
  BY <1>4 DEF Kids
<1>6. ASSUME NEW l \in Id, NEW m \in Id
      PROVE  <<l, m>> \in Before' <=>
               <<l, m>> \in Before /\ l # n /\ m # n /\ ~({l, m} \subseteq Kids[n])
  <2>1. SameParent(l, m) <=> \E q \in Id : l \in Kids[q] /\ m \in Kids[q]
    BY KidsShareParent
  <2>2. SameParent(l, m)' <=> \E q \in Id : l \in Kids'[q] /\ m \in Kids'[q]
    BY ForestAfter DEF Arranged
  <2>3. \A q \in Id : l \in Kids[q] <=> ParentOf(nodes, edges, l) = q
    BY KidsShareParent
  <2>4. SameParent(l, m)' <=> /\ SameParent(l, m) /\ l # n /\ m # n
                              /\ ~({l, m} \subseteq Kids[n])
    BY <1>2, <1>4, <2>1, <2>2, <2>3
  <2>5. RowsFollow({})
    BY <1>3 DEF RowsFollow
  <2>6. CASE SameParent(l, m)'
    BY <2>4, <2>5, <2>6, BeforeFollows
  <2>7. CASE ~SameParent(l, m)'
    BY <2>4, <2>7 DEF Before
  <2> QED
    BY <2>4, <2>6, <2>7
<1>7. Before' = {x \in Forest!Without(Before, n) : ~({x[1], x[2]} \subseteq Kids[n])}
  <2>1. Before \subseteq Id \X Id /\ Before' \subseteq Id \X Id
    BY DEF Before
  <2>2. ASSUME NEW x
        PROVE  x \in Before' <=> /\ x \in Forest!Without(Before, n)
                                 /\ ~({x[1], x[2]} \subseteq Kids[n])
    BY <1>6, <2>1 DEF Forest!Without
  <2> QED
    BY <2>2
<1> QED
  BY <1>2, <1>5, <1>7 DEF Forest!Delete

(* With one request at a time, and deletions at any moment, the outline     *)
(* behaves as an ordered forest: each step of a request or a deletion is a  *)
(* step of OutlineForest, or changes nothing a reader sees (service.go).    *)
THEOREM OneSessionImplements == ASSUME Alone PROVE Spec => ImplementsForest
<1>1. Init => Forest!Init
  <2> SUFFICES ASSUME Init PROVE Forest!Init
    OBVIOUS
  <2>1. ChildEdges(nodes, edges) = {}
    BY DEF Init, ChildEdges, Linear
  <2>2. Kids = [p \in Id |-> {}]
    BY <2>1 DEF Kids, Children
  <2>3. \A m : ParentOf(nodes, edges, m) = NoParent
    BY <2>1, ParentOfType
  <2>4. Before = {}
    BY <2>3 DEF Before, SameParent
  <2> QED
    BY <2>2, <2>4 DEF Forest!Init, Live
<1>2. FInv /\ IInv' /\ [Next]_vars => [Forest!Next]_Forest!vars
  <2> SUFFICES ASSUME FInv, IInv', [Next]_vars
               PROVE  Forest!Next \/ UNCHANGED <<Live(nodes), Kids, Before>>
    BY DEF Forest!vars
  <2>a. IInv
    BY DEF FInv
  <2>b. nodes' = nodes /\ ChildEdges(nodes', edges') = ChildEdges(nodes, edges)
          => UNCHANGED <<Live(nodes), Kids, Before>>
    BY SameRowsSameForest
  <2>1. ASSUME NEW s \in Sessions, CreateNode(s)
        PROVE  Forest!Next
    BY <2>a, <2>1, CreateAdds DEF Forest!Next
  <2>2. ASSUME NEW s \in Sessions, PlaceNode(s)
        PROVE  Forest!Next \/ UNCHANGED <<Live(nodes), Kids, Before>>
    BY <2>2, PlacePlaces DEF Forest!Next
  <2>3. CASE DeleteNode
    BY <2>a, <2>3, DeleteDeletes DEF Forest!Next
  <2>4. ASSUME NEW s \in Sessions, LinkExit(s)
        PROVE  UNCHANGED <<Live(nodes), Kids, Before>>
    <3>1. nodes' = nodes /\ Linear(edges') = Linear(edges)
      BY <2>4 DEF LinkExit, InsertEdge, Linear, ExitEdge
    <3> QED
      BY <2>b, <3>1 DEF ChildEdges
  <2>5. CASE DeleteExit
    <3>1. nodes' = nodes /\ Linear(edges') = Linear(edges)
      BY <2>5 DEF DeleteExit, Linear
    <3> QED
      BY <2>b, <3>1 DEF ChildEdges
  <2>6. CASE UNCHANGED <<nodes, edges>>
    BY <2>b, <2>6
  <2>7. ASSUME NEW s \in Sessions, Ask(s) \/ Step(s) \/ Abort(s)
        PROVE  CreateNode(s) \/ PlaceNode(s) \/ LinkExit(s) \/ UNCHANGED <<nodes, edges>>
    BY <2>7 DEF Ask, Step, Abort, ReadNodes, ReadEdges, CiteChunk, ProbeCycle
  <2> QED
    BY <2>1, <2>2, <2>3, <2>4, <2>5, <2>6, <2>7 DEF Next, vars
<1>3. FInv /\ [Next]_vars => FInv'
  BY ForestKept
<1>4. FInv => IInv
  BY DEF FInv
<1> QED
  BY <1>1, <1>2, <1>3, <1>4, InitForest, PTL DEF Spec, ImplementsForest, Forest!Spec
=============================================================================
