---------------------------- MODULE ReadingOrder ----------------------------
(* How a document becomes a manuscript: the order in which its nodes are      *)
(* read, the texts collected along it, the glue between them and the links    *)
(* of the exported file.  Every operator is a function of one document        *)
(*   [nodes, edges, evidence, body, thread]                                   *)
(* whose nodes and edges are sequences in creation order (ListNodes and       *)
(* ListEdges), whose evidence maps a node to the excerpts it cites in order,  *)
(* and whose body tells which nodes have a body text.                         *)
EXTENDS Subsequences, SequencesExt

Failed == <<0>>

Glue == [type |-> "glue"]

NodeIDs(d) == Range(d.nodes)

\* ListEdgesFrom: by weight; a document's edges are listed in weight order.
EdgesFrom(d, id) == {i \in DOMAIN d.edges : d.edges[i].from = id}

ListEdgesFrom(d, id) == Picked(d.edges, EdgesFrom(d, id))

(***************************************************************************)
(* dag/condition.go: an edge may carry a condition on the reader.          *)
(***************************************************************************)
\* A label the reader lacks reads as the empty one.
LabelOf(reader, key) == IF key \in DOMAIN reader.labels THEN reader.labels[key] ELSE ""

EvalCondition(cond, read, reader) ==
    CASE cond[1] = "has_read"  -> cond[2] \in read
      [] cond[1] = "!has_read" -> cond[2] \notin read
      [] cond[1] = "audience==" -> cond[2] = reader.audience
      [] cond[1] = "audience!=" -> cond[2] # reader.audience
      [] cond[1] = "label." -> cond[3] = LabelOf(reader, cond[2])
      [] OTHER -> TRUE

\* ConditionalWalk: depth first, every node once, an edge taken when its
\* condition holds for what has been read on the way to it.  The calls that are
\* open are the edges they have still to look at, the last call's first.
WalkStep(d, reader, state) ==
    LET e == Head(state.pending)
    IN  IF state.pending = <<>> THEN state
        ELSE IF e.to \notin Range(state.read) /\ EvalCondition(e.cond, Range(state.read), reader)
        THEN [read |-> Append(state.read, e.to),
              pending |-> ListEdgesFrom(d, e.to) \o Tail(state.pending)]
        ELSE [state EXCEPT !.pending = Tail(@)]

\* Where a walk starts nobody comes from and nothing is asked.
Entry(id) == [to |-> id, cond |-> <<"">>]

\* Every start and every edge is looked at once at most.
ConditionalWalk(d, reader, starts) ==
    LET all == Len(starts) + Len(d.edges)
        walk[k \in 0..all] ==
            IF k = 0 THEN [read |-> <<>>, pending |-> [i \in DOMAIN starts |-> Entry(starts[i])]]
            ELSE WalkStep(d, reader, walk[k - 1])
    IN  walk[all].read

(***************************************************************************)
(* dag/traverse.go and dag/validate.go                                     *)
(***************************************************************************)
InDegree(d) == [n \in NodeIDs(d) |-> Cardinality({i \in DOMAIN d.edges : d.edges[i].to = n})]

\* Mutant: a child is released by the first of its parents.
ReleasesAtOnce(d, degree, out, i) == TRUE

\* One edge at a time out of a node just sorted: a child joins the queue when
\* the last edge into it is gone.
Releases(d, degree, out, i) ==
    degree[d.edges[i].to] = Cardinality({j \in out : j <= i /\ d.edges[j].to = d.edges[i].to})

Take(d, state) ==
    LET id == Head(state.queue)
        out == EdgesFrom(d, id)
        released == Picked(d.edges, {i \in out : Releases(d, state.degree, out, i)})
    IN  IF state.queue = <<>> THEN state
        ELSE [sorted |-> Append(state.sorted, id),
              degree |-> [n \in NodeIDs(d) |->
                            state.degree[n] - Cardinality({i \in out : d.edges[i].to = n})],
              queue |-> Tail(state.queue) \o [k \in DOMAIN released |-> released[k].to]]

FindRoots(d) ==
    Picked(d.nodes, {k \in DOMAIN d.nodes : \A i \in DOMAIN d.edges : d.edges[i].to # d.nodes[k]})

\* The queue gets no more than an entry for each node and each edge.
Kahn(d) ==
    LET all == Len(d.nodes) + Len(d.edges)
        degree == InDegree(d)
        run[k \in 0..all] ==
            IF k = 0 THEN [queue |-> Picked(d.nodes, {i \in DOMAIN d.nodes : degree[d.nodes[i]] = 0}),
                           sorted |-> <<>>, degree |-> degree]
            ELSE Take(d, run[k - 1])
    IN  run[all]

TopologicalSort(d) == LET end == Kahn(d) IN IF Len(end.sorted) = Len(d.nodes) THEN end.sorted ELSE Failed

\* dfsReaches keeps the set of visited nodes between the branches of the search.
\* The calls that are open are the nodes they have still to look at.
SearchStep(d, target, state) ==
    LET at == Head(state.pending)
        next == ListEdgesFrom(d, at)
    IN  IF state.found \/ state.pending = <<>> THEN state
        ELSE IF at = target THEN [state EXCEPT !.found = TRUE]
        ELSE IF at \in state.visited THEN [state EXCEPT !.pending = Tail(@)]
        ELSE [found |-> FALSE, visited |-> state.visited \union {at},
              pending |-> [k \in DOMAIN next |-> next[k].to] \o Tail(state.pending)]

\* The first node and the end of every edge are looked at once at most.
dfsReaches(d, current, target) ==
    LET all == 1 + Len(d.edges)
        search[k \in 0..all] ==
            IF k = 0 THEN [found |-> FALSE, visited |-> {}, pending |-> <<current>>]
            ELSE SearchStep(d, target, search[k - 1])
    IN  search[all].found

WouldCreateCycle(d, from, to) == dfsReaches(d, to, from)

ValidateGraph(d) ==
    LET Ends(e) == {e.from, e.to}
        With(kind, Bad(_)) == {<<kind, i>> : i \in {j \in DOMAIN d.edges : Bad(d.edges[j])}}
    IN  With("self_link", LAMBDA e : e.from = e.to)
        \union With("dangling_edge", LAMBDA e : ~(Ends(e) \subseteq NodeIDs(d)))
        \union {<<"orphan_thread_ref", i>> : i \in {j \in DOMAIN d.thread : d.thread[j] \notin NodeIDs(d)}}
        \union (IF TopologicalSort(d) = Failed THEN {<<"cycle", 0>>} ELSE {})

(***************************************************************************)
(* dag/linearize.go, stitch: the texts of the manuscript                   *)
(***************************************************************************)
\* A thread lists nodes in its own order; without one, all nodes are sorted.
Linearize(d, mode) == IF mode = "thread" THEN d.thread ELSE TopologicalSort(d)

BodyOf(n) == [node |-> n]

SpanKey(item) == IF "node" \in DOMAIN item THEN <<item.node>>
                 ELSE <<item.chunk, item.start, item.end>>

\* What one node offers: its excerpts, or its body when it cites nothing.
Offered(d, n) ==
    IF d.evidence[n] # <<>> THEN d.evidence[n]
    ELSE IF d.body[n] THEN <<BodyOf(n)>> ELSE <<>>

Collect(chunks, item) ==
    IF \E i \in DOMAIN chunks : SpanKey(chunks[i]) = SpanKey(item) THEN chunks
    ELSE Append(chunks, item)

CollectFrom(d, chunks, n) == FoldLeft(Collect, chunks, Offered(d, n))

collectChunks(d, order) == FoldLeft(LAMBDA acc, n : CollectFrom(d, acc, n), <<>>, order)

\* StubStitcher puts the same glue between any two chunks, whatever the level.
Stitch(chunks) ==
    FoldLeft(LAMBDA spans, i : spans
                 \o (IF i > 1 THEN <<Glue>> ELSE <<>>)
                 \o <<[type |-> "chunk", index |-> i, item |-> chunks[i]]>>,
             <<>>, [i \in DOMAIN chunks |-> i])

LinearizeAndStitch(d, mode) ==
    LET order == Linearize(d, mode)
    IN  IF order = Failed THEN Failed ELSE Stitch(collectChunks(d, order))

(***************************************************************************)
(* export/markdown.go: an anchor for every node of the result, and a link  *)
(* for every branch or jump out of one of them.                            *)
(***************************************************************************)
Anchors(order) == Range(order)

Links(d, order) ==
    {i \in DOMAIN d.edges : /\ d.edges[i].type \in {"branch", "jump"}
                            /\ d.edges[i].from \in Range(order)}

Broken(d, order) == {i \in Links(d, order) : d.edges[i].to \notin Anchors(order)}

\* The exits pane of a node: its links, and the nodes it could still link to.
NodeExits(d, id) ==
    [exits |-> Picked(d.edges, {i \in EdgesFrom(d, id) : d.edges[i].type # "linear"}),
     options |-> NodeIDs(d) \ ({id} \union {d.edges[i].to : i \in EdgesFrom(d, id)})]

(***************************************************************************)
(* What must be true of them                                               *)
(***************************************************************************)
Pairs(d) == {<<d.edges[i].from, d.edges[i].to>> : i \in DOMAIN d.edges}

\* Whatever holds from along the edges holds to.
Reaches(d, from, to) ==
    \A S \in SUBSET NodeIDs(d) : (from \in S /\ \A p \in Pairs(d) : p[1] \in S => p[2] \in S) => to \in S

Acyclic(d) == \A p \in Pairs(d) : ~Reaches(d, p[2], p[1])

Connect(d, from, to) ==
    [d EXCEPT !.edges = Append(@, [from |-> from, to |-> to, type |-> "branch",
                                   cond |-> <<"">>])]

(* The sort fails on exactly the cyclic documents, and otherwise lists every  *)
(* node once with every edge pointing forward.                                *)
SortSound(d) ==
    LET order == TopologicalSort(d)
    IN  IF Acyclic(d)
        THEN /\ Len(order) = Len(d.nodes) /\ Range(order) = NodeIDs(d)
             /\ \A i, j \in DOMAIN order : <<order[j], order[i]>> \in Pairs(d) => j < i
             /\ d.nodes # <<>> => FindRoots(d)[1] = order[1]
        ELSE order = Failed

(* The check made before an exit is stored refuses exactly the edges that     *)
(* would take the manuscript its order.                                       *)
CycleCheckSound(d) ==
    Acyclic(d) =>
        /\ ValidateGraph(d) = {}
        /\ \A from, to \in NodeIDs(d) :
             WouldCreateCycle(d, from, to) <=> TopologicalSort(Connect(d, from, to)) = Failed

(* A walk visits no node twice, enters each node by an edge whose condition   *)
(* held for what had been read by then, unless it starts there, and leaves    *)
(* none out whose condition held ever since the edge was passed.              *)
WalkSound(d, reader, starts) ==
    LET path == ConditionalWalk(d, reader, starts)
        ReadBy(i) == Range(SubSeq(path, 1, i))
    IN  /\ starts # <<>> => path[1] = starts[1]
        /\ IsInjective(path) /\ Range(starts) \subseteq Range(path)
        /\ \A i \in DOMAIN path : \/ path[i] \in Range(starts)
             \/ \E j \in 1..(i - 1), e \in Range(d.edges) :
                  /\ e.from = path[j] /\ e.to = path[i]
                  /\ EvalCondition(e.cond, ReadBy(i - 1), reader)
        /\ \A i \in DOMAIN path, e \in Range(d.edges) :
             (e.from = path[i] /\ e.to \notin Range(path))
                => \E k \in i..Len(path) : ~EvalCondition(e.cond, ReadBy(k), reader)

(* The manuscript quotes every span cited along its order exactly once, where *)
(* it first occurs, prints the body of every node that cites nothing, and     *)
(* sets glue between any two texts and nowhere else.                          *)
ManuscriptSound(d, mode) ==
    LET order == Linearize(d, mode)
        spans == LinearizeAndStitch(d, mode)
        texts == {i \in DOMAIN spans : spans[i].type = "chunk"}
        Key(i) == SpanKey(spans[i].item)
        FirstUse(k) == CHOOSE n \in DOMAIN order :
                         /\ \E it \in Range(Offered(d, order[n])) : SpanKey(it) = k
                         /\ \A m \in 1..(n - 1) :
                              \A it \in Range(Offered(d, order[m])) : SpanKey(it) # k
    IN  order # Failed =>
        /\ {Key(i) : i \in texts}
             = UNION {{SpanKey(it) : it \in Range(Offered(d, n))} : n \in Range(order)}
        /\ \A i, j \in texts : i < j =>
             Key(i) # Key(j) /\ FirstUse(Key(i)) <= FirstUse(Key(j))
        /\ \A i \in DOMAIN spans : (spans[i] = Glue) <=> (i % 2 = 0)
        /\ spans # <<>> => Last(spans) # Glue
        /\ mode = "manuscript" => Broken(d, order) = {}

(* The exits pane offers a node only what it does not link to yet.            *)
PaneSound(d) ==
    \A n \in NodeIDs(d) : LET pane == NodeExits(d, n)
        IN  /\ n \notin pane.options
            /\ \A i \in DOMAIN pane.exits : pane.exits[i].to \notin pane.options

=============================================================================
