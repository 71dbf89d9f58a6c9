----------------------------- MODULE AtlasGraph -----------------------------
(* The graphs drawn of an atlas build: links between regions, edges between   *)
(* chunks and between transcripts, and the regions a transcript is tagged     *)
(* with (atlas/link.go, atlas/graph.go, atlasGraphJSON).  Nodes are numbers   *)
(* in the order of their ids; a similarity is a whole number, the same both   *)
(* ways.                                                                      *)
EXTENDS Integers, Sequences, FiniteSets, SequencesExt

Pair(a, b) == IF a < b THEN <<a, b>> ELSE <<b, a>>

PairsOf(nodes) == {p \in nodes \X nodes : p[1] < p[2]}

\* The pairs similar enough to be candidates.
Similar(nodes, sim, minWeight) == {p \in PairsOf(nodes) : sim[p] >= minWeight}

Neighbours(pairs, n) == {m \in (UNION {{p[1], p[2]} : p \in pairs}) \ {n} : Pair(n, m) \in pairs}

\* Nearest first, then by id.
Nearer(sim, n, a, b) == \/ sim[Pair(n, a)] > sim[Pair(n, b)]
                        \/ sim[Pair(n, a)] = sim[Pair(n, b)] /\ a < b

Nearest(pairs, sim, n, K) ==
    {m \in Neighbours(pairs, n) :
       Cardinality({o \in Neighbours(pairs, n) : Nearer(sim, n, o, m)}) < K}

\* Mutant: a pair is kept when both ends want it.
MutualPairs(nodes, pairs, sim, K) ==
    {p \in pairs : p[2] \in Nearest(pairs, sim, p[1], K) /\ p[1] \in Nearest(pairs, sim, p[2], K)}

\* A pair is kept when either end wants it.
KeptPairs(nodes, pairs, sim, K) ==
    UNION {{Pair(n, m) : m \in Nearest(pairs, sim, n, K)} : n \in nodes}

\* Strongest first, then by the ids of the ends.
Stronger(sim, p, q) ==
    \/ sim[p] > sim[q]
    \/ /\ sim[p] = sim[q]
       /\ \/ p[1] < q[1]
          \/ p[1] = q[1] /\ p[2] < q[2]

\* The pairs in that order.
ByStrength(sim, pairs) ==
    [i \in 1..Cardinality(pairs) |->
       CHOOSE p \in pairs : Cardinality({q \in pairs : Stronger(sim, q, p)}) = i - 1]

BuildLinks(regions, sim, K, minWeight) ==
    ByStrength(sim, KeptPairs(regions, Similar(regions, sim, minWeight), sim, K))

\* Chunks without a vector are left out.
BuildChunkEdges(present, sim, K, minWeight) == BuildLinks(present, sim, K, minWeight)

\* The strongest chunk edge between two files is the edge between them.
Across(chunkEdges, fileOf) ==
    {e \in Range(chunkEdges) : fileOf[e[1]] # fileOf[e[2]]}

FileWeights(chunkEdges, sim, fileOf) ==
    LET across == Across(chunkEdges, fileOf)
        Files(e) == Pair(fileOf[e[1]], fileOf[e[2]])
        Weights(p) == {sim[e] : e \in {x \in across : Files(x) = p}}
    IN  [p \in {Files(e) : e \in across} |->
           CHOOSE w \in Weights(p) : \A v \in Weights(p) : v <= w]

BuildTranscriptEdges(chunkEdges, sim, fileOf, K) ==
    LET weight == FileWeights(chunkEdges, sim, fileOf)
        files == {fileOf[c] : c \in DOMAIN fileOf}
    IN  ByStrength(weight, KeptPairs(files, DOMAIN weight, weight, K))

\* The regions a file has chunks in, and how many it has in one.
RegionsOf(regionOf, fileOf, file) ==
    {regionOf[c] : c \in {x \in DOMAIN fileOf : fileOf[x] = file}}

Count(regionOf, fileOf, file, r) ==
    Cardinality({c \in DOMAIN fileOf : fileOf[c] = file /\ regionOf[c] = r})

\* The larger share first, then by id.
Ahead(regionOf, fileOf, file, r, s) ==
    LET R == Count(regionOf, fileOf, file, r)
        S == Count(regionOf, fileOf, file, s)
    IN  R > S \/ (R = S /\ r < s)

Place(regionOf, fileOf, file, r) ==
    Cardinality({s \in RegionsOf(regionOf, fileOf, file) : Ahead(regionOf, fileOf, file, s, r)})

Primary(regionOf, fileOf, file) ==
    CHOOSE r \in RegionsOf(regionOf, fileOf, file) : Place(regionOf, fileOf, file, r) = 0

\* TagFiles: the region that holds most of a file's chunks, then those that hold
\* a share of at least minShare and within margin of it (in percent).
TagFiles(regionOf, fileOf, file, minShare, margin, maxExtra) ==
    LET Share(r) == 100 * Count(regionOf, fileOf, file, r)
        total == Cardinality({c \in DOMAIN fileOf : fileOf[c] = file})
        primary == Primary(regionOf, fileOf, file)
    IN  {r \in RegionsOf(regionOf, fileOf, file) :
           \/ r = primary
           \/ /\ Place(regionOf, fileOf, file, r) <= maxExtra
              /\ Share(r) >= minShare * total
              /\ Share(r) >= Share(primary) - margin * total}

(***************************************************************************)
(* What must be true of them                                               *)
(***************************************************************************)
(* A graph leaves no node without a link that is similar enough to another,   *)
(* links every node to its nearest, drops a pair only when both ends have K   *)
(* stronger links, and lists the links strongest first, each once.            *)
LinksSound(nodes, sim, K, minWeight) ==
    LET links == BuildLinks(nodes, sim, K, minWeight)
        Of(n) == {l \in Range(links) : n \in {l[1], l[2]}}
    IN  /\ \A l \in Range(links) : l[1] < l[2] /\ sim[l] >= minWeight
        /\ Cardinality(Range(links)) = Len(links)
        /\ \A i \in 1..(Len(links) - 1) : sim[links[i]] >= sim[links[i + 1]]
        /\ \A p \in Similar(nodes, sim, minWeight) : p \in Range(links) \/
             \A n \in {p[1], p[2]} : Cardinality({l \in Of(n) : sim[l] >= sim[p]}) >= K
        /\ Len(links) <= K * Cardinality(nodes)

(* Two transcripts that a kept chunk edge joins are joined, with the weight   *)
(* of their best pair of passages, unless both have fileK links that are      *)
(* drawn and at least as strong; no other pair across them exceeds it.        *)
TranscriptsSound(nodes, sim, fileOf, K, minWeight, fileK) ==
    LET edges == BuildChunkEdges(nodes, sim, K, minWeight)
        weight == FileWeights(edges, sim, fileOf)
        drawn == BuildTranscriptEdges(edges, sim, fileOf, fileK)
    IN  /\ \A e \in Range(edges) : fileOf[e[1]] # fileOf[e[2]] =>
             LET f == Pair(fileOf[e[1]], fileOf[e[2]])
             IN  sim[e] <= weight[f] /\
                 (f \in Range(drawn) \/ \A n \in {f[1], f[2]} :
                    Cardinality({d \in Range(drawn) : n \in {d[1], d[2]} /\ weight[d] >= weight[f]})
                      >= fileK)
        /\ \A p \in Similar(nodes, sim, minWeight) :
             (fileOf[p[1]] # fileOf[p[2]] /\ K >= Cardinality(nodes) - 1)
                => sim[p] <= weight[Pair(fileOf[p[1]], fileOf[p[2]])]

(* A transcript is tagged with the region of most of its chunks, so that each *)
(* has a colour, with at most maxExtra more, and with no region that holds    *)
(* fewer of its chunks than one it is not tagged with.                        *)
TagsSound(regionOf, fileOf, minShare, margin, maxExtra) ==
    \A file \in {fileOf[c] : c \in DOMAIN fileOf} :
        LET tags == TagFiles(regionOf, fileOf, file, minShare, margin, maxExtra)
        IN  /\ Cardinality(tags) \in 1..(maxExtra + 1)
            /\ \A t \in tags, r \in RegionsOf(regionOf, fileOf, file) \ tags :
                 Count(regionOf, fileOf, file, t) >= Count(regionOf, fileOf, file, r)

=============================================================================
