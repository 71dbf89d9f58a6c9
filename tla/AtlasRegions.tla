---------------------------- MODULE AtlasRegions ----------------------------
(* ClusterChunks of atlas/cluster.go: the embedded chunks are split into      *)
(* regions until none is too large, then the regions that are too small are   *)
(* merged.  The clusters are a set of sets of chunks: the order they have in  *)
(* the code decides nothing, for ties are broken by their smallest chunk id.  *)
(* Which way bisect cuts a cluster, and which cluster is nearest, depend on   *)
(* the vectors: here any cut, and any neighbour, may come out.                *)
EXTENDS Integers, FiniteSets

CONSTANTS
    Chunk,          \* the chunks that have a vector; ids are numbers
    MaxRegionSize,  \* split a cluster that is larger
    MinRegionSize,  \* merge a cluster that is smaller
    MaxRegions      \* split no further at this many

ASSUME RegionsAssumption ==
    /\ IsFiniteSet(Chunk) /\ Chunk # {} /\ Chunk \subseteq Int
    /\ {MaxRegionSize, MinRegionSize, MaxRegions} \subseteq Int

VARIABLES
    clusters,      \* the clusters so far
    unsplittable,  \* those that bisect returned whole
    phase          \* "split", "merge" or "done"

regionVars == <<clusters, unsplittable, phase>>

minID(c) == CHOOSE i \in c : \A j \in c : i <= j

\* Of two clusters the one to take first: larger (or smaller), then by id.
Larger(c, d) == \/ Cardinality(c) > Cardinality(d)
                \/ Cardinality(c) = Cardinality(d) /\ minID(c) < minID(d)

Smaller(c, d) == \/ Cardinality(c) < Cardinality(d)
                 \/ Cardinality(c) = Cardinality(d) /\ minID(c) < minID(d)

Init == /\ clusters = {Chunk}
        /\ unsplittable = {}
        /\ phase = "split"

TooLarge == {c \in clusters : Cardinality(c) > MaxRegionSize /\ c \notin unsplittable}

Targets == IF Cardinality(clusters) < MaxRegions
           THEN {c \in TooLarge : \A d \in TooLarge : c = d \/ Larger(c, d)} ELSE {}

\* bisect found two parts: each chunk is in one of them.
Split(c, left) ==
    /\ clusters' = (clusters \ {c}) \union {left, c \ left}
    /\ UNCHANGED <<unsplittable, phase>>

\* bisect left one side empty: the cluster is not tried again.
GiveUp(c) ==
    /\ unsplittable' = unsplittable \union {c}
    /\ UNCHANGED <<clusters, phase>>

Bisect ==
    /\ phase = "split"
    /\ \E c \in Targets :
         \/ \E left \in SUBSET c : left \notin {{}, c} /\ Split(c, left)
         \/ GiveUp(c)

SplitsDone ==
    /\ phase = "split" /\ Targets = {}
    /\ phase' = "merge"
    /\ UNCHANGED <<clusters, unsplittable>>

TooSmall == {c \in clusters : Cardinality(c) < MinRegionSize}

Smallest == {c \in TooSmall : \A d \in TooSmall : c = d \/ Smaller(c, d)}

\* Mutant: the small cluster goes before its chunks are taken over.
DropSmallest ==
    /\ phase = "merge" /\ Cardinality(clusters) > 1
    /\ \E c \in Smallest : clusters' = clusters \ {c}
    /\ UNCHANGED <<unsplittable, phase>>

\* The smallest cluster joins the one whose centroid is nearest.
Merge ==
    /\ phase = "merge" /\ Cardinality(clusters) > 1
    /\ \E c \in Smallest, best \in clusters :
         /\ best # c
         /\ clusters' = (clusters \ {c, best}) \union {c \union best}
    /\ UNCHANGED <<unsplittable, phase>>

MergesDone ==
    /\ phase = "merge" /\ (Cardinality(clusters) <= 1 \/ TooSmall = {})
    /\ phase' = "done"
    /\ UNCHANGED <<clusters, unsplittable>>

Next == Bisect \/ SplitsDone \/ Merge \/ MergesDone

RegionsSpec == Init /\ [][Next]_regionVars

(* Every chunk is in exactly one cluster, at every step, and no cluster is    *)
(* empty: no step of splitting and merging loses or duplicates a chunk.       *)
Partition ==
    /\ UNION clusters = Chunk
    /\ \A c, d \in clusters : c # d => c \intersect d = {}
    /\ {} \notin clusters

(* At the end no region is too small unless it is the only one, merging never *)
(* runs out of clusters, and no more than MaxRegions are ever made.           *)
SizesRight ==
    /\ phase = "done" =>
         (Cardinality(clusters) = 1 \/ \A c \in clusters : Cardinality(c) >= MinRegionSize)
    /\ Cardinality(clusters) <= MaxRegions \/ Cardinality(clusters) = 1

=============================================================================
