-------------------------- MODULE AlgorithmsProofs --------------------------
(* Algorithms that go step by step.  Splitting and merging the regions of the *)
(* atlas loses no chunk, for any corpus, any sizes and any vectors: Partition *)
(* is inductive as it stands.  For SizesRight one counts: Counted bounds the  *)
(* regions at each phase, and what is left when merging ends.  Splitting a    *)
(* home of the former layout loses nothing, whatever fails: HomeSound needs   *)
(* HomeInv below.  Then algorithms answered in a single step, each first for  *)
(* any input: links and tags of the atlas, the cycle check, the sort, the     *)
(* walk and the manuscript, ghosts of a diff, the index, fusion, pages,       *)
(* snippets and the evidence pane that stays put.  A loop over data is a      *)
(* function of how far it has run, and what it keeps is shown by the least    *)
(* place where it would fail.                                                 *)
EXTENDS MCAlgorithms, FiniteSetTheorems, WellFoundedInduction, TLAPS

\* The sets of P share no element, none is empty, and together they are U.
Partitions(P, U) ==
    /\ UNION P = U
    /\ \A c, d \in P : c # d => c \intersect d = {}
    /\ {} \notin P

(* One set cut in two: still a partition (cluster.go bisect). *)
LEMMA CutPartition ==
  ASSUME NEW P, NEW U, Partitions(P, U), NEW c \in P, NEW left \in SUBSET c,
         left \notin {{}, c}
  PROVE  Partitions((P \ {c}) \union {left, c \ left}, U)
<1> DEFINE Q == (P \ {c}) \union {left, c \ left}
<1>1. UNION Q = U
  <2>1. ASSUME NEW x \in U PROVE x \in UNION Q
    <3>1. PICK d \in P : x \in d
      BY DEF Partitions
    <3>2. CASE d = c
      <4>1. x \in left \/ x \in c \ left
        BY <3>1, <3>2
      <4> QED BY <4>1
    <3>3. CASE d # c
      <4>1. d \in Q
        BY <3>3
      <4> HIDE DEF Q
      <4> QED BY <3>1, <4>1
    <3> QED BY <3>2, <3>3
  <2>2. ASSUME NEW x \in UNION Q PROVE x \in U
    <3>1. PICK d \in Q : x \in d
      OBVIOUS
    <3>2. x \in UNION P
      BY <3>1
    <3> QED BY <3>2 DEF Partitions
  <2> QED BY <2>1, <2>2
<1>2. ASSUME NEW d \in Q, NEW e \in Q, d # e PROVE d \intersect e = {}
  <2>1. \A f \in P \ {c} : f \intersect c = {}
    BY DEF Partitions
  <2>2. CASE d \in P \ {c} /\ e \in P \ {c}
    BY <1>2, <2>2 DEF Partitions
  <2>3. CASE d \in P \ {c} /\ e \notin P \ {c}
    BY <2>1, <2>3
  <2>4. CASE d \notin P \ {c} /\ e \in P \ {c}
    BY <2>1, <2>4
  <2>5. CASE d \notin P \ {c} /\ e \notin P \ {c}
    BY <1>2, <2>5
  <2> QED BY <2>2, <2>3, <2>4, <2>5
<1>3. {} \notin Q
  BY DEF Partitions
<1> QED BY <1>1, <1>2, <1>3 DEF Partitions

(* Two sets made one: still a partition (cluster.go mergeUndersized). *)
LEMMA JoinPartition ==
  ASSUME NEW P, NEW U, Partitions(P, U), NEW c \in P, NEW d \in P
  PROVE  Partitions((P \ {c, d}) \union {c \union d}, U)
<1> DEFINE Q == (P \ {c, d}) \union {c \union d}
<1>1. UNION Q = U
  <2>1. ASSUME NEW x \in U PROVE x \in UNION Q
    <3>1. PICK e \in P : x \in e
      BY DEF Partitions
    <3>2. CASE e \in {c, d}
      <4>1. x \in c \union d /\ c \union d \in Q
        BY <3>1, <3>2
      <4> HIDE DEF Q
      <4> QED BY <4>1
    <3>3. CASE e \notin {c, d}
      <4>1. e \in Q
        BY <3>3
      <4> HIDE DEF Q
      <4> QED BY <3>1, <4>1
    <3> QED BY <3>2, <3>3
  <2>2. ASSUME NEW x \in UNION Q PROVE x \in U
    <3>1. PICK e \in Q : x \in e
      OBVIOUS
    <3>2. x \in UNION P
      BY <3>1
    <3> QED BY <3>2 DEF Partitions
  <2> QED BY <2>1, <2>2
<1>2. ASSUME NEW e \in Q, NEW f \in Q, e # f PROVE e \intersect f = {}
  <2>1. \A g \in P \ {c, d} : g \intersect (c \union d) = {}
    BY DEF Partitions
  <2>2. CASE e \in P \ {c, d} /\ f \in P \ {c, d}
    BY <1>2, <2>2 DEF Partitions
  <2>3. CASE ~ (e \in P \ {c, d} /\ f \in P \ {c, d})
    BY <1>2, <2>1, <2>3
  <2> QED BY <2>2, <2>3
<1>3. {} \notin Q
  BY DEF Partitions
<1> QED BY <1>1, <1>2, <1>3 DEF Partitions

(* Every chunk is in one region, through all of clustering, whatever the *)
(* vectors are and however small or large the parameters (cluster.go). *)
THEOREM ChunksKept == RegionsSpec => []Partition
<1>0. Partition <=> Partitions(clusters, Chunk)
  BY DEF Partition, Partitions
<1>1. Init => Partition
  BY RegionsAssumption DEF Init, Partition
<1>2. Partition /\ [Next]_regionVars => Partition'
  <2> SUFFICES ASSUME Partition, [Next]_regionVars PROVE Partition'
    OBVIOUS
  <2>0. Partition' <=> Partitions(clusters', Chunk)
    BY DEF Partition, Partitions
  <2>1. CASE Bisect
    <3>1. PICK c \in Targets :
             \/ \E left \in SUBSET c : left \notin {{}, c} /\ Split(c, left)
             \/ GiveUp(c)
      BY <2>1 DEF Bisect
    <3>2. c \in clusters
      BY DEF Targets, TooLarge
    <3>3. CASE \E left \in SUBSET c : left \notin {{}, c} /\ Split(c, left)
      BY <1>0, <2>0, <3>2, <3>3, CutPartition DEF Split
    <3>4. CASE GiveUp(c)
      BY <3>4 DEF GiveUp, Partition
    <3> QED BY <3>1, <3>3, <3>4
  <2>2. CASE SplitsDone
    BY <2>2 DEF SplitsDone, Partition
  <2>3. CASE Merge
    <3>1. PICK c \in Smallest, best \in clusters :
             clusters' = (clusters \ {c, best}) \union {c \union best}
      BY <2>3 DEF Merge
    <3>2. c \in clusters
      BY DEF Smallest, TooSmall
    <3> QED BY <1>0, <2>0, <3>1, <3>2, JoinPartition
  <2>4. CASE MergesDone
    BY <2>4 DEF MergesDone, Partition
  <2>5. CASE UNCHANGED regionVars
    BY <2>5 DEF regionVars, Partition
  <2> QED BY <2>1, <2>2, <2>3, <2>4, <2>5 DEF Next
<1> QED BY <1>1, <1>2, PTL DEF RegionsSpec

-----------------------------------------------------------------------------
(* The clusters there are, and how many there may be. *)
Counted ==
    /\ Partition /\ IsFiniteSet(clusters)
    /\ Cardinality(clusters) <= MaxRegions \/ Cardinality(clusters) = 1
    /\ phase = "done" =>
         (Cardinality(clusters) = 1 \/ \A c \in clusters : Cardinality(c) >= MinRegionSize)

(* A finite set with one element more. *)
LEMMA OneMore ==
  ASSUME NEW S, IsFiniteSet(S), NEW x
  PROVE  /\ IsFiniteSet(S \union {x}) /\ Cardinality(S) \in Nat
         /\ Cardinality(S \union {x}) \in Nat
         /\ Cardinality(S \union {x}) <= Cardinality(S) + 1
<1>1. /\ IsFiniteSet(S \union {x})
      /\ Cardinality(S \union {x}) = IF x \in S THEN Cardinality(S) ELSE Cardinality(S) + 1
  BY FS_AddElement
<1>2. Cardinality(S) \in Nat
  BY FS_CardinalityType
<1> QED BY <1>1, <1>2

(* A finite set with one element less. *)
LEMMA OneLess ==
  ASSUME NEW S, IsFiniteSet(S), NEW x \in S
  PROVE  /\ IsFiniteSet(S \ {x}) /\ Cardinality(S) \in Nat
         /\ Cardinality(S \ {x}) \in Nat
         /\ Cardinality(S \ {x}) = Cardinality(S) - 1
<1>1. IsFiniteSet(S \ {x}) /\ Cardinality(S \ {x}) = Cardinality(S) - 1
  BY FS_RemoveElement
<1>2. Cardinality(S) \in Nat /\ Cardinality(S \ {x}) \in Nat
  BY <1>1, FS_CardinalityType
<1> QED BY <1>1, <1>2

(* A cut makes one more cluster, if there was room for one more. *)
LEMMA SplitCounted ==
  ASSUME Counted, NEW c \in clusters, NEW left \in SUBSET c,
         Split(c, left), Cardinality(clusters) < MaxRegions
  PROVE  IsFiniteSet(clusters') /\ Cardinality(clusters') <= MaxRegions
<1>1. PICK all : all = clusters
  OBVIOUS
<1>2. PICK rest : rest = all \ {c}
  OBVIOUS
<1>3. PICK more : more = rest \union {left}
  OBVIOUS
<1>4. PICK after : after = more \union {c \ left}
  OBVIOUS
<1>5. IsFiniteSet(all) /\ c \in all
  BY <1>1 DEF Counted
<1>6. /\ IsFiniteSet(rest) /\ Cardinality(all) \in Nat /\ Cardinality(rest) \in Nat
      /\ Cardinality(rest) = Cardinality(all) - 1
  BY <1>2, <1>5, OneLess
<1>7. /\ IsFiniteSet(more) /\ Cardinality(more) \in Nat
      /\ Cardinality(more) <= Cardinality(rest) + 1
  BY <1>3, <1>6, OneMore
<1>8. /\ IsFiniteSet(after) /\ Cardinality(after) \in Nat
      /\ Cardinality(after) <= Cardinality(more) + 1
  BY <1>4, <1>7, OneMore
<1>9. clusters' = after
  BY <1>1, <1>2, <1>3, <1>4 DEF Split
<1> QED BY <1>1, <1>6, <1>7, <1>8, <1>9, RegionsAssumption

(* A merge makes one less. *)
LEMMA MergeCounted ==
  ASSUME Counted, NEW c \in clusters, NEW best \in clusters, best # c,
         clusters' = (clusters \ {c, best}) \union {c \union best}
  PROVE  IsFiniteSet(clusters') /\ Cardinality(clusters') < Cardinality(clusters)
<1>1. PICK all : all = clusters
  OBVIOUS
<1>2. PICK rest : rest = all \ {c}
  OBVIOUS
<1>3. PICK fewer : fewer = rest \ {best}
  OBVIOUS
<1>4. PICK after : after = fewer \union {c \union best}
  OBVIOUS
<1>5. IsFiniteSet(all) /\ c \in all /\ best \in rest
  BY <1>1, <1>2 DEF Counted
<1>6. /\ IsFiniteSet(rest) /\ Cardinality(all) \in Nat /\ Cardinality(rest) \in Nat
      /\ Cardinality(rest) = Cardinality(all) - 1
  BY <1>2, <1>5, OneLess
<1>7. /\ IsFiniteSet(fewer) /\ Cardinality(fewer) \in Nat
      /\ Cardinality(fewer) = Cardinality(rest) - 1
  BY <1>3, <1>5, <1>6, OneLess
<1>8. /\ IsFiniteSet(after) /\ Cardinality(after) \in Nat
      /\ Cardinality(after) <= Cardinality(fewer) + 1
  BY <1>4, <1>7, OneMore
<1>9. clusters' = after
  BY <1>1, <1>2, <1>3, <1>4
<1>10. Cardinality(after) < Cardinality(all)
  BY <1>6, <1>7, <1>8
<1> QED BY <1>1, <1>8, <1>9, <1>10

(* However the vectors cut and join, clustering makes no more than MaxRegions *)
(* regions and leaves none too small, unless it is the only one (cluster.go). *)
THEOREM SizesStayRight == RegionsSpec => []SizesRight
<1>1. Init => Counted
  <2> SUFFICES ASSUME Init PROVE Counted
    OBVIOUS
  <2>1. IsFiniteSet(clusters) /\ Cardinality(clusters) = 1
    BY FS_Singleton DEF Init
  <2>2. Partition
    BY RegionsAssumption DEF Init, Partition
  <2> QED BY <2>1, <2>2 DEF Counted, Init
<1>2. Counted /\ Partition' /\ [Next]_regionVars => Counted'
  <2> SUFFICES ASSUME Counted, Partition', [Next]_regionVars
               PROVE  Counted'
    OBVIOUS
  <2>1. CASE Bisect
    <3>1. PICK c \in Targets : \/ \E left \in SUBSET c : left \notin {{}, c} /\ Split(c, left)
                               \/ GiveUp(c)
      BY <2>1 DEF Bisect
    <3>2. phase = "split" /\ phase' = "split"
      BY <2>1, <3>1 DEF Bisect, Split, GiveUp
    <3>3. CASE GiveUp(c)
      BY <3>2, <3>3 DEF GiveUp, Counted
    <3>4. CASE \E left \in SUBSET c : left \notin {{}, c} /\ Split(c, left)
      <4>1. c \in clusters /\ Cardinality(clusters) < MaxRegions
        BY <3>1 DEF Targets, TooLarge
      <4>2. IsFiniteSet(clusters') /\ Cardinality(clusters') <= MaxRegions
        BY <3>2, <3>4, <4>1, SplitCounted
      <4> QED BY <3>2, <4>2 DEF Counted
    <3> QED BY <3>1, <3>3, <3>4
  <2>2. CASE SplitsDone
    BY <2>2 DEF SplitsDone, Counted
  <2>3. CASE Merge
    <3>1. PICK c \in Smallest, best \in clusters :
            /\ best # c /\ phase = "merge" /\ phase' = phase
            /\ clusters' = (clusters \ {c, best}) \union {c \union best}
      BY <2>3 DEF Merge
    <3>2. c \in clusters
      BY DEF Smallest, TooSmall
    <3>3. IsFiniteSet(clusters') /\ Cardinality(clusters') < Cardinality(clusters)
      BY <3>1, <3>2, MergeCounted
    <3>4. Cardinality(clusters') \in Nat /\ Cardinality(clusters) \in Nat /\ clusters' # {}
      BY <3>1, <3>3, FS_CardinalityType DEF Counted
    <3>5. Cardinality(clusters') # 0
      BY <3>3, <3>4, FS_EmptySet
    <3> QED BY <3>1, <3>3, <3>4, <3>5, RegionsAssumption DEF Counted
  <2>4. CASE MergesDone
    <3>1. clusters' = clusters
      BY <2>4 DEF MergesDone
    <3>2. Cardinality(clusters) \in Nat /\ clusters # {}
      BY FS_CardinalityType, RegionsAssumption DEF Counted, Partition
    <3>3. Cardinality(clusters) # 0
      BY <3>2, FS_EmptySet DEF Counted
    <3>4. \A c \in clusters : Cardinality(c) \in Nat
      <4>1. \A c \in clusters : c \subseteq Chunk
        BY DEF Counted, Partition
      <4> QED BY <4>1, FS_Subset, FS_CardinalityType, RegionsAssumption
    <3>5. Cardinality(clusters) = 1 \/ \A c \in clusters : Cardinality(c) >= MinRegionSize
      BY <2>4, <3>2, <3>3, <3>4, RegionsAssumption DEF MergesDone, TooSmall
    <3> QED BY <3>1, <3>5 DEF Counted
  <2>5. CASE UNCHANGED regionVars
    BY <2>5 DEF regionVars, Counted
  <2> QED BY <2>1, <2>2, <2>3, <2>4, <2>5 DEF Next
<1>3. Counted => SizesRight
  BY DEF Counted, SizesRight
<1> QED BY <1>1, <1>2, <1>3, ChunksKept, PTL DEF RegionsSpec

-----------------------------------------------------------------------------
(* Homes.  HomeSound is not inductive: that the migration overwrites nothing *)
(* comes from what it has and has not moved at each of its steps, and from *)
(* its not being run where there is anything in the present layout. *)

Holding == Former \union {"new text", "new chunks", "new uploads", "damaged"}

StepNames == {"dirs", "copy_corpus", "drop_document", "copy_project", "drop_corpus", "unlink",
              "index", "uploads", "mirror", "branches", "bind", "retire"}

Layout ==
    /\ old \in [Name -> [at : {"none", "dir", "retired"}, holds : SUBSET Former]]
    /\ proj \in [Name -> [dir : BOOLEAN, holds : SUBSET Holding, bound : Name \union {Nothing}]]
    /\ corp \in [Name -> [dir : BOOLEAN, holds : SUBSET Holding, bound : Name \union {Nothing}]]
    /\ migration \in [at : StepNames \union {"idle"}, name : Name \union {Nothing},
                      todo : SUBSET Name]
    /\ server \in [at : {"down", "bind", "current", "serving"}, name : Name \union {Nothing},
                   corpus : Name \union {Nothing}, first : BOOLEAN, next : Name \union {Nothing}]
    /\ written \subseteq {"project", "corpus"} \X Name
    /\ At("idle") => migration = Idle
    /\ server.at = "down" => server = Down
    /\ server.at # "down" => server.name \in Name
    /\ ~ At("idle") => migration.name \in Name \ migration.todo

\* The project served has a directory, and the corpora bound are there.
ServerSound ==
    /\ server # Down => migration = Idle /\ proj[server.name].dir
    /\ server.at = "bind" /\ server.first => corp[Default].dir
    /\ \A n \in Name : proj[n].bound # Nothing => corp[proj[n].bound].dir

\* What has not been split is complete, and it is split before anything new is
\* written.
Untouched ==
    /\ ListProjects = {} => /\ written = {}
                            /\ \A n \in Name : old[n].at = "dir" => old[n].holds = Former
    /\ ~ At("idle") => written = {}
    /\ \A n \in migration.todo : old[n].at = "dir" /\ old[n].holds = Former

\* The steps still to be made after one of these.
ToIndex == {"dirs", "copy_corpus", "drop_document", "copy_project", "drop_corpus", "unlink",
            "index"}

\* What the two directories hold of a project at each step of its migration.
SplitSound ==
    LET n == migration.name
    IN  ~ At("idle") =>
          /\ old[n].at = "dir"
          /\ migration.at \in ToIndex => old[n].holds = Former
          /\ ~ At("dirs") => proj[n].dir /\ corp[n].dir
          /\ At("drop_document") => corp[n].holds = Whole
          /\ migration.at \notin {"dirs", "copy_corpus", "drop_document"} =>
               "chunks" \in corp[n].holds /\ "document" \notin corp[n].holds
          /\ At("drop_corpus") => proj[n].holds = Whole
          /\ migration.at \notin {"dirs", "copy_corpus", "drop_document", "copy_project",
                                  "drop_corpus"} =>
               "document" \in proj[n].holds /\ "chunks" \notin proj[n].holds
          /\ migration.at \notin ToIndex \ {"index"} => "links" \notin proj[n].holds
          /\ migration.at \in {"mirror", "branches", "bind", "retire"} => "uploads" \in corp[n].holds
          /\ migration.at \in {"bind", "retire"} => "branches" \in proj[n].holds
          /\ At("retire") => proj[n].bound # Nothing

HomeInv == Layout /\ ServerSound /\ Untouched /\ SplitSound /\ HomeSound

(* After goes through the statements of splitOne in their order. *)
LEMMA StepOrder ==
  /\ After("dirs") = "copy_corpus" /\ After("copy_corpus") = "drop_document"
  /\ After("drop_document") = "copy_project" /\ After("copy_project") = "drop_corpus"
  /\ After("drop_corpus") = "unlink" /\ After("unlink") = "index"
  /\ After("index") = "uploads" /\ After("uploads") = "mirror"
  /\ After("mirror") = "branches" /\ After("branches") = "bind" /\ After("bind") = "retire"
<1>1. DOMAIN Steps = 1..12
  BY DEF Steps
<1>2. ASSUME NEW k \in 1..11 PROVE After(Steps[k]) = Steps[k + 1]
  <2>1. \A j \in 1..12 : Steps[j] = Steps[k] => j = k
    BY DEF Steps
  <2> DEFINE i == CHOOSE j \in DOMAIN Steps : Steps[j] = Steps[k]
  <2>2. i \in 1..12 /\ Steps[i] = Steps[k]
    BY <1>1
  <2>3. i = k
    BY <2>1, <2>2
  <2> QED BY <2>3 DEF After
<1>3. /\ Steps[1] = "dirs" /\ Steps[2] = "copy_corpus" /\ Steps[3] = "drop_document"
      /\ Steps[4] = "copy_project" /\ Steps[5] = "drop_corpus" /\ Steps[6] = "unlink"
      /\ Steps[7] = "index" /\ Steps[8] = "uploads" /\ Steps[9] = "mirror"
      /\ Steps[10] = "branches" /\ Steps[11] = "bind" /\ Steps[12] = "retire"
  BY DEF Steps
<1>4. /\ After(Steps[1]) = Steps[2] /\ After(Steps[2]) = Steps[3] /\ After(Steps[3]) = Steps[4]
      /\ After(Steps[4]) = Steps[5] /\ After(Steps[5]) = Steps[6] /\ After(Steps[6]) = Steps[7]
  BY <1>2
<1>5. /\ After(Steps[7]) = Steps[8] /\ After(Steps[8]) = Steps[9] /\ After(Steps[9]) = Steps[10]
      /\ After(Steps[10]) = Steps[11] /\ After(Steps[11]) = Steps[12]
  BY <1>2
<1> QED BY <1>3, <1>4, <1>5

\* The two directories of each name, typed.
Dirs == [Name -> [dir : BOOLEAN, holds : SUBSET Holding, bound : Name \union {Nothing}]]

(* What a step that replaces the contents of a directory leaves. *)
LEMMA ProjectPut ==
  ASSUME proj \in Dirs, NEW n \in Name, NEW h \in SUBSET Holding, PutProject(n, h)
  PROVE  /\ proj' \in Dirs
         /\ \A m \in Name : proj'[m].dir = proj[m].dir /\ proj'[m].bound = proj[m].bound
         /\ \A m \in Name : proj'[m].holds = IF m = n THEN h ELSE proj[m].holds
  BY DEF PutProject, Dirs

(* The same of a corpus. *)
LEMMA CorpusPut ==
  ASSUME corp \in Dirs, NEW n \in Name, NEW h \in SUBSET Holding, PutCorpus(n, h)
  PROVE  /\ corp' \in Dirs
         /\ \A m \in Name : corp'[m].dir = corp[m].dir /\ corp'[m].bound = corp[m].bound
         /\ \A m \in Name : corp'[m].holds = IF m = n THEN h ELSE corp[m].holds
  BY DEF PutCorpus, Dirs

(* A move takes files from the former directory, and changes no other. *)
LEMMA Moved ==
  ASSUME Layout, NEW n \in Name, NEW files, Unmoved(n, files)
  PROVE  /\ old' \in [Name -> [at : {"none", "dir", "retired"}, holds : SUBSET Former]]
         /\ \A m \in Name : old'[m].at = old[m].at
         /\ \A m \in Name : old'[m].holds = IF m = n THEN old[m].holds \ files
                                              ELSE old[m].holds
<1>1. old[n] \in [at : {"none", "dir", "retired"}, holds : SUBSET Former]
  BY DEF Layout
<1>2. old' = [old EXCEPT ![n] = [old[n] EXCEPT !.holds = @ \ files]]
  BY DEF Unmoved
<1> QED BY <1>1, <1>2 DEF Layout


\* What has been split completely.
Retired(m) ==
    /\ {"document"} \subseteq proj[m].holds /\ proj[m].holds \intersect {"chunks", "links"} = {}
    /\ {"chunks", "uploads"} \subseteq corp[m].holds /\ "document" \notin corp[m].holds
    /\ "branches" \in proj[m].holds /\ proj[m].bound # Nothing

(* What is so at every statement of a migration: no program runs, nothing was *)
(* written in the present layout, and the former directory is still in place. *)
LEMMA Splitting ==
  ASSUME HomeInv, ~ At("idle")
  PROVE  /\ migration.name \in Name \ migration.todo /\ migration.at \in StepNames
         /\ migration.todo \in SUBSET Name /\ "at" \in DOMAIN migration
         /\ server = Down /\ written = {}
         /\ old[migration.name].at = "dir" /\ Found(migration.name) = Former
<1>1. /\ migration.name \in Name \ migration.todo /\ migration.at \in StepNames
      /\ migration.todo \in SUBSET Name /\ "at" \in DOMAIN migration
  BY DEF HomeInv, Layout, At
<1>2. server = Down
  BY DEF HomeInv, ServerSound, At, Idle
<1>3. written = {}
  BY DEF HomeInv, Untouched
<1>4. old[migration.name].at = "dir"
  BY DEF HomeInv, SplitSound
<1>5. Found(migration.name) = Former
  BY <1>1, <1>4 DEF HomeInv, HomeSound
<1> QED BY <1>1, <1>2, <1>3, <1>4, <1>5

\* A directory loses neither itself nor, at any name but n, anything else.
Spared(n) ==
    /\ \A m \in Name : old'[m].at = old[m].at /\ (proj[m].dir => proj'[m].dir)
                       /\ (corp[m].dir => corp'[m].dir)
    /\ \A m \in Name \ {n} : /\ old'[m].holds = old[m].holds
                             /\ proj'[m].holds = proj[m].holds /\ proj'[m].bound = proj[m].bound
                             /\ corp'[m].holds = corp[m].holds

OldTyped == old \in [Name -> [at : {"none", "dir", "retired"}, holds : SUBSET Former]]

(* A statement of splitOne preserves the invariant when it keeps to its own *)
(* project, loses none of its files and leaves what its next statement needs. *)
LEMMA Statement ==
  ASSUME HomeInv, ~ At("idle"), ~ At("retire"), Proceed, OnlyMigration,
         OldTyped', proj' \in Dirs, corp' \in Dirs,
         NEW n, n = migration.name, Spared(n), Found(n)' = Former,
         proj'[n].dir, corp'[n].dir, proj'[n].bound \in {proj[n].bound, n},
         SplitSound'
  PROVE  HomeInv'
<1>0. /\ n \in Name \ migration.todo /\ migration.at \in StepNames
      /\ migration.todo \in SUBSET Name
      /\ server = Down /\ written = {} /\ server' = Down /\ written' = {}
      /\ old[n].at = "dir"
  BY Splitting DEF OnlyMigration
<1>1. /\ migration' \in [at : StepNames \union {"idle"}, name : Name \union {Nothing},
                         todo : SUBSET Name]
      /\ migration'.name = n /\ migration'.todo = migration.todo /\ migration'.at \in StepNames
  <2>1. After(migration.at) \in StepNames
    BY <1>0, StepOrder DEF At, StepNames
  <2>2. migration \in [at : StepNames \union {"idle"}, name : Name \union {Nothing},
                       todo : SUBSET Name]
    BY DEF HomeInv, Layout
  <2> QED BY <2>1, <2>2 DEF Proceed
<1>2. Layout'
  <2>1. migration'.at # "idle"
    BY <1>1 DEF StepNames
  <2>2. server' \in [at : {"down", "bind", "current", "serving"}, name : Name \union {Nothing},
                 corpus : Name \union {Nothing}, first : BOOLEAN, next : Name \union {Nothing}]
    BY <1>0 DEF Down
  <2> QED BY <1>0, <1>1, <2>1, <2>2 DEF Layout, Dirs, OldTyped, At, Down
<1>3. ServerSound'
  <2>1. \A m \in Name : proj'[m].bound # Nothing => corp'[proj'[m].bound].dir
    <3> SUFFICES ASSUME NEW m \in Name, proj'[m].bound # Nothing
                 PROVE  corp'[proj'[m].bound].dir
      OBVIOUS
    <3>1. CASE m = n /\ proj'[n].bound = n
      BY <3>1
    <3>2. CASE proj'[m].bound = proj[m].bound
      <4>1. proj[m].bound \in Name
        BY <3>2 DEF Dirs
      <4> QED BY <3>2, <4>1 DEF HomeInv, ServerSound, Spared
    <3> QED BY <3>1, <3>2 DEF Spared
  <2>2. Down.at # "bind"
    BY DEF Down
  <2> QED BY <1>0, <2>1, <2>2 DEF ServerSound
<1>4. Untouched'
  <2>1. n \in (ListProjects)'
    BY <1>0 DEF ListProjects
  <2>2. \A m \in migration'.todo : old'[m].at = "dir" /\ old'[m].holds = Former
    BY <1>0, <1>1 DEF HomeInv, Untouched, Spared
  <2> QED BY <1>0, <2>1, <2>2 DEF Untouched
<1>5. HomeSound'
  <2>1. ASSUME NEW m \in Name, old'[m].at # "none" PROVE Found(m)' = Former
    <3>1. CASE m = n
      BY <3>1
    <3>2. CASE m # n
      <4>1. Found(m) = Former
        BY <2>1 DEF HomeInv, HomeSound, Spared
      <4> QED BY <3>2, <4>1 DEF Found, Spared
    <3> QED BY <3>1, <3>2
  <2>2. ASSUME NEW m \in Name, old'[m].at = "retired" PROVE Retired(m)'
    <3>1. m # n /\ old[m].at = "retired"
      BY <1>0, <2>2 DEF Spared
    <3>2. /\ proj'[m].holds = proj[m].holds /\ proj'[m].bound = proj[m].bound
          /\ corp'[m].holds = corp[m].holds
      BY <3>1 DEF Spared
    <3>3. Retired(m)
      BY <3>1 DEF HomeInv, HomeSound, Retired
    <3> QED BY <3>2, <3>3 DEF Retired
  <2>3. ~ (Serving)'
    BY <1>0 DEF Serving, Down
  <2> QED BY <1>0, <2>1, <2>2, <2>3 DEF HomeSound, Retired
<1> QED BY <1>2, <1>3, <1>4, <1>5 DEF HomeInv

(* All the former files are found when each is in one of the three places. *)
LEMMA FoundAll ==
  ASSUME OldTyped', NEW n \in Name,
         \A x \in Former : \/ x \in old'[n].holds
                           \/ x \in proj'[n].holds /\ x \in Mirror \union {"branches"}
                           \/ x \in corp'[n].holds /\ x \in Index \union {"uploads"}
  PROVE  Found(n)' = Former
<1>1. old'[n].holds \subseteq Former
  BY DEF OldTyped
<1>2. Mirror \subseteq Former /\ Index \subseteq Former /\ {"uploads", "branches"} \subseteq Former
  BY DEF Former
<1> QED BY <1>1, <1>2 DEF Found

(* The variables of the layout are typed. *)
LEMMA LayoutDirs ==
  ASSUME HomeInv
  PROVE  OldTyped /\ proj \in Dirs /\ corp \in Dirs
  BY DEF HomeInv, Layout, OldTyped, Dirs

(* A project directory is made where there is none. *)
LEMMA ProjectMade ==
  ASSUME proj \in Dirs, NEW n \in Name, proj' = [proj EXCEPT ![n].dir = TRUE]
  PROVE  /\ proj' \in Dirs
         /\ \A m \in Name : /\ proj'[m].holds = proj[m].holds /\ proj'[m].bound = proj[m].bound
                            /\ proj'[m].dir <=> m = n \/ proj[m].dir
<1>1. proj' = [proj EXCEPT ![n] = [proj[n] EXCEPT !.dir = TRUE]]
  OBVIOUS
<1>2. proj[n] \in [dir : BOOLEAN, holds : SUBSET Holding, bound : Name \union {Nothing}]
  BY DEF Dirs
<1>3. proj' \in Dirs
  BY <1>1, <1>2 DEF Dirs
<1> QED BY <1>1, <1>2, <1>3 DEF Dirs

(* The same of a corpus. *)
LEMMA CorpusMade ==
  ASSUME corp \in Dirs, NEW n \in Name, corp' = [corp EXCEPT ![n].dir = TRUE]
  PROVE  /\ corp' \in Dirs
         /\ \A m \in Name : /\ corp'[m].holds = corp[m].holds /\ corp'[m].bound = corp[m].bound
                            /\ corp'[m].dir <=> m = n \/ corp[m].dir
<1>1. corp' = [corp EXCEPT ![n] = [corp[n] EXCEPT !.dir = TRUE]]
  OBVIOUS
<1>2. corp[n] \in [dir : BOOLEAN, holds : SUBSET Holding, bound : Name \union {Nothing}]
  BY DEF Dirs
<1>3. corp' \in Dirs
  BY <1>1, <1>2 DEF Dirs
<1> QED BY <1>1, <1>2, <1>3 DEF Dirs

(* A project is bound to a corpus. *)
LEMMA ProjectBound ==
  ASSUME proj \in Dirs, NEW n \in Name, NEW c \in Name, proj' = [proj EXCEPT ![n].bound = c]
  PROVE  /\ proj' \in Dirs
         /\ \A m \in Name : proj'[m].dir = proj[m].dir /\ proj'[m].holds = proj[m].holds
         /\ \A m \in Name : proj'[m].bound = IF m = n THEN c ELSE proj[m].bound
<1>1. proj' = [proj EXCEPT ![n] = [proj[n] EXCEPT !.bound = c]]
  OBVIOUS
<1>2. proj[n] \in [dir : BOOLEAN, holds : SUBSET Holding, bound : Name \union {Nothing}]
  BY DEF Dirs
<1>3. proj' \in Dirs
  BY <1>1, <1>2 DEF Dirs
<1> QED BY <1>1, <1>2, <1>3 DEF Dirs

(* MakeDirs preserves the invariant. *)
LEMMA MakesDirs == ASSUME HomeInv, MakeDirs PROVE HomeInv'
<1>0. PICK n : n = migration.name
  OBVIOUS
<1>1. ~ At("idle") /\ ~ At("retire")
  BY DEF MakeDirs, At
<1>2. n \in Name /\ OldTyped /\ proj \in Dirs /\ corp \in Dirs /\ Found(n) = Former
  BY <1>0, <1>1, Splitting, LayoutDirs
<1>3. /\ old' = old /\ Proceed /\ OnlyMigration
      /\ migration'.at = "copy_corpus" /\ migration'.name = n
  <2>1. After(migration.at) = "copy_corpus"
    BY StepOrder DEF MakeDirs, At
  <2> QED BY <1>0, <1>1, <2>1, Splitting DEF MakeDirs, Proceed, HomeInv, Layout
<1>4. /\ proj' \in Dirs /\ corp' \in Dirs
      /\ \A m \in Name : /\ proj'[m].holds = proj[m].holds /\ proj'[m].bound = proj[m].bound
                         /\ corp'[m].holds = corp[m].holds
                         /\ proj'[m].dir <=> m = n \/ proj[m].dir
                         /\ corp'[m].dir <=> m = n \/ corp[m].dir
  <2>1. proj' = [proj EXCEPT ![n].dir = TRUE] /\ corp' = [corp EXCEPT ![n].dir = TRUE]
    BY <1>0 DEF MakeDirs
  <2>2. /\ proj' \in Dirs
        /\ \A m \in Name : /\ proj'[m].holds = proj[m].holds /\ proj'[m].bound = proj[m].bound
                           /\ proj'[m].dir <=> m = n \/ proj[m].dir
    BY <1>2, <2>1, ProjectMade
  <2>3. /\ corp' \in Dirs
        /\ \A m \in Name : /\ corp'[m].holds = corp[m].holds /\ corp'[m].bound = corp[m].bound
                           /\ corp'[m].dir <=> m = n \/ corp[m].dir
    BY <1>2, <2>1, CorpusMade
  <2> QED BY <2>2, <2>3
<1>5. Spared(n)
  BY <1>3, <1>4 DEF Spared
<1>6. Found(n)' = Former
  BY <1>2, <1>3, <1>4 DEF Found
<1>7. SplitSound'
  <2>1. old[n].at = "dir" /\ old[n].holds = Former
    BY <1>0, <1>1, Splitting DEF HomeInv, SplitSound, MakeDirs, At, ToIndex
  <2> QED BY <1>2, <1>3, <1>4, <2>1 DEF SplitSound, At, ToIndex
<1>8. OldTyped'
  BY <1>2, <1>3 DEF OldTyped
<1> QED BY <1>0, <1>1, <1>2, <1>3, <1>4, <1>5, <1>6, <1>7, <1>8, Statement

(* SplitCorpus preserves the invariant. *)
LEMMA SplitsCorpus == ASSUME HomeInv, SplitCorpus PROVE HomeInv'
<1>0. PICK n : n = migration.name
  OBVIOUS
<1>1. migration.at \in {"copy_corpus", "drop_document"} /\ ~ At("idle") /\ ~ At("retire")
  BY DEF SplitCorpus, At
<1>2. /\ n \in Name /\ OldTyped /\ proj \in Dirs /\ corp \in Dirs
      /\ old[n].at = "dir" /\ old[n].holds = Former /\ proj[n].dir /\ corp[n].dir
      /\ At("drop_document") => corp[n].holds = Whole
  BY <1>0, <1>1, Splitting, LayoutDirs DEF HomeInv, SplitSound, At, ToIndex
<1>3. /\ old' = old /\ proj' = proj /\ Proceed /\ OnlyMigration /\ migration'.name = n
      /\ migration'.at = IF At("copy_corpus") THEN "drop_document" ELSE "copy_project"
  <2>1. After(migration.at) = IF At("copy_corpus") THEN "drop_document" ELSE "copy_project"
    BY <1>1, StepOrder DEF At
  <2> QED BY <1>0, <1>1, <2>1, Splitting DEF SplitCorpus, Proceed, HomeInv, Layout
<1>4. PICK h \in SUBSET Holding : /\ PutCorpus(n, h)
                                  /\ h = IF At("copy_corpus") THEN Whole
                                         ELSE corp[n].holds \ {"document", "links"}
  <2>1. Whole \in SUBSET Holding
    BY DEF Holding, Former
  <2>2. corp[n].holds \ {"document", "links"} \in SUBSET Holding
    BY <1>2 DEF Dirs
  <2> QED BY <1>0, <2>1, <2>2 DEF SplitCorpus, At
<1>5. /\ corp' \in Dirs
      /\ \A m \in Name : corp'[m].dir = corp[m].dir /\ corp'[m].bound = corp[m].bound
      /\ \A m \in Name : corp'[m].holds = IF m = n THEN h ELSE corp[m].holds
  BY <1>2, <1>4, CorpusPut
<1>6. Spared(n)
  BY <1>3, <1>5 DEF Spared
<1>7. OldTyped'
  BY <1>2, <1>3 DEF OldTyped
<1>8. Found(n)' = Former
  BY <1>2, <1>3, <1>7, FoundAll
<1>9. SplitSound'
  <2>1. "chunks" \in Whole
    BY DEF Whole
  <2>2. CASE At("copy_corpus")
    BY <1>2, <1>3, <1>4, <1>5, <2>2 DEF SplitSound, At, ToIndex
  <2>3. CASE At("drop_document")
    BY <1>2, <1>3, <1>4, <1>5, <2>1, <2>3 DEF SplitSound, At, ToIndex
  <2> QED BY <1>1, <2>2, <2>3 DEF At
<1> QED BY <1>0, <1>1, <1>2, <1>3, <1>5, <1>6, <1>7, <1>8, <1>9, Statement

(* SplitProject preserves the invariant. *)
LEMMA SplitsProject == ASSUME HomeInv, SplitProject PROVE HomeInv'
<1>0. PICK n : n = migration.name
  OBVIOUS
<1>1. /\ migration.at \in {"copy_project", "drop_corpus", "unlink"}
      /\ ~ At("idle") /\ ~ At("retire")
  BY DEF SplitProject, At
<1>2. /\ n \in Name /\ OldTyped /\ proj \in Dirs /\ corp \in Dirs
      /\ old[n].at = "dir" /\ old[n].holds = Former /\ proj[n].dir /\ corp[n].dir
      /\ "chunks" \in corp[n].holds /\ "document" \notin corp[n].holds
      /\ At("drop_corpus") => proj[n].holds = Whole
      /\ At("unlink") => "document" \in proj[n].holds /\ "chunks" \notin proj[n].holds
  BY <1>0, <1>1, Splitting, LayoutDirs DEF HomeInv, SplitSound, At, ToIndex
<1>3. /\ old' = old /\ corp' = corp /\ Proceed /\ OnlyMigration /\ migration'.name = n
      /\ migration'.at = After(migration.at)
  BY <1>0, <1>1, Splitting DEF SplitProject, Proceed, HomeInv, Layout
<1>4. PICK h \in SUBSET Holding :
        /\ PutProject(n, h)
        /\ \/ At("copy_project") /\ h = Whole
           \/ At("drop_corpus") /\ h = proj[n].holds \ {"chunks"}
           \/ At("unlink") /\ h = proj[n].holds \ {"links"}
  <2>1. Whole \in SUBSET Holding
    BY DEF Holding, Former
  <2>2. \A S : proj[n].holds \ S \in SUBSET Holding
    BY <1>2 DEF Dirs
  <2> QED BY <1>0, <2>1, <2>2 DEF SplitProject
<1>5. /\ proj' \in Dirs
      /\ \A m \in Name : proj'[m].dir = proj[m].dir /\ proj'[m].bound = proj[m].bound
      /\ \A m \in Name : proj'[m].holds = IF m = n THEN h ELSE proj[m].holds
  BY <1>2, <1>4, ProjectPut
<1>6. Spared(n)
  BY <1>3, <1>5 DEF Spared
<1>7. OldTyped'
  BY <1>2, <1>3 DEF OldTyped
<1>8. Found(n)' = Former
  BY <1>2, <1>3, <1>7, FoundAll
<1>9. SplitSound'
  <2>1. CASE At("copy_project")
    BY <1>2, <1>3, <1>4, <1>5, <2>1, StepOrder DEF SplitSound, At, ToIndex
  <2>2. CASE At("drop_corpus")
    BY <1>2, <1>3, <1>4, <1>5, <2>2, StepOrder DEF SplitSound, At, ToIndex, Whole
  <2>3. CASE At("unlink")
    BY <1>2, <1>3, <1>4, <1>5, <2>3, StepOrder DEF SplitSound, At, ToIndex
  <2> QED BY <1>1, <2>1, <2>2, <2>3 DEF At
<1> QED BY <1>0, <1>1, <1>2, <1>3, <1>5, <1>6, <1>7, <1>8, <1>9, Statement

(* MoveIndex preserves the invariant: a file it did not move stays. *)
LEMMA MovesIndex == ASSUME HomeInv, MoveIndex PROVE HomeInv'
<1>0. PICK n : n = migration.name
  OBVIOUS
<1>1. migration.at = "index" /\ ~ At("idle") /\ ~ At("retire")
  BY DEF MoveIndex, At
<1>2. /\ n \in Name /\ OldTyped /\ proj \in Dirs /\ corp \in Dirs /\ Found(n) = Former
      /\ old[n].at = "dir" /\ proj[n].dir /\ corp[n].dir /\ Layout
  BY <1>0, <1>1, Splitting, LayoutDirs DEF HomeInv, SplitSound, At
<1>3. /\ proj' = proj /\ Proceed /\ OnlyMigration /\ migration'.name = n
      /\ migration'.at = "uploads"
  BY <1>0, <1>1, StepOrder, Splitting DEF MoveIndex, Proceed, HomeInv, Layout
<1>4. PICK files \in SUBSET Index : Unmoved(n, files) /\ PutCorpus(n, corp[n].holds \union files)
  BY <1>0 DEF MoveIndex
<1>5. PICK h \in SUBSET Holding : h = corp[n].holds \union files /\ PutCorpus(n, h)
  <2>1. corp[n].holds \union files \in SUBSET Holding
    BY <1>2, <1>4 DEF Dirs, Holding, Former, Index
  <2> QED BY <1>4, <2>1
<1>6. /\ corp' \in Dirs
      /\ \A m \in Name : corp'[m].dir = corp[m].dir /\ corp'[m].bound = corp[m].bound
      /\ \A m \in Name : corp'[m].holds = IF m = n THEN h ELSE corp[m].holds
  BY <1>2, <1>5, CorpusPut
<1>7. /\ OldTyped' /\ \A m \in Name : old'[m].at = old[m].at
      /\ \A m \in Name : old'[m].holds = IF m = n THEN old[m].holds \ files ELSE old[m].holds
  BY <1>2, <1>4, Moved DEF OldTyped
<1>8. Spared(n)
  BY <1>3, <1>6, <1>7 DEF Spared
<1>9. Found(n)' = Former
  <2>1. \A x \in Former : \/ x \in old[n].holds
                          \/ x \in proj[n].holds /\ x \in Mirror \union {"branches"}
                          \/ x \in corp[n].holds /\ x \in Index \union {"uploads"}
    BY <1>2 DEF Found
  <2>2. ASSUME NEW x \in Former
        PROVE  \/ x \in old'[n].holds
               \/ x \in proj'[n].holds /\ x \in Mirror \union {"branches"}
               \/ x \in corp'[n].holds /\ x \in Index \union {"uploads"}
    <3>1. x # "new uploads"
      BY DEF Former, Whole, Mirror, Index
    <3> QED BY <1>2, <1>3, <1>5, <1>6, <1>7, <2>1, <3>1, ZenonT(40)
  <2> QED BY <1>2, <1>7, <2>2, FoundAll
<1>10. SplitSound'
  BY <1>0, <1>1, <1>2, <1>3, <1>5, <1>6, <1>7, ZenonT(40)
     DEF HomeInv, SplitSound, At, ToIndex, Index, Mirror
<1> QED BY <1>0, <1>1, <1>2, <1>3, <1>6, <1>7, <1>8, <1>9, <1>10, Statement

(* MoveUploads preserves the invariant. *)
LEMMA MovesUploads == ASSUME HomeInv, MoveUploads PROVE HomeInv'
<1>0. PICK n : n = migration.name
  OBVIOUS
<1>1. migration.at = "uploads" /\ ~ At("idle") /\ ~ At("retire")
  BY DEF MoveUploads, At
<1>2. /\ n \in Name /\ OldTyped /\ proj \in Dirs /\ corp \in Dirs /\ Found(n) = Former
      /\ old[n].at = "dir" /\ proj[n].dir /\ corp[n].dir /\ Layout
  BY <1>0, <1>1, Splitting, LayoutDirs DEF HomeInv, SplitSound, At
<1>3. /\ proj' = proj /\ Proceed /\ OnlyMigration /\ migration'.name = n
      /\ migration'.at = "mirror"
  BY <1>0, <1>1, StepOrder, Splitting DEF MoveUploads, Proceed, HomeInv, Layout
<1>4. Unmoved(n, {"uploads"}) /\ PutCorpus(n, (corp[n].holds \ {"new uploads"}) \union {"uploads"})
  BY <1>0 DEF MoveUploads
<1>5. PICK h \in SUBSET Holding : h = (corp[n].holds \ {"new uploads"}) \union {"uploads"} /\ PutCorpus(n, h)
  <2>1. (corp[n].holds \ {"new uploads"}) \union {"uploads"} \in SUBSET Holding
    BY <1>2 DEF Dirs, Holding, Former
  <2> QED BY <1>4, <2>1
<1>6. /\ corp' \in Dirs
      /\ \A m \in Name : corp'[m].dir = corp[m].dir /\ corp'[m].bound = corp[m].bound
      /\ \A m \in Name : corp'[m].holds = IF m = n THEN h ELSE corp[m].holds
  BY <1>2, <1>5, CorpusPut
<1>7. /\ OldTyped' /\ \A m \in Name : old'[m].at = old[m].at
      /\ \A m \in Name : old'[m].holds = IF m = n THEN old[m].holds \ {"uploads"} ELSE old[m].holds
  BY <1>2, <1>4, Moved DEF OldTyped
<1>8. Spared(n)
  BY <1>3, <1>6, <1>7 DEF Spared
<1>9. Found(n)' = Former
  <2>1. \A x \in Former : \/ x \in old[n].holds
                          \/ x \in proj[n].holds /\ x \in Mirror \union {"branches"}
                          \/ x \in corp[n].holds /\ x \in Index \union {"uploads"}
    BY <1>2 DEF Found
  <2>2. ASSUME NEW x \in Former
        PROVE  \/ x \in old'[n].holds
               \/ x \in proj'[n].holds /\ x \in Mirror \union {"branches"}
               \/ x \in corp'[n].holds /\ x \in Index \union {"uploads"}
    <3>1. x # "new uploads"
      BY DEF Former, Whole, Mirror, Index
    <3> QED BY <1>2, <1>3, <1>5, <1>6, <1>7, <2>1, <3>1, ZenonT(40)
  <2> QED BY <1>2, <1>7, <2>2, FoundAll
<1>10. SplitSound'
  BY <1>0, <1>1, <1>2, <1>3, <1>5, <1>6, <1>7 DEF HomeInv, SplitSound, At, ToIndex, Index, Mirror
<1> QED BY <1>0, <1>1, <1>2, <1>3, <1>6, <1>7, <1>8, <1>9, <1>10, Statement

(* MoveMirror preserves the invariant: a file it did not move stays. *)
LEMMA MovesMirror == ASSUME HomeInv, MoveMirror PROVE HomeInv'
<1>0. PICK n : n = migration.name
  OBVIOUS
<1>1. migration.at = "mirror" /\ ~ At("idle") /\ ~ At("retire")
  BY DEF MoveMirror, At
<1>2. /\ n \in Name /\ OldTyped /\ proj \in Dirs /\ corp \in Dirs /\ Found(n) = Former
      /\ old[n].at = "dir" /\ proj[n].dir /\ corp[n].dir /\ Layout
  BY <1>0, <1>1, Splitting, LayoutDirs DEF HomeInv, SplitSound, At
<1>3. /\ corp' = corp /\ Proceed /\ OnlyMigration /\ migration'.name = n
      /\ migration'.at = "branches"
  BY <1>0, <1>1, StepOrder, Splitting DEF MoveMirror, Proceed, HomeInv, Layout
<1>4. PICK files \in SUBSET Mirror : Unmoved(n, files) /\ PutProject(n, proj[n].holds \union files)
  BY <1>0 DEF MoveMirror
<1>5. PICK h \in SUBSET Holding : h = proj[n].holds \union files /\ PutProject(n, h)
  <2>1. proj[n].holds \union files \in SUBSET Holding
    BY <1>2, <1>4 DEF Dirs, Holding, Former, Mirror
  <2> QED BY <1>4, <2>1
<1>6. /\ proj' \in Dirs
      /\ \A m \in Name : proj'[m].dir = proj[m].dir /\ proj'[m].bound = proj[m].bound
      /\ \A m \in Name : proj'[m].holds = IF m = n THEN h ELSE proj[m].holds
  BY <1>2, <1>5, ProjectPut
<1>7. /\ OldTyped' /\ \A m \in Name : old'[m].at = old[m].at
      /\ \A m \in Name : old'[m].holds = IF m = n THEN old[m].holds \ files ELSE old[m].holds
  BY <1>2, <1>4, Moved DEF OldTyped
<1>8. Spared(n)
  BY <1>3, <1>6, <1>7 DEF Spared
<1>9. Found(n)' = Former
  <2>1. \A x \in Former : \/ x \in old[n].holds
                          \/ x \in proj[n].holds /\ x \in Mirror \union {"branches"}
                          \/ x \in corp[n].holds /\ x \in Index \union {"uploads"}
    BY <1>2 DEF Found
  <2>2. ASSUME NEW x \in Former
        PROVE  \/ x \in old'[n].holds
               \/ x \in proj'[n].holds /\ x \in Mirror \union {"branches"}
               \/ x \in corp'[n].holds /\ x \in Index \union {"uploads"}
    <3>1. x # "new uploads"
      BY DEF Former, Whole, Mirror, Index
    <3> QED BY <1>2, <1>3, <1>5, <1>6, <1>7, <2>1, <3>1, ZenonT(40)
  <2> QED BY <1>2, <1>7, <2>2, FoundAll
<1>10. SplitSound'
  BY <1>0, <1>1, <1>2, <1>3, <1>5, <1>6, <1>7 DEF HomeInv, SplitSound, At, ToIndex, Index, Mirror
<1> QED BY <1>0, <1>1, <1>2, <1>3, <1>6, <1>7, <1>8, <1>9, <1>10, Statement

(* MoveBranches preserves the invariant. *)
LEMMA MovesBranches == ASSUME HomeInv, MoveBranches PROVE HomeInv'
<1>0. PICK n : n = migration.name
  OBVIOUS
<1>1. migration.at = "branches" /\ ~ At("idle") /\ ~ At("retire")
  BY DEF MoveBranches, At
<1>2. /\ n \in Name /\ OldTyped /\ proj \in Dirs /\ corp \in Dirs /\ Found(n) = Former
      /\ old[n].at = "dir" /\ proj[n].dir /\ corp[n].dir /\ Layout
  BY <1>0, <1>1, Splitting, LayoutDirs DEF HomeInv, SplitSound, At
<1>3. /\ corp' = corp /\ Proceed /\ OnlyMigration /\ migration'.name = n
      /\ migration'.at = "bind"
  BY <1>0, <1>1, StepOrder, Splitting DEF MoveBranches, Proceed, HomeInv, Layout
<1>4. Unmoved(n, {"branches"}) /\ PutProject(n, proj[n].holds \union {"branches"})
  BY <1>0 DEF MoveBranches
<1>5. PICK h \in SUBSET Holding : h = proj[n].holds \union {"branches"} /\ PutProject(n, h)
  <2>1. proj[n].holds \union {"branches"} \in SUBSET Holding
    BY <1>2 DEF Dirs, Holding, Former
  <2> QED BY <1>4, <2>1
<1>6. /\ proj' \in Dirs
      /\ \A m \in Name : proj'[m].dir = proj[m].dir /\ proj'[m].bound = proj[m].bound
      /\ \A m \in Name : proj'[m].holds = IF m = n THEN h ELSE proj[m].holds
  BY <1>2, <1>5, ProjectPut
<1>7. /\ OldTyped' /\ \A m \in Name : old'[m].at = old[m].at
      /\ \A m \in Name : old'[m].holds = IF m = n THEN old[m].holds \ {"branches"} ELSE old[m].holds
  BY <1>2, <1>4, Moved DEF OldTyped
<1>8. Spared(n)
  BY <1>3, <1>6, <1>7 DEF Spared
<1>9. Found(n)' = Former
  <2>1. \A x \in Former : \/ x \in old[n].holds
                          \/ x \in proj[n].holds /\ x \in Mirror \union {"branches"}
                          \/ x \in corp[n].holds /\ x \in Index \union {"uploads"}
    BY <1>2 DEF Found
  <2>2. ASSUME NEW x \in Former
        PROVE  \/ x \in old'[n].holds
               \/ x \in proj'[n].holds /\ x \in Mirror \union {"branches"}
               \/ x \in corp'[n].holds /\ x \in Index \union {"uploads"}
    <3>1. x # "new uploads"
      BY DEF Former, Whole, Mirror, Index
    <3> QED BY <1>2, <1>3, <1>5, <1>6, <1>7, <2>1, <3>1, ZenonT(40)
  <2> QED BY <1>2, <1>7, <2>2, FoundAll
<1>10. SplitSound'
  BY <1>0, <1>1, <1>2, <1>3, <1>5, <1>6, <1>7 DEF HomeInv, SplitSound, At, ToIndex, Index, Mirror
<1> QED BY <1>0, <1>1, <1>2, <1>3, <1>6, <1>7, <1>8, <1>9, <1>10, Statement

(* BindSplit preserves the invariant. *)
LEMMA BindsSplit == ASSUME HomeInv, BindSplit PROVE HomeInv'
<1>0. PICK n : n = migration.name
  OBVIOUS
<1>1. migration.at = "bind" /\ ~ At("idle") /\ ~ At("retire")
  BY DEF BindSplit, At
<1>2. /\ n \in Name /\ OldTyped /\ proj \in Dirs /\ corp \in Dirs /\ Found(n) = Former
      /\ old[n].at = "dir" /\ proj[n].dir /\ corp[n].dir
  BY <1>0, <1>1, Splitting, LayoutDirs DEF HomeInv, SplitSound, At
<1>3. /\ old' = old /\ corp' = corp /\ Proceed /\ OnlyMigration /\ migration'.name = n
      /\ migration'.at = "retire"
  BY <1>0, <1>1, StepOrder, Splitting DEF BindSplit, Proceed, HomeInv, Layout
<1>4. proj' = [proj EXCEPT ![n].bound = n]
  BY <1>0 DEF BindSplit
<1>5. /\ proj' \in Dirs
      /\ \A m \in Name : proj'[m].dir = proj[m].dir /\ proj'[m].holds = proj[m].holds
      /\ \A m \in Name : proj'[m].bound = IF m = n THEN n ELSE proj[m].bound
  BY <1>2, <1>4, ProjectBound
<1>6. Spared(n)
  BY <1>3, <1>5 DEF Spared
<1>7. OldTyped'
  BY <1>2, <1>3 DEF OldTyped
<1>8. Found(n)' = Former
  BY <1>2, <1>3, <1>5 DEF Found
<1>9. SplitSound'
  BY <1>0, <1>1, <1>2, <1>3, <1>5, HomesAssumption DEF HomeInv, SplitSound, At, ToIndex
<1> QED BY <1>0, <1>1, <1>2, <1>3, <1>5, <1>6, <1>7, <1>8, <1>9, Statement

(* Migrate preserves the invariant: it is made where nothing of the present *)
(* layout is. *)
LEMMA Migrates == ASSUME HomeInv, Migrate PROVE HomeInv'
<1>0. PICK n \in preSplitProjects :
        migration' = [at |-> "dirs", name |-> n, todo |-> preSplitProjects \ {n}]
  BY DEF Migrate
<1>1. /\ old' = old /\ proj' = proj /\ corp' = corp /\ server' = server /\ written' = written
      /\ server = Down /\ ListProjects = {}
  BY DEF Migrate
<1>2. n \in Name /\ preSplitProjects \in SUBSET Name /\ old[n].at = "dir"
  BY <1>0 DEF preSplitProjects
<1>3. Layout'
  <2>1. migration' \in [at : StepNames \union {"idle"}, name : Name \union {Nothing},
                        todo : SUBSET Name]
    BY <1>0, <1>2 DEF StepNames
  <2> QED BY <1>0, <1>1, <1>2, <2>1 DEF HomeInv, Layout, At
<1>4. ServerSound'
  BY <1>1 DEF HomeInv, ServerSound, Down
<1>5. written = {} /\ \A m \in Name : old[m].at = "dir" => old[m].holds = Former
  BY <1>1 DEF HomeInv, Untouched
<1>6. Untouched'
  BY <1>0, <1>1, <1>5 DEF Untouched, ListProjects, At, preSplitProjects
<1>7. SplitSound'
  BY <1>0, <1>1, <1>2, <1>5 DEF SplitSound, At, ToIndex
<1>8. HomeSound'
  BY <1>1 DEF HomeInv, HomeSound, Found, Serving
<1> QED BY <1>3, <1>4, <1>6, <1>7, <1>8 DEF HomeInv

(* Retire preserves the invariant: what it retires is split completely, and *)
(* the next project has not been touched. *)
LEMMA Retires == ASSUME HomeInv, Retire PROVE HomeInv'
<1>0. PICK n : n = migration.name
  OBVIOUS
<1>1. migration.at = "retire" /\ ~ At("idle")
  BY DEF Retire, At
<1>2. /\ n \in Name \ migration.todo /\ migration.todo \in SUBSET Name
      /\ OldTyped /\ server = Down /\ written = {} /\ proj[n].dir
  BY <1>0, <1>1, Splitting, LayoutDirs DEF HomeInv, SplitSound, At
<1>3. Retired(n)
  BY <1>0, <1>1 DEF HomeInv, SplitSound, Retired, At, ToIndex
<1>4. /\ proj' = proj /\ corp' = corp /\ server' = server /\ written' = written
      /\ old' = [old EXCEPT ![n].at = "retired"]
  BY <1>0 DEF Retire, OnlyMigration
<1>5. /\ OldTyped' /\ \A m \in Name : old'[m].holds = old[m].holds
      /\ \A m \in Name : old'[m].at = IF m = n THEN "retired" ELSE old[m].at
  <2>1. old' = [old EXCEPT ![n] = [old[n] EXCEPT !.at = "retired"]]
    BY <1>4
  <2> QED BY <1>2, <2>1 DEF OldTyped
<1>6. \/ migration' = Idle
      \/ \E m \in migration.todo :
           migration' = [at |-> "dirs", name |-> m, todo |-> migration.todo \ {m}]
  BY DEF Retire
<1>7. Layout'
  <2>1. migration' \in [at : StepNames \union {"idle"}, name : Name \union {Nothing},
                        todo : SUBSET Name]
    BY <1>2, <1>6 DEF StepNames, Idle
  <2>2. At("idle")' => migration' = Idle
    BY <1>6 DEF At
  <2>3. ~ At("idle")' => migration'.name \in Name \ migration'.todo
    BY <1>2, <1>6 DEF At, Idle
  <2> QED BY <1>4, <1>5, <2>1, <2>2, <2>3 DEF HomeInv, Layout, OldTyped
<1>8. ServerSound'
  BY <1>2, <1>4 DEF HomeInv, ServerSound, Down
<1>9. \A m \in migration.todo : m # n /\ old[m].at = "dir" /\ old[m].holds = Former
  BY <1>2 DEF HomeInv, Untouched
<1>10. Untouched'
  <2>1. n \in (ListProjects)'
    BY <1>2, <1>4 DEF ListProjects
  <2>2. \A m \in migration'.todo : m \in migration.todo
    BY <1>6 DEF Idle
  <2> QED BY <1>2, <1>4, <1>5, <1>9, <2>1, <2>2 DEF Untouched
<1>11. SplitSound'
  <2>1. CASE migration' = Idle
    BY <2>1 DEF SplitSound, At, Idle
  <2>2. ASSUME NEW m \in migration.todo,
               migration' = [at |-> "dirs", name |-> m, todo |-> migration.todo \ {m}]
        PROVE  SplitSound'
    <3>1. m \in Name /\ old'[m].at = "dir" /\ old'[m].holds = Former
      BY <1>2, <1>5, <1>9
    <3> QED BY <2>2, <3>1 DEF SplitSound, At, ToIndex
  <2> QED BY <1>6, <2>1, <2>2
<1>12. HomeSound'
  <2>1. ASSUME NEW m \in Name, old'[m].at # "none" PROVE Found(m)' = Former
    <3>1. Found(m) = Former
      <4>1. old[n].at = "dir"
        BY <1>0, <1>1, Splitting
      <4>2. old[m].at # "none"
        BY <1>5, <2>1, <4>1
      <4> QED BY <4>2 DEF HomeInv, HomeSound
    <3> QED BY <1>4, <1>5, <3>1 DEF Found
  <2>2. ASSUME NEW m \in Name, old'[m].at = "retired" PROVE Retired(m)'
    <3>1. Retired(m)
      BY <1>3, <1>5, <2>2 DEF HomeInv, HomeSound, Retired
    <3> QED BY <1>4, <3>1 DEF Retired
  <2>3. ~ (Serving)'
    BY <1>2, <1>4 DEF Serving, Down
  <2> QED BY <1>2, <1>4, <2>1, <2>2, <2>3 DEF HomeSound, Retired
<1> QED BY <1>7, <1>8, <1>10, <1>11, <1>12 DEF HomeInv

(* Abandon preserves the invariant: a copy damaged midway has its former *)
(* directory whole beside it. *)
LEMMA Abandons == ASSUME HomeInv, Abandon PROVE HomeInv'
<1>0. PICK n : n = migration.name
  OBVIOUS
<1>1. ~ At("idle")
  BY DEF Abandon, HomeInv, Layout
<1>2. /\ n \in Name /\ OldTyped /\ proj \in Dirs /\ corp \in Dirs
      /\ server = Down /\ written = {} /\ old[n].at = "dir"
  BY <1>0, <1>1, Splitting, LayoutDirs
<1>3. /\ old' = old /\ server' = server /\ written' = written /\ migration' = Idle
      /\ \/ proj' = proj /\ corp' = corp
         \/ /\ At("copy_corpus") \/ At("copy_project")
            /\ \/ PutCorpus(n, {"damaged"}) /\ proj' = proj
               \/ PutProject(n, {"damaged"}) /\ corp' = corp
  BY <1>0 DEF Abandon, OnlyMigration
<1>4. {"damaged"} \in SUBSET Holding
  BY DEF Holding
<1>5. /\ proj' \in Dirs /\ corp' \in Dirs
      /\ \A m \in Name : /\ proj'[m].dir = proj[m].dir /\ proj'[m].bound = proj[m].bound
                         /\ corp'[m].dir = corp[m].dir
      /\ \A m \in Name \ {n} : proj'[m].holds = proj[m].holds /\ corp'[m].holds = corp[m].holds
  <2>1. CASE proj' = proj /\ corp' = corp
    BY <1>2, <2>1
  <2>2. CASE PutCorpus(n, {"damaged"}) /\ proj' = proj
    BY <1>2, <1>4, <2>2, CorpusPut
  <2>3. CASE PutProject(n, {"damaged"}) /\ corp' = corp
    BY <1>2, <1>4, <2>3, ProjectPut
  <2> QED BY <1>3, <2>1, <2>2, <2>3
<1>6. Layout'
  <2>1. Idle \in [at : StepNames \union {"idle"}, name : Name \union {Nothing}, todo : SUBSET Name]
    BY DEF Idle
  <2> QED BY <1>3, <1>5, <2>1 DEF HomeInv, Layout, Dirs, At, Idle
<1>7. ServerSound'
  <2>1. \A m \in Name : proj[m].bound # Nothing => proj[m].bound \in Name
    BY <1>2 DEF Dirs
  <2>2. Down.at # "bind"
    BY DEF Down
  <2> QED BY <1>2, <1>3, <1>5, <2>1, <2>2 DEF HomeInv, ServerSound
<1>8. Untouched'
  <2>1. (ListProjects)' = ListProjects
    BY <1>5 DEF ListProjects
  <2> QED BY <1>2, <1>3, <2>1 DEF HomeInv, Untouched, Idle
<1>9. SplitSound'
  BY <1>3 DEF SplitSound, At, Idle
<1>10. HomeSound'
  <2>1. ASSUME NEW m \in Name, old'[m].at # "none" PROVE Found(m)' = Former
    <3>1. Found(m) = Former
      BY <1>3, <2>1 DEF HomeInv, HomeSound
    <3>2. CASE m # n \/ (proj' = proj /\ corp' = corp)
      BY <1>3, <1>5, <3>1, <3>2 DEF Found
    <3>3. CASE m = n /\ (At("copy_corpus") \/ At("copy_project"))
      <4>1. old'[n].holds = Former /\ OldTyped'
        BY <1>0, <1>1, <1>2, <1>3, <3>3 DEF HomeInv, SplitSound, At, ToIndex, OldTyped
      <4> QED BY <1>2, <3>3, <4>1, FoundAll
    <3>4. (proj' = proj /\ corp' = corp) \/ At("copy_corpus") \/ At("copy_project")
      BY <1>3
    <3> QED BY <3>2, <3>3, <3>4
  <2>2. ASSUME NEW m \in Name, old'[m].at = "retired" PROVE Retired(m)'
    <3>1. Retired(m) /\ m # n
      BY <1>2, <1>3, <2>2 DEF HomeInv, HomeSound, Retired
    <3>2. /\ proj'[m].holds = proj[m].holds /\ proj'[m].bound = proj[m].bound
          /\ corp'[m].holds = corp[m].holds
      BY <1>5, <3>1
    <3> QED BY <3>1, <3>2 DEF Retired
  <2>3. ~ (Serving)'
    BY <1>2, <1>3 DEF Serving, Down
  <2> QED BY <1>2, <1>3, <2>1, <2>2, <2>3 DEF HomeSound, Retired
<1> QED BY <1>6, <1>7, <1>8, <1>9, <1>10 DEF HomeInv

ServerType ==
    [at : {"down", "bind", "current", "serving"}, name : Name \union {Nothing},
     corpus : Name \union {Nothing}, first : BOOLEAN, next : Name \union {Nothing}]

\* What a program puts in the directories: the working documents, new text,
\* new chunks and files.
Added ==
    /\ \A m \in Name : /\ proj[m].dir => proj'[m].dir
                       /\ corp[m].dir => corp'[m].dir
                       /\ proj[m].holds \subseteq proj'[m].holds
                       /\ proj'[m].holds \subseteq proj[m].holds \union Mirror \union {"new text"}
                       /\ corp[m].holds \subseteq corp'[m].holds
                       /\ corp'[m].holds \subseteq
                              corp[m].holds \union {"new chunks", "new uploads"}
    /\ \A m \in Name : proj[m].bound # Nothing => proj'[m].bound # Nothing
    /\ \A m \in Name : proj'[m].bound # Nothing => corp'[proj'[m].bound].dir

\* What was written is there.
StillThere(w) ==
    IF w[1] = "project" THEN "new text" \in proj[w[2]].holds
    ELSE {"new chunks", "new uploads"} \subseteq corp[w[2]].holds

(* A step of the program preserves the invariant when it only adds to what *)
(* the directories hold. *)
LEMMA SessionStep ==
  ASSUME HomeInv, KeepFormer, migration = Idle, proj' \in Dirs, corp' \in Dirs, Added,
         server' \in ServerType, server'.at = "down" => server' = Down,
         server'.at # "down" => server'.name \in Name /\ proj'[server'.name].dir,
         server'.at = "bind" /\ server'.first => corp'[Default].dir,
         written' \subseteq {"project", "corpus"} \X Name,
         \A w \in written' : w \in written \/ StillThere(w)',
         written' = written \/ (ListProjects)' # {},
         (Serving /\ server.next = Nothing => server.corpus = proj[server.name].bound)'
  PROVE  HomeInv'
<1>0. old' = old /\ migration' = Idle
  BY DEF KeepFormer
<1>1. Layout'
  BY <1>0 DEF HomeInv, Layout, Dirs, ServerType, At, Idle
<1>2. ServerSound'
  <2>1. server' # Down => server'.at # "down"
    OBVIOUS
  <2> QED BY <1>0, <2>1 DEF ServerSound, Added
<1>3. Untouched'
  <2>1. (ListProjects)' = {} => ListProjects = {}
    BY DEF ListProjects, Added
  <2> QED BY <1>0, <2>1 DEF HomeInv, Untouched, At, Idle
<1>4. SplitSound'
  BY <1>0 DEF SplitSound, At, Idle
<1>5. HomeSound'
  <2>1. ASSUME NEW m \in Name, old'[m].at # "none" PROVE Found(m)' = Former
    <3>1. Found(m) = Former
      BY <1>0, <2>1 DEF HomeInv, HomeSound
    <3>2. proj[m].holds \subseteq proj'[m].holds /\ corp[m].holds \subseteq corp'[m].holds
      BY DEF Added
    <3>3. OldTyped'
      BY <1>0, LayoutDirs DEF OldTyped
    <3>4. \A x \in Former : \/ x \in old'[m].holds
                            \/ x \in proj'[m].holds /\ x \in Mirror \union {"branches"}
                            \/ x \in corp'[m].holds /\ x \in Index \union {"uploads"}
      BY <1>0, <3>1, <3>2 DEF Found
    <3> QED BY <3>3, <3>4, FoundAll
  <2>2. ASSUME NEW m \in Name, old'[m].at = "retired" PROVE Retired(m)'
    <3>1. Retired(m)
      BY <1>0, <2>2 DEF HomeInv, HomeSound, Retired
    <3>2. "chunks" \notin proj'[m].holds /\ "links" \notin proj'[m].holds
      BY <3>1 DEF Added, Retired, Mirror
    <3>3. "document" \notin corp'[m].holds
      BY <3>1 DEF Added, Retired
    <3> QED BY <3>1, <3>2, <3>3 DEF Retired, Added
  <2>3. ASSUME NEW w \in written' PROVE StillThere(w)'
    <3>1. CASE w \in written
      <4>1. StillThere(w) /\ w[2] \in Name
        BY <3>1 DEF HomeInv, HomeSound, Layout, StillThere
      <4>2. /\ proj[w[2]].holds \subseteq proj'[w[2]].holds
            /\ corp[w[2]].holds \subseteq corp'[w[2]].holds
        BY <4>1 DEF Added
      <4> QED BY <4>1, <4>2 DEF StillThere
    <3> QED BY <2>3, <3>1
  <2> QED BY <2>1, <2>2, <2>3 DEF HomeSound, Retired, StillThere
<1> QED BY <1>1, <1>2, <1>3, <1>4, <1>5 DEF HomeInv

(* What is so while a program runs: no migration does, and the directories *)
(* are there. *)
LEMMA Running ==
  ASSUME HomeInv
  PROVE  /\ OldTyped /\ proj \in Dirs /\ corp \in Dirs /\ server \in ServerType
         /\ written \subseteq {"project", "corpus"} \X Name
         /\ server.at # "down" => /\ migration = Idle /\ server.name \in Name
                                  /\ proj[server.name].dir
         /\ \A m \in Name : proj[m].bound # Nothing => /\ proj[m].bound \in Name
                                                       /\ corp[proj[m].bound].dir
<1>1. OldTyped /\ proj \in Dirs /\ corp \in Dirs
  BY LayoutDirs
<1>2. server \in ServerType /\ written \subseteq {"project", "corpus"} \X Name
  BY DEF HomeInv, Layout, ServerType
<1>3. server.at # "down" => server # Down
  BY DEF Down
<1>4. server.at # "down" => /\ migration = Idle /\ server.name \in Name
                            /\ proj[server.name].dir
  BY <1>3 DEF HomeInv, Layout, ServerSound
<1>5. \A m \in Name : proj[m].bound # Nothing => /\ proj[m].bound \in Name
                                                 /\ corp[proj[m].bound].dir
  BY <1>1 DEF HomeInv, ServerSound, Dirs
<1> QED BY <1>1, <1>2, <1>4, <1>5

(* A stopped program is typed. *)
LEMMA DownTyped == Down \in ServerType /\ Down.at = "down"
  BY DEF Down, ServerType

(* CreateProjectDirs preserves the invariant. *)
LEMMA CreatesDirs == ASSUME HomeInv, CreateProjectDirs PROVE HomeInv'
<1>1. PICK n \in Name :
        /\ proj' = [proj EXCEPT ![n].dir = TRUE]
        /\ corp' = IF ListProjects = {} THEN [corp EXCEPT ![Default].dir = TRUE] ELSE corp
        /\ server' = [Down EXCEPT !.at = "bind", !.name = n, !.first = ListProjects = {}]
  BY DEF CreateProjectDirs
<1>2. migration = Idle /\ KeepFormer /\ written' = written
  BY DEF CreateProjectDirs
<1>3. /\ proj' \in Dirs
      /\ \A m \in Name : /\ proj'[m].holds = proj[m].holds /\ proj'[m].bound = proj[m].bound
                         /\ proj'[m].dir <=> m = n \/ proj[m].dir
  BY <1>1, Running, ProjectMade
<1>4. /\ corp' \in Dirs
      /\ \A m \in Name : corp'[m].holds = corp[m].holds /\ (corp[m].dir => corp'[m].dir)
      /\ ListProjects = {} => corp'[Default].dir
  <2>1. CASE ListProjects = {}
    BY <1>1, <2>1, Running, CorpusMade, HomesAssumption
  <2>2. CASE ListProjects # {}
    BY <1>1, <2>2, Running
  <2> QED BY <2>1, <2>2
<1>5. /\ server' \in ServerType /\ server'.at = "bind" /\ server'.name = n
      /\ server'.first = (ListProjects = {})
  BY <1>1 DEF Down, ServerType
<1>6. Added
  BY <1>3, <1>4, Running DEF Added
<1>7. ~ (Serving)'
  BY <1>5 DEF Serving
<1> QED BY <1>2, <1>3, <1>4, <1>5, <1>6, <1>7, Running, SessionStep

(* BindFirst preserves the invariant: the corpus Default was made with the *)
(* first project. *)
LEMMA BindsFirst == ASSUME HomeInv, BindFirst PROVE HomeInv'
<1>0. PICK n : n = server.name
  OBVIOUS
<1>1. /\ server.at = "bind" /\ n \in Name /\ migration = Idle /\ KeepFormer
      /\ written' = written /\ corp' = corp /\ proj[n].dir
  BY <1>0, Running DEF BindFirst
<1>2. /\ proj' \in Dirs
      /\ \A m \in Name : /\ proj'[m].holds = proj[m].holds /\ proj'[m].dir = proj[m].dir
                         /\ proj'[m].bound = proj[m].bound
                               \/ (server.first /\ m = n /\ proj'[m].bound = Default)
  <2>1. CASE server.first /\ proj[n].bound = Nothing
    <3>1. proj' = [proj EXCEPT ![n].bound = Default]
      BY <1>0, <2>1 DEF BindFirst
    <3>2. \A m \in Name : proj'[m].bound = IF m = n THEN Default ELSE proj[m].bound
      BY <1>1, <3>1, Running, ProjectBound, HomesAssumption
    <3> QED BY <1>1, <2>1, <3>1, <3>2, Running, ProjectBound, HomesAssumption
  <2>2. CASE ~ (server.first /\ proj[n].bound = Nothing)
    <3>1. proj' = proj
      BY <1>0, <2>2 DEF BindFirst
    <3> QED BY <3>1, Running
  <2> QED BY <2>1, <2>2
<1>3. /\ server' \in ServerType /\ server'.at = "current" /\ server'.name = n
  BY <1>0, Running DEF BindFirst, ServerType
<1>4. Added
  <2>1. server.first => corp[Default].dir
    BY <1>1 DEF HomeInv, ServerSound
  <2>2. Default # Nothing
    BY HomesAssumption
  <2> QED BY <1>1, <1>2, <2>1, <2>2, Running DEF Added
<1>5. ~ (Serving)'
  BY <1>3 DEF Serving
<1> QED BY <1>1, <1>2, <1>3, <1>4, <1>5, Running, SessionStep

(* Serve preserves the invariant: a project that is bound is served with its *)
(* corpus. *)
LEMMA Serves == ASSUME HomeInv, Serve PROVE HomeInv'
<1>0. PICK n, b : n = server.name /\ b = proj[server.name].bound
  OBVIOUS
<1>1. /\ n \in Name /\ migration = Idle /\ KeepFormer /\ proj[n].dir
      /\ written' = written /\ corp' = corp /\ proj' = proj /\ b = proj[n].bound
  BY <1>0, Running DEF Serve
<1>2. (IF b # Nothing /\ corp[b].dir THEN b ELSE Nothing) = b
  BY <1>1, Running
<1>3. b \in Name \union {Nothing}
  BY <1>1, Running DEF Dirs
<1>4. server' = Down \/ server' = [Down EXCEPT !.at = "serving", !.name = n, !.corpus = b]
  BY <1>0, <1>2 DEF Serve
<1>5. /\ server' \in ServerType /\ server'.at \in {"down", "serving"}
      /\ server'.at = "down" => server' = Down
      /\ server'.at # "down" => server'.name = n /\ server'.corpus = b
  <2>1. CASE server' = Down
    BY <2>1, DownTyped
  <2>2. CASE server' = [Down EXCEPT !.at = "serving", !.name = n, !.corpus = b]
    BY <1>1, <1>3, <2>2 DEF Down, ServerType
  <2> QED BY <1>4, <2>1, <2>2
<1>6. Added
  BY <1>1, Running DEF Added
<1> QED BY <1>1, <1>5, <1>6, Running, SessionStep DEF Serving

(* Edit preserves the invariant. *)
LEMMA Edits == ASSUME HomeInv, Edit PROVE HomeInv'
<1>0. PICK n : n = server.name
  OBVIOUS
<1>1. /\ server.at = "serving" /\ n \in Name /\ migration = Idle /\ KeepFormer
      /\ server' = server /\ corp' = corp /\ proj[n].dir
      /\ written' = written \union {<<"project", n>>}
  BY <1>0, Running DEF Edit, Serving
<1>2. PICK h \in SUBSET Holding :
        PutProject(n, h) /\ h = proj[n].holds \union {"new text"} \union Mirror
  <2>1. proj[n].holds \union {"new text"} \union Mirror \in SUBSET Holding
    BY <1>1, Running DEF Dirs, Holding, Former
  <2> QED BY <1>0, <2>1 DEF Edit
<1>3. /\ proj' \in Dirs
      /\ \A m \in Name : proj'[m].dir = proj[m].dir /\ proj'[m].bound = proj[m].bound
      /\ \A m \in Name : proj'[m].holds = IF m = n THEN h ELSE proj[m].holds
  BY <1>1, <1>2, Running, ProjectPut, ZenonT(40)
<1>4. Added
  <2>1. \A m \in Name : proj[m].bound # Nothing => corp[proj[m].bound].dir
    BY Running
  <2>2. \A m \in Name : /\ proj[m].holds \subseteq proj'[m].holds
                       /\ proj'[m].holds \subseteq
                              proj[m].holds \union Mirror \union {"new text"}
    BY <1>2, <1>3
  <2> QED BY <1>1, <1>3, <2>1, <2>2 DEF Added
<1>5. \A w \in written' : w \in written \/ StillThere(w)'
  <2>1. "new text" \in proj'[n].holds
    BY <1>1, <1>2, <1>3
  <2>2. ASSUME NEW w, w = <<"project", n>> PROVE StillThere(w)'
    <3>1. w[1] = "project" /\ w[2] = n
      BY <2>2
    <3> QED BY <2>1, <3>1 DEF StillThere
  <2> QED BY <1>1, <2>2
<1>6. (ListProjects)' # {}
  BY <1>1, <1>3 DEF ListProjects
<1>7. (Serving /\ server.next = Nothing => server.corpus = proj[server.name].bound)'
  BY <1>0, <1>1, <1>3 DEF HomeInv, HomeSound, Serving
<1> QED BY <1>0, <1>1, <1>3, <1>4, <1>5, <1>6, <1>7, Running, SessionStep

(* Upload preserves the invariant. *)
LEMMA Uploads == ASSUME HomeInv, Upload PROVE HomeInv'
<1>0. PICK c : c = server.corpus
  OBVIOUS
<1>1. /\ server.at = "serving" /\ c \in Name /\ migration = Idle /\ KeepFormer
      /\ server' = server /\ proj' = proj /\ server.name \in Name /\ proj[server.name].dir
      /\ written' = written \union {<<"corpus", c>>}
  BY <1>0, Running DEF Upload, Serving, ServerType
<1>2. PICK h \in SUBSET Holding :
        PutCorpus(c, h) /\ h = corp[c].holds \union {"new chunks", "new uploads"}
  <2>1. corp[c].holds \union {"new chunks", "new uploads"} \in SUBSET Holding
    BY <1>1, Running DEF Dirs, Holding
  <2> QED BY <1>0, <2>1 DEF Upload
<1>3. /\ corp' \in Dirs
      /\ \A m \in Name : corp'[m].dir = corp[m].dir /\ corp'[m].bound = corp[m].bound
      /\ \A m \in Name : corp'[m].holds = IF m = c THEN h ELSE corp[m].holds
  <2>1. corp \in Dirs
    BY Running
  <2> QED BY <1>1, <1>2, <2>1, CorpusPut
<1>4. Added
  <2>1. \A m \in Name : proj[m].bound # Nothing => proj[m].bound \in Name
                                                   /\ corp[proj[m].bound].dir
    BY Running
  <2> QED BY <1>1, <1>2, <1>3, <2>1 DEF Added
<1>5. \A w \in written' : w \in written \/ StillThere(w)'
  <2>1. {"new chunks", "new uploads"} \subseteq corp'[c].holds
    BY <1>1, <1>2, <1>3
  <2>2. ASSUME NEW w, w = <<"corpus", c>> PROVE StillThere(w)'
    <3>1. w[1] = "corpus" /\ w[2] = c
      BY <2>2
    <3> QED BY <2>1, <3>1 DEF StillThere
  <2> QED BY <1>1, <2>2
<1>6. (ListProjects)' # {}
  BY <1>1 DEF ListProjects
<1>7. (Serving /\ server.next = Nothing => server.corpus = proj[server.name].bound)'
  BY <1>1 DEF HomeInv, HomeSound, Serving
<1> QED BY <1>1, <1>3, <1>4, <1>5, <1>6, <1>7, Running, SessionStep

(* What is asked of a program that serves leaves its project, its corpus and *)
(* what is written as they are. *)
LEMMA SwitchAsked ==
  ASSUME HomeInv, Serving, NEW n \in Name, AskRestart(n)
  PROVE  /\ server' \in ServerType /\ server'.at = "serving" /\ server'.next # Nothing
         /\ server'.name = server.name
<1>1. server \in ServerType /\ server.at = "serving"
  BY Running DEF Serving
<1>2. n # Nothing
  BY HomesAssumption
<1>3. PICK k \in Name : k # Nothing /\ server' = [server EXCEPT !.next = k]
  BY <1>1, <1>2, HomesAssumption DEF AskRestart, ServerType
<1> QED BY <1>1, <1>3 DEF ServerType

(* ProjectSwitch preserves the invariant. *)
LEMMA Switches == ASSUME HomeInv, ProjectSwitch PROVE HomeInv'
<1>1. PICK n \in Name : AskRestart(n)
  BY DEF ProjectSwitch
<1>2. /\ Serving /\ server.name \in Name /\ proj[server.name].dir
      /\ proj' = proj /\ corp' = corp /\ written' = written /\ KeepFormer /\ migration = Idle
  BY Running DEF ProjectSwitch, Serving
<1>3. /\ server' \in ServerType /\ server'.at = "serving" /\ server'.next # Nothing
      /\ server'.name = server.name
  BY <1>1, <1>2, SwitchAsked
<1>4. Added
  BY <1>2, Running DEF Added
<1> QED BY <1>2, <1>3, <1>4, Running, SessionStep

(* ProjectNew preserves the invariant. *)
LEMMA NewProject == ASSUME HomeInv, ProjectNew PROVE HomeInv'
<1>1. PICK n \in Name :
        /\ AskRestart(n)
        /\ corp' = [corp EXCEPT ![n].dir = TRUE]
        /\ proj' = [proj EXCEPT ![n].dir = TRUE, ![n].bound = IF @ = Nothing THEN n ELSE @]
  BY DEF ProjectNew
<1>2. /\ Serving /\ server.name \in Name /\ proj[server.name].dir
      /\ written' = written /\ KeepFormer /\ migration = Idle
      /\ proj \in Dirs /\ corp \in Dirs
  BY Running DEF ProjectNew, Serving
<1>3. /\ server' \in ServerType /\ server'.at = "serving" /\ server'.next # Nothing
      /\ server'.name = server.name
  BY <1>1, <1>2, SwitchAsked
<1>4. /\ corp' \in Dirs
      /\ \A m \in Name : /\ corp'[m].holds = corp[m].holds /\ corp'[m].bound = corp[m].bound
                         /\ corp'[m].dir <=> m = n \/ corp[m].dir
  BY <1>1, <1>2, CorpusMade
<1>5. PICK b \in Name : b = IF proj[n].bound = Nothing THEN n ELSE proj[n].bound
  BY <1>2 DEF Dirs
<1>6. /\ proj' \in Dirs
      /\ \A m \in Name : /\ proj'[m].holds = proj[m].holds
                         /\ proj'[m].bound = IF m = n THEN b ELSE proj[m].bound
                         /\ proj'[m].dir <=> m = n \/ proj[m].dir
  <2>1. proj' = [proj EXCEPT ![n] = [proj[n] EXCEPT !.dir = TRUE, !.bound = b]]
    BY <1>1, <1>2, <1>5 DEF Dirs
  <2>2. proj[n] \in [dir : BOOLEAN, holds : SUBSET Holding, bound : Name \union {Nothing}]
    BY <1>2 DEF Dirs
  <2>3. proj' \in Dirs
    BY <1>2, <2>1, <2>2 DEF Dirs
  <2> QED BY <1>2, <2>1, <2>2, <2>3 DEF Dirs
<1>7. Added
  <2>1. \A m \in Name : proj[m].bound # Nothing => proj[m].bound \in Name
                                                   /\ corp[proj[m].bound].dir
    BY Running
  <2>2. corp'[b].dir
    BY <1>4, <1>5, <2>1
  <2>3. b # Nothing
    BY HomesAssumption
  <2> QED BY <1>2, <1>4, <1>6, <2>1, <2>2, <2>3 DEF Added
<1> QED BY <1>2, <1>3, <1>4, <1>6, <1>7, Running, SessionStep

(* BindCorpus preserves the invariant: the program it rebinds restarts. *)
LEMMA BindsCorpus == ASSUME HomeInv, BindCorpus PROVE HomeInv'
<1>0. PICK n : n = server.name
  OBVIOUS
<1>1. PICK c \in Name : /\ corp' = [corp EXCEPT ![c].dir = TRUE]
                        /\ proj' = [proj EXCEPT ![n].bound = c]
  BY <1>0 DEF BindCorpus
<1>2. /\ Serving /\ n \in Name /\ proj[n].dir /\ AskRestart(n)
      /\ written' = written /\ KeepFormer /\ migration = Idle
      /\ proj \in Dirs /\ corp \in Dirs
  BY <1>0, Running DEF BindCorpus, Serving
<1>3. /\ server' \in ServerType /\ server'.at = "serving" /\ server'.next # Nothing
      /\ server'.name = n
  BY <1>0, <1>2, SwitchAsked
<1>4. /\ corp' \in Dirs
      /\ \A m \in Name : /\ corp'[m].holds = corp[m].holds /\ corp'[m].bound = corp[m].bound
                         /\ corp'[m].dir <=> m = c \/ corp[m].dir
  BY <1>1, <1>2, CorpusMade
<1>5. /\ proj' \in Dirs
      /\ \A m \in Name : proj'[m].dir = proj[m].dir /\ proj'[m].holds = proj[m].holds
      /\ \A m \in Name : proj'[m].bound = IF m = n THEN c ELSE proj[m].bound
  BY <1>1, <1>2, ProjectBound
<1>6. Added
  <2>1. \A m \in Name : proj[m].bound # Nothing => proj[m].bound \in Name
                                                   /\ corp[proj[m].bound].dir
    BY Running
  <2>2. c # Nothing
    BY HomesAssumption
  <2> QED BY <1>2, <1>4, <1>5, <2>1, <2>2 DEF Added
<1> QED BY <1>2, <1>3, <1>4, <1>5, <1>6, Running, SessionStep

(* Stopping a program, for a restart or not, preserves the invariant. *)
LEMMA Halts == ASSUME HomeInv, Restart \/ Kill PROVE HomeInv'
<1>1. /\ server # Down /\ server' = Down /\ proj' = proj /\ corp' = corp
      /\ written' = written /\ KeepFormer
  BY DEF Restart, Kill, Serving, Down
<1>2. migration = Idle
  BY <1>1 DEF HomeInv, ServerSound
<1>3. Added
  BY <1>1, Running DEF Added
<1> QED BY <1>1, <1>2, <1>3, Running, DownTyped, SessionStep DEF Serving

(* HomeInv holds of a home of the former layout, and of an empty one. *)
LEMMA HomeStarts == HomeInit => HomeInv
<1> SUFFICES ASSUME HomeInit PROVE HomeInv
  OBVIOUS
<1>1. PICK names \in SUBSET Name :
        old = [n \in Name |-> IF n \in names THEN [at |-> "dir", holds |-> Former]
                              ELSE [at |-> "none", holds |-> {}]]
  BY DEF HomeInit
<1>2. /\ proj = [n \in Name |-> NoDir] /\ corp = [n \in Name |-> NoDir]
      /\ migration = Idle /\ server = Down /\ written = {}
  BY DEF HomeInit
<1>3. /\ OldTyped
      /\ \A n \in Name : /\ old[n].at \in {"none", "dir"}
                         /\ old[n].at = "dir" => old[n].holds = Former
  BY <1>1 DEF OldTyped
<1>4. /\ proj \in Dirs /\ corp \in Dirs
      /\ \A n \in Name : proj[n].bound = Nothing /\ proj[n].holds = {} /\ corp[n].holds = {}
  BY <1>2 DEF Dirs, NoDir
<1>5. Layout
  <2>1. Idle \in [at : StepNames \union {"idle"}, name : Name \union {Nothing}, todo : SUBSET Name]
    BY DEF Idle
  <2>2. server \in ServerType /\ server.at = "down"
    BY <1>2, DownTyped
  <2> QED BY <1>2, <1>3, <1>4, <2>1, <2>2 DEF Layout, OldTyped, Dirs, ServerType, At, Idle
<1>6. ServerSound
  BY <1>2, <1>4, DownTyped DEF ServerSound
<1>7. Untouched
  BY <1>2, <1>3 DEF Untouched, At, Idle
<1>8. SplitSound
  BY <1>2 DEF SplitSound, At, Idle
<1>9. HomeSound
  <2>1. ASSUME NEW n \in Name, old[n].at # "none" PROVE Found(n) = Former
    BY <1>3, <1>4, <2>1 DEF Found
  <2> QED BY <1>2, <1>3, <2>1, DownTyped DEF HomeSound, Serving
<1> QED BY <1>5, <1>6, <1>7, <1>8, <1>9 DEF HomeInv

(* The migration loses nothing of a former project and the program serves the *)
(* corpus its project is bound to, whatever fails and whenever it is killed, *)
(* for any names and any number of failures (migrate.go, project.go Resolve, *)
(* project_handler.go). *)
THEOREM NothingLost == HomeSpec => []HomeSound
<1>1. HomeInv /\ [HomeNext]_homeVars => HomeInv'
  <2> SUFFICES ASSUME HomeInv, [HomeNext]_homeVars PROVE HomeInv'
    OBVIOUS
  <2>1. CASE MigrateSplit
    BY <2>1, Migrates, MakesDirs, SplitsCorpus, SplitsProject, MovesIndex, MovesUploads,
         MovesMirror, MovesBranches, BindsSplit, Retires, Abandons DEF MigrateSplit
  <2>2. CASE Session
    BY <2>2, CreatesDirs, BindsFirst, Serves, Edits, Uploads, Switches, NewProject,
         BindsCorpus, Halts DEF Session
  <2>3. CASE UNCHANGED homeVars
    <3>1. /\ old' = old /\ proj' = proj /\ corp' = corp /\ migration' = migration
          /\ server' = server /\ written' = written
      BY <2>3 DEF homeVars
    <3>2. Layout' /\ ServerSound'
      BY <3>1 DEF HomeInv, Layout, ServerSound, At
    <3>3. Untouched' /\ SplitSound'
      BY <3>1 DEF HomeInv, Untouched, SplitSound, ListProjects, At
    <3>4. HomeSound'
      BY <3>1 DEF HomeInv, HomeSound, Found, Serving
    <3> QED BY <3>2, <3>3, <3>4 DEF HomeInv
  <2> QED BY <2>1, <2>2, <2>3 DEF HomeNext
<1>2. HomeInv => HomeSound
  BY DEF HomeInv
<1> QED BY HomeStarts, <1>1, <1>2, PTL DEF HomeSpec

-----------------------------------------------------------------------------
(* The graphs of the atlas, for every input: LinksSound, TranscriptsSound and *)
(* TagsSound.  A sort, and a cut after the first K, are reasoned about by *)
(* ranks: the number of elements that come before one. *)

\* L puts the elements of S one after the other.
StrictTotal(S, L) ==
    /\ \A a \in S : <<a, a>> \notin L
    /\ \A a, b \in S : a = b \/ <<a, b>> \in L \/ <<b, a>> \in L
    /\ \A a, b, c \in S : <<a, b>> \in L /\ <<b, c>> \in L => <<a, c>> \in L

\* The number of those before x.
BeforeIn(S, L, x) == {y \in S : <<y, x>> \in L}
Rank(S, L) == [x \in S |-> Cardinality(BeforeIn(S, L, x))]

(* The ranks in a finite total order are 0, 1, 2, ..., in that order. *)
LEMMA Ranks ==
  ASSUME NEW S, IsFiniteSet(S), NEW L, StrictTotal(S, L)
  PROVE  /\ Rank(S, L) \in Bijection(S, 0..(Cardinality(S) - 1))
         /\ \A a, b \in S : <<a, b>> \in L <=> Rank(S, L)[a] < Rank(S, L)[b]
<1> DEFINE r == Rank(S, L)
           n == Cardinality(S)
<1>1. n \in Nat
  BY FS_CardinalityType
<1>2. \A a \in S : /\ IsFiniteSet(BeforeIn(S, L, a)) /\ BeforeIn(S, L, a) \in SUBSET S
                   /\ r[a] = Cardinality(BeforeIn(S, L, a)) /\ r[a] \in Nat
  <2> TAKE a \in S
  <2>1. BeforeIn(S, L, a) \in SUBSET S
    BY DEF BeforeIn
  <2>2. IsFiniteSet(BeforeIn(S, L, a))
    BY <2>1, FS_Subset
  <2> QED BY <2>1, <2>2, FS_CardinalityType DEF Rank
<1>3. ASSUME NEW a \in S, NEW b \in S, <<a, b>> \in L
      PROVE  r[a] < r[b]
  <2>1. BeforeIn(S, L, a) \in SUBSET BeforeIn(S, L, b)
    BY <1>3 DEF BeforeIn, StrictTotal
  <2>2. a \in BeforeIn(S, L, b) /\ a \notin BeforeIn(S, L, a)
    BY <1>3 DEF BeforeIn, StrictTotal
  <2>3. /\ r[a] <= r[b]
        /\ r[a] = r[b] => BeforeIn(S, L, a) = BeforeIn(S, L, b)
    BY <1>2, <2>1, FS_Subset
  <2> QED BY <1>2, <2>2, <2>3
<1>4. \A a, b \in S : <<a, b>> \in L <=> r[a] < r[b]
  <2> TAKE a, b \in S
  <2>1. a = b \/ <<a, b>> \in L \/ <<b, a>> \in L
    BY DEF StrictTotal
  <2>2. <<a, a>> \notin L
    BY DEF StrictTotal
  <2> QED BY <1>2, <1>3, <2>1, <2>2
<1>5. \A a \in S : r[a] \in 0..(n - 1)
  <2> TAKE a \in S
  <2>1. a \notin BeforeIn(S, L, a)
    BY DEF BeforeIn, StrictTotal
  <2>2. r[a] <= n /\ (r[a] = n => BeforeIn(S, L, a) = S)
    BY <1>2, FS_Subset
  <2> QED BY <1>1, <1>2, <2>1, <2>2
<1>6. r \in [S -> 0..(n - 1)]
  BY <1>5 DEF Rank
<1>7. r \in Injection(S, 0..(n - 1))
  <2>1. \A a, b \in S : r[a] = r[b] => a = b
    <3> TAKE a, b \in S
    <3>1. a = b \/ <<a, b>> \in L \/ <<b, a>> \in L
      BY DEF StrictTotal
    <3> QED BY <1>2, <1>3, <3>1
  <2> HIDE DEF r
  <2> QED BY <1>6, <2>1 DEF Injection, IsInjective
<1>8. IsFiniteSet(0..(n - 1)) /\ Cardinality(0..(n - 1)) = n
  BY <1>1, FS_Interval
<1>9. r \in Surjection(S, 0..(n - 1))
  BY <1>7, <1>8, FS_Injection
<1> HIDE DEF r
<1>10. r \in Bijection(S, 0..(n - 1))
  BY <1>7, <1>9 DEF Bijection
<1> QED BY <1>4, <1>10 DEF r

(* There are k elements of the first k ranks, or all there are. *)
LEMMA FirstRanks ==
  ASSUME NEW S, IsFiniteSet(S), NEW L, StrictTotal(S, L), NEW k \in Nat
  PROVE  LET F == {x \in S : Rank(S, L)[x] < k}
         IN  /\ IsFiniteSet(F)
             /\ Cardinality(F) <= k
             /\ k <= Cardinality(S) => Cardinality(F) = k
<1> DEFINE r == Rank(S, L)
           n == Cardinality(S)
           F == {x \in S : r[x] < k}
           g == [i \in 0..(k - 1) |-> CHOOSE x \in S : r[x] = i]
           h == [x \in F |-> r[x]]
<1>1. n \in Nat /\ r \in Bijection(S, 0..(n - 1))
  BY FS_CardinalityType, Ranks
<1>2. /\ r \in [S -> 0..(n - 1)]
      /\ \A a, b \in S : r[a] = r[b] => a = b
      /\ \A i \in 0..(n - 1) : \E a \in S : r[a] = i
  BY <1>1 DEF Bijection, Injection, Surjection, IsInjective
<1> HIDE DEF r
<1>3. IsFiniteSet(F) /\ Cardinality(F) \in Nat
  BY FS_Subset, FS_CardinalityType
<1>4. IsFiniteSet(0..(k - 1)) /\ Cardinality(0..(k - 1)) = k
  BY FS_Interval
<1>5. h \in Injection(F, 0..(k - 1))
  <2>1. h \in [F -> 0..(k - 1)]
    BY <1>1, <1>2
  <2>2. \A a, b \in F : h[a] = h[b] => a = b
    BY <1>2
  <2> HIDE DEF h
  <2> QED BY <2>1, <2>2 DEF Injection, IsInjective
<1>6. /\ Cardinality(F) <= k
      /\ Cardinality(F) = k <=> h \in Surjection(F, 0..(k - 1))
  BY <1>4, <1>5, FS_Injection
<1>7. ASSUME k <= n
      PROVE  h \in Surjection(F, 0..(k - 1))
  <2>1. \A i \in 0..(k - 1) : \E a \in F : h[a] = i
    <3> TAKE i \in 0..(k - 1)
    <3>1. i \in 0..(n - 1) /\ i < k
      BY <1>1, <1>7
    <3>2. PICK a \in S : r[a] = i
      BY <1>2, <3>1
    <3> QED BY <3>1, <3>2
  <2>2. h \in [F -> 0..(k - 1)]
    BY <1>5 DEF Injection
  <2> HIDE DEF h, F
  <2> QED BY <2>1, <2>2 DEF Surjection
<1> QED BY <1>3, <1>6, <1>7 DEF r

(* A finite set that is not empty has a first element. *)
LEMMA FirstOne ==
  ASSUME NEW S, IsFiniteSet(S), NEW L, StrictTotal(S, L), S # {}
  PROVE  \E x \in S : /\ Rank(S, L)[x] = 0
                      /\ \A y \in S : y = x \/ <<x, y>> \in L
<1> DEFINE r == Rank(S, L)
           n == Cardinality(S)
<1>1. n \in Nat /\ n # 0
  BY FS_CardinalityType, FS_EmptySet
<1>2. r \in Bijection(S, 0..(n - 1)) /\ \A a, b \in S : <<a, b>> \in L <=> r[a] < r[b]
  BY Ranks
<1>3. /\ r \in [S -> 0..(n - 1)]
      /\ \A a, b \in S : r[a] = r[b] => a = b
      /\ \A i \in 0..(n - 1) : \E a \in S : r[a] = i
  BY <1>2 DEF Bijection, Injection, Surjection, IsInjective
<1> HIDE DEF r
<1>4. PICK x \in S : r[x] = 0
  BY <1>1, <1>3
<1>5. \A y \in S : y = x \/ <<x, y>> \in L
  BY <1>2, <1>3, <1>4
<1> QED BY <1>4, <1>5 DEF r

-----------------------------------------------------------------------------
\* A graph: finitely many nodes, some pairs of them, and their weights.
Weighted(nodes, pairs, sim) ==
    /\ nodes \in SUBSET Int /\ IsFiniteSet(nodes)
    /\ pairs \in SUBSET PairsOf(nodes)
    /\ \A p \in pairs : sim[p] \in Int

ByNearness(pairs, sim, n) ==
    {x \in Neighbours(pairs, n) \X Neighbours(pairs, n) : Nearer(sim, n, x[1], x[2])}

(* A pair read from either of its ends. *)
LEMMA PairEnds ==
  ASSUME NEW nodes \in SUBSET Int, NEW p \in PairsOf(nodes)
  PROVE  /\ p = <<p[1], p[2]>> /\ p[1] \in nodes /\ p[2] \in nodes /\ p[1] < p[2]
         /\ Pair(p[1], p[2]) = p /\ Pair(p[2], p[1]) = p
<1>1. p \in nodes \X nodes /\ p[1] < p[2]
  BY DEF PairsOf
<1>2. p = <<p[1], p[2]>> /\ p[1] \in nodes /\ p[2] \in nodes
  BY <1>1
<1>3. p[1] \in Int /\ p[2] \in Int
  BY <1>2
<1>4. Pair(p[1], p[2]) = <<p[1], p[2]>> /\ Pair(p[2], p[1]) = <<p[1], p[2]>>
  BY <1>1, <1>3 DEF Pair
<1> QED BY <1>1, <1>2, <1>4

(* The neighbours of a node are the other ends of its pairs. *)
LEMMA NeighbourPairs ==
  ASSUME NEW nodes, NEW pairs, NEW sim, Weighted(nodes, pairs, sim), NEW n \in nodes
  PROVE  /\ Neighbours(pairs, n) \in SUBSET (nodes \ {n})
         /\ IsFiniteSet(Neighbours(pairs, n))
         /\ \A m \in Neighbours(pairs, n) :
              /\ Pair(n, m) \in pairs /\ sim[Pair(n, m)] \in Int
              /\ Pair(n, m) \in {<<n, m>>, <<m, n>>}
         /\ \A p \in pairs : /\ p[1] = n => p[2] \in Neighbours(pairs, n)
                             /\ p[2] = n => p[1] \in Neighbours(pairs, n)
<1>1. nodes \in SUBSET Int /\ pairs \in SUBSET PairsOf(nodes) /\ IsFiniteSet(nodes)
  BY DEF Weighted
<1>2. \A p \in pairs : /\ p[1] \in nodes /\ p[2] \in nodes /\ p[1] # p[2]
                       /\ Pair(p[1], p[2]) = p /\ Pair(p[2], p[1]) = p
  BY <1>1, PairEnds
<1>3. Neighbours(pairs, n) \in SUBSET (nodes \ {n})
  BY <1>2 DEF Neighbours
<1>4. IsFiniteSet(Neighbours(pairs, n))
  <2>1. Neighbours(pairs, n) \in SUBSET nodes
    BY <1>3
  <2> QED BY <1>1, <2>1, FS_Subset
<1>5. ASSUME NEW m \in Neighbours(pairs, n)
      PROVE  /\ Pair(n, m) \in pairs /\ sim[Pair(n, m)] \in Int
             /\ Pair(n, m) \in {<<n, m>>, <<m, n>>}
  BY DEF Neighbours, Weighted, Pair
<1>6. ASSUME NEW p \in pairs
      PROVE  /\ p[1] = n => p[2] \in Neighbours(pairs, n)
             /\ p[2] = n => p[1] \in Neighbours(pairs, n)
  BY <1>2 DEF Neighbours
<1> QED BY <1>3, <1>4, <1>5, <1>6

(* A node's neighbours have an order, the nearest K of which it wants. *)
LEMMA NearestFirst ==
  ASSUME NEW nodes, NEW pairs, NEW sim, Weighted(nodes, pairs, sim), NEW n \in nodes, NEW K
  PROVE  /\ StrictTotal(Neighbours(pairs, n), ByNearness(pairs, sim, n))
         /\ Nearest(pairs, sim, n, K) =
              {m \in Neighbours(pairs, n) :
                 Rank(Neighbours(pairs, n), ByNearness(pairs, sim, n))[m] < K}
<1> DEFINE N == Neighbours(pairs, n)
           L == ByNearness(pairs, sim, n)
<1>1. \A m \in N : m \in Int /\ sim[Pair(n, m)] \in Int
  BY NeighbourPairs DEF Weighted
<1>2. \A a, b \in N : <<a, b>> \in L <=> Nearer(sim, n, a, b)
  BY DEF ByNearness
<1>3. StrictTotal(N, L)
  <2> HIDE DEF N, L
  <2> QED BY <1>1, <1>2 DEF StrictTotal, Nearer
<1>4. \A m \in N : Rank(N, L)[m] = Cardinality({o \in N : Nearer(sim, n, o, m)})
  <2> TAKE m \in N
  <2>1. BeforeIn(N, L, m) = {o \in N : Nearer(sim, n, o, m)}
    BY <1>2 DEF BeforeIn
  <2> QED BY <2>1 DEF Rank
<1> QED BY <1>3, <1>4 DEF Nearest

(* What a graph keeps is some of its pairs. *)
LEMMA KeptAre ==
  ASSUME NEW nodes, NEW pairs, NEW sim, Weighted(nodes, pairs, sim), NEW K
  PROVE  /\ KeptPairs(nodes, pairs, sim, K) \in SUBSET pairs
         /\ IsFiniteSet(KeptPairs(nodes, pairs, sim, K)) /\ IsFiniteSet(pairs)
<1>1. KeptPairs(nodes, pairs, sim, K) \in SUBSET pairs
  <2> SUFFICES ASSUME NEW n \in nodes, NEW m \in Nearest(pairs, sim, n, K)
               PROVE  Pair(n, m) \in pairs
    BY DEF KeptPairs
  <2>1. m \in Neighbours(pairs, n)
    BY DEF Nearest
  <2> QED BY <2>1, NeighbourPairs
<1>2. IsFiniteSet(nodes \X nodes)
  BY FS_Product DEF Weighted
<1>3. pairs \in SUBSET (nodes \X nodes)
  BY DEF Weighted, PairsOf
<1> QED BY <1>1, <1>2, <1>3, FS_Subset

\* The pairs of a node that are at least as strong as p.
Rivals(kept, sim, n, p) == {l \in kept : n \in {l[1], l[2]} /\ sim[l] >= sim[p]}

(* A pair is dropped only when each of its ends has K kept pairs that are at *)
(* least as strong. *)
LEMMA DroppedForStronger ==
  ASSUME NEW nodes, NEW pairs, NEW sim, Weighted(nodes, pairs, sim), NEW K \in Nat,
         NEW p \in pairs \ KeptPairs(nodes, pairs, sim, K), NEW n \in {p[1], p[2]}
  PROVE  LET D == Rivals(KeptPairs(nodes, pairs, sim, K), sim, n, p)
         IN  IsFiniteSet(D) /\ Cardinality(D) >= K
<1> DEFINE N == Neighbours(pairs, n)
           L == ByNearness(pairs, sim, n)
           F == {o \in N : Rank(N, L)[o] < K}
           kept == KeptPairs(nodes, pairs, sim, K)
           D == Rivals(kept, sim, n, p)
           f == [o \in F |-> Pair(n, o)]
<1>1. /\ p[1] \in nodes /\ p[2] \in nodes /\ p[1] # p[2]
      /\ Pair(p[1], p[2]) = p /\ Pair(p[2], p[1]) = p
  BY PairEnds DEF Weighted
<1>2. n \in nodes
  BY <1>1
<1>3. PICK m \in N : Pair(n, m) = p
  BY <1>1, <1>2, NeighbourPairs
<1>4. /\ StrictTotal(N, L) /\ IsFiniteSet(N)
      /\ F = Nearest(pairs, sim, n, K)
  BY <1>2, NearestFirst, NeighbourPairs
<1>5. m \notin F
  BY <1>2, <1>3, <1>4 DEF KeptPairs
<1>6. /\ Rank(N, L) \in [N -> 0..(Cardinality(N) - 1)]
      /\ \A a, b \in N : <<a, b>> \in L <=> Rank(N, L)[a] < Rank(N, L)[b]
      /\ Cardinality(N) \in Nat
  BY <1>4, Ranks, FS_CardinalityType DEF Bijection, Injection
<1>7. Cardinality(F) = K /\ IsFiniteSet(F)
  <2>1. Rank(N, L)[m] >= K /\ Rank(N, L)[m] <= Cardinality(N) - 1
    BY <1>5, <1>6
  <2>2. K <= Cardinality(N)
    BY <1>6, <2>1
  <2> QED BY <1>4, <2>2, FirstRanks
<1>8. \A o \in F : /\ Pair(n, o) \in D
                   /\ Pair(n, o) \in {<<n, o>>, <<o, n>>} /\ o # n
  <2> TAKE o \in F
  <2>1. o \in N /\ Rank(N, L)[o] < Rank(N, L)[m]
    BY <1>5, <1>6
  <2>2. Nearer(sim, n, o, m)
    BY <1>6, <2>1 DEF ByNearness
  <2>3. Pair(n, o) \in kept
    BY <1>2, <1>4 DEF KeptPairs
  <2>4. /\ o # n /\ Pair(n, o) \in {<<n, o>>, <<o, n>>}
        /\ sim[Pair(n, o)] \in Int /\ sim[Pair(n, m)] \in Int
    BY <1>2, <2>1, NeighbourPairs
  <2>5. sim[Pair(n, o)] >= sim[p]
    BY <1>3, <2>2, <2>4 DEF Nearer
  <2> QED BY <2>3, <2>4, <2>5 DEF Rivals
<1>9. f \in Injection(F, D)
  <2>1. \A a, b \in F : f[a] = f[b] => a = b
    BY <1>8
  <2>2. f \in [F -> D]
    BY <1>8
  <2> HIDE DEF f, F, D
  <2> QED BY <2>1, <2>2 DEF Injection, IsInjective
<1>10. IsFiniteSet(D)
  <2>1. D \in SUBSET kept /\ IsFiniteSet(kept)
    BY KeptAre DEF Rivals
  <2> QED BY <2>1, FS_Subset
<1> HIDE DEF f, F, D
<1> QED BY <1>7, <1>9, <1>10, FS_Injection DEF D

(* Each node asks for K pairs at most, so no more than K times the nodes are *)
(* kept. *)
LEMMA KeptFew ==
  ASSUME NEW nodes, NEW pairs, NEW sim, Weighted(nodes, pairs, sim), NEW K \in Nat
  PROVE  Cardinality(KeptPairs(nodes, pairs, sim, K)) <= K * Cardinality(nodes)
<1> DEFINE kept == KeptPairs(nodes, pairs, sim, K)
           R(v) == Rank(Neighbours(pairs, v), ByNearness(pairs, sim, v))
           T == {x \in nodes \X (0..(K - 1)) :
                   \E m \in Nearest(pairs, sim, x[1], K) : R(x[1])[m] = x[2]}
           g == [x \in T |-> Pair(x[1], CHOOSE m \in Nearest(pairs, sim, x[1], K) :
                                            R(x[1])[m] = x[2])]
<1>1. /\ IsFiniteSet(nodes \X (0..(K - 1)))
      /\ Cardinality(nodes \X (0..(K - 1))) = Cardinality(nodes) * K
      /\ Cardinality(nodes) \in Nat
  <2>1. IsFiniteSet(0..(K - 1)) /\ Cardinality(0..(K - 1)) = K
    BY FS_Interval
  <2>2. IsFiniteSet(nodes)
    BY DEF Weighted
  <2> QED BY <2>1, <2>2, FS_Product, FS_CardinalityType
<1>2. IsFiniteSet(T) /\ Cardinality(T) <= Cardinality(nodes) * K
  <2>1. T \in SUBSET (nodes \X (0..(K - 1)))
    OBVIOUS
  <2> HIDE DEF T
  <2> QED BY <1>1, <2>1, FS_Subset
<1>3. ASSUME NEW n \in nodes, NEW m \in Nearest(pairs, sim, n, K)
      PROVE  <<n, R(n)[m]>> \in T /\ g[<<n, R(n)[m]>>] = Pair(n, m)
  <2> DEFINE x == <<n, R(n)[m]>>
  <2>1. /\ StrictTotal(Neighbours(pairs, n), ByNearness(pairs, sim, n))
        /\ IsFiniteSet(Neighbours(pairs, n))
        /\ Nearest(pairs, sim, n, K) = {o \in Neighbours(pairs, n) : R(n)[o] < K}
    BY NearestFirst, NeighbourPairs
  <2>2. /\ R(n) \in [Neighbours(pairs, n) -> 0..(Cardinality(Neighbours(pairs, n)) - 1)]
        /\ \A a, b \in Neighbours(pairs, n) : R(n)[a] = R(n)[b] => a = b
    BY <2>1, Ranks DEF Bijection, Injection, IsInjective
  <2>3. R(n)[m] \in 0..(K - 1)
    <3>1. m \in Neighbours(pairs, n) /\ R(n)[m] < K
      BY <2>1
    <3>2. R(n)[m] \in 0..(Cardinality(Neighbours(pairs, n)) - 1)
      BY <2>2, <3>1
    <3>3. Cardinality(Neighbours(pairs, n)) \in Nat
      BY <2>1, FS_CardinalityType
    <3> HIDE DEF R
    <3> QED BY <3>1, <3>2, <3>3
  <2>4. x \in T
    BY <2>3
  <2>5. (CHOOSE o \in Nearest(pairs, sim, x[1], K) : R(x[1])[o] = x[2]) = m
    BY <2>1, <2>2
  <2> QED BY <2>4, <2>5
<1>4. g \in Surjection(T, kept)
  <2>1. \A p \in kept : \E x \in T : g[x] = p
    <3> TAKE p \in kept
    <3>1. PICK n \in nodes : \E m \in Nearest(pairs, sim, n, K) : p = Pair(n, m)
      BY DEF KeptPairs
    <3>2. PICK m \in Nearest(pairs, sim, n, K) : p = Pair(n, m)
      BY <3>1
    <3> QED BY <1>3, <3>2
  <2>2. g \in [T -> kept]
    <3>1. ASSUME NEW x \in T
          PROVE  Pair(x[1], CHOOSE m \in Nearest(pairs, sim, x[1], K) : R(x[1])[m] = x[2])
                   \in kept
      <4>1. x[1] \in nodes /\ \E m \in Nearest(pairs, sim, x[1], K) : R(x[1])[m] = x[2]
        OBVIOUS
      <4> DEFINE m == CHOOSE m \in Nearest(pairs, sim, x[1], K) : R(x[1])[m] = x[2]
      <4>2. m \in Nearest(pairs, sim, x[1], K)
        BY <4>1
      <4> HIDE DEF m
      <4>3. Pair(x[1], m) \in kept
        BY <4>1, <4>2 DEF KeptPairs
      <4> QED BY <4>3 DEF m
    <3> HIDE DEF T, R
    <3> QED BY <3>1
  <2> HIDE DEF g, T
  <2> QED BY <2>1, <2>2 DEF Surjection
<1>5. Cardinality(kept) <= Cardinality(T) /\ IsFiniteSet(kept)
  BY <1>2, <1>4, FS_Surjection
<1>6. Cardinality(kept) \in Nat /\ Cardinality(T) \in Nat /\ Cardinality(nodes) * K = K * Cardinality(nodes)
  BY <1>1, <1>2, <1>5, FS_CardinalityType
<1> HIDE DEF kept, T
<1>7. Cardinality(kept) <= K * Cardinality(nodes)
  BY <1>1, <1>2, <1>5, <1>6
<1> QED BY <1>7 DEF kept

ByWeight(sim, S) == {x \in S \X S : Stronger(sim, x[1], x[2])}

(* Sorting lists each pair once, the strongest first. *)
LEMMA SortedOnce ==
  ASSUME NEW nodes, NEW S, NEW sim, Weighted(nodes, S, sim), IsFiniteSet(S)
  PROVE  LET links == ByStrength(sim, S)
         IN  /\ Len(links) = Cardinality(S) /\ Range(links) = S
             /\ links \in [1..Cardinality(S) -> S]
             /\ \A i, j \in 1..Cardinality(S) : i < j => Stronger(sim, links[i], links[j])
<1> DEFINE L == ByWeight(sim, S)
           n == Cardinality(S)
           r == Rank(S, L)
           links == ByStrength(sim, S)
<1>1. n \in Nat
  BY FS_CardinalityType
<1>2. \A a, b \in S : <<a, b>> \in L <=> Stronger(sim, a, b)
  BY DEF ByWeight
<1>3. \A p \in S : p = <<p[1], p[2]>> /\ p[1] \in Int /\ p[2] \in Int /\ sim[p] \in Int
  <2> TAKE p \in S
  <2>1. nodes \in SUBSET Int /\ p \in PairsOf(nodes) /\ sim[p] \in Int
    BY DEF Weighted
  <2> QED BY <2>1, PairEnds
<1>4. StrictTotal(S, L)
  <2>1. \A a \in S : ~Stronger(sim, a, a)
    BY <1>3 DEF Stronger
  <2>2. \A a, b \in S : a = b \/ Stronger(sim, a, b) \/ Stronger(sim, b, a)
    BY <1>3 DEF Stronger
  <2>3. \A a, b, c \in S : Stronger(sim, a, b) /\ Stronger(sim, b, c) => Stronger(sim, a, c)
    BY <1>3 DEF Stronger
  <2> QED BY <1>2, <2>1, <2>2, <2>3 DEF StrictTotal
<1>5. /\ r \in [S -> 0..(n - 1)]
      /\ \A a, b \in S : r[a] = r[b] => a = b
      /\ \A i \in 0..(n - 1) : \E a \in S : r[a] = i
      /\ \A a, b \in S : <<a, b>> \in L <=> r[a] < r[b]
  BY <1>4, Ranks DEF Bijection, Injection, Surjection, IsInjective
<1>6. \A p \in S : r[p] = Cardinality({q \in S : Stronger(sim, q, p)})
  <2> TAKE p \in S
  <2>1. BeforeIn(S, L, p) = {q \in S : Stronger(sim, q, p)}
    BY <1>2 DEF BeforeIn
  <2> QED BY <2>1 DEF Rank
<1> HIDE DEF r, L
<1>7. links = [i \in 1..n |-> CHOOSE p \in S : r[p] = i - 1]
  BY <1>6 DEF ByStrength
<1>8. \A i \in 1..n : links[i] \in S /\ r[links[i]] = i - 1
  <2> TAKE i \in 1..n
  <2>1. i - 1 \in 0..(n - 1)
    BY <1>1
  <2>2. PICK p \in S : r[p] = i - 1
    BY <1>5, <2>1
  <2> QED BY <1>7, <2>2
<1>9. links \in [1..n -> S]
  BY <1>7, <1>8
<1>10. Len(links) = n
  BY <1>1, <1>9
<1>11. Range(links) = S
  <2>1. \A p \in S : \E i \in 1..n : links[i] = p
    <3> TAKE p \in S
    <3>1. r[p] + 1 \in 1..n
      BY <1>1, <1>5
    <3>2. r[links[r[p] + 1]] = r[p]
      BY <1>5, <1>8, <3>1
    <3> QED BY <1>5, <1>8, <3>1, <3>2
  <2> QED BY <1>8, <1>9, <2>1 DEF Range
<1>12. \A i, j \in 1..n : i < j => Stronger(sim, links[i], links[j])
  <2> TAKE i, j \in 1..n
  <2> HAVE i < j
  <2>1. r[links[i]] < r[links[j]] /\ links[i] \in S /\ links[j] \in S
    BY <1>1, <1>8
  <2> QED BY <1>2, <1>5, <2>1
<1> QED BY <1>9, <1>10, <1>11, <1>12

(* The links between regions, and between chunks, for any number of them, any *)
(* similarities and any K: only pairs similar enough are linked, the *)
(* strongest first and each once, a pair is left out only when both its ends *)
(* have K links at least as strong, and K times the nodes is the most there *)
(* are (link.go BuildLinks, graph.go BuildChunkEdges). *)
THEOREM LinksRight ==
  ASSUME NEW nodes \in SUBSET Int, IsFiniteSet(nodes), NEW sim \in [PairsOf(nodes) -> Int],
         NEW K \in Nat, NEW minWeight \in Int
  PROVE  LinksSound(nodes, sim, K, minWeight)
<1> DEFINE pairs == Similar(nodes, sim, minWeight)
           kept == KeptPairs(nodes, pairs, sim, K)
           links == BuildLinks(nodes, sim, K, minWeight)
           n == Cardinality(kept)
<1>1. Weighted(nodes, pairs, sim) /\ \A p \in pairs : sim[p] >= minWeight
  BY DEF Weighted, Similar
<1>2. kept \in SUBSET pairs /\ IsFiniteSet(kept)
  BY <1>1, KeptAre
<1>3. Weighted(nodes, kept, sim)
  BY <1>1, <1>2 DEF Weighted
<1>4. n \in Nat
  BY <1>2, FS_CardinalityType
<1>5. /\ Len(links) = n /\ Range(links) = kept /\ links \in [1..n -> kept]
      /\ \A i, j \in 1..n : i < j => Stronger(sim, links[i], links[j])
  BY <1>2, <1>3, SortedOnce DEF BuildLinks
<1>6. \A l \in kept : l[1] < l[2] /\ sim[l] >= minWeight
  BY <1>1, <1>2, PairEnds DEF Weighted
<1>7. ASSUME NEW i \in 1..(n - 1)
      PROVE  sim[links[i]] >= sim[links[i + 1]]
  <2>1. i \in 1..n /\ i + 1 \in 1..n /\ i < i + 1
    BY <1>4
  <2>2. Stronger(sim, links[i], links[i + 1]) /\ links[i] \in kept /\ links[i + 1] \in kept
    BY <1>5, <2>1
  <2>3. sim[links[i]] \in Int /\ sim[links[i + 1]] \in Int
    BY <1>3, <2>2 DEF Weighted
  <2> QED BY <2>2, <2>3 DEF Stronger
<1>8. ASSUME NEW p \in pairs, p \notin kept, NEW m \in {p[1], p[2]}
      PROVE  Cardinality({l \in {k \in kept : m \in {k[1], k[2]}} : sim[l] >= sim[p]}) >= K
  <2>1. Cardinality(Rivals(kept, sim, m, p)) >= K
    BY <1>1, <1>8, DroppedForStronger
  <2>2. {l \in {k \in kept : m \in {k[1], k[2]}} : sim[l] >= sim[p]} = Rivals(kept, sim, m, p)
    BY DEF Rivals
  <2> QED BY <2>1, <2>2
<1>9. n <= K * Cardinality(nodes)
  BY <1>1, KeptFew
<1> HIDE DEF kept, links, pairs, n
<1>10. n = Cardinality(kept)
  BY DEF n
<1> QED BY <1>5, <1>6, <1>7, <1>8, <1>9, <1>10 DEF LinksSound, links, pairs

-----------------------------------------------------------------------------
ByShare(regionOf, fileOf, file) ==
    {x \in RegionsOf(regionOf, fileOf, file) \X RegionsOf(regionOf, fileOf, file) :
       Ahead(regionOf, fileOf, file, x[1], x[2])}

(* The regions of a file are finitely many, and its shares put them in order. *)
LEMMA SharesOrder ==
  ASSUME NEW fileOf, IsFiniteSet(DOMAIN fileOf), NEW regionOf \in [DOMAIN fileOf -> Int],
         NEW file
  PROVE  LET H == RegionsOf(regionOf, fileOf, file)
             L == ByShare(regionOf, fileOf, file)
         IN  /\ IsFiniteSet(H) /\ StrictTotal(H, L)
             /\ \A r \in H : /\ Count(regionOf, fileOf, file, r) \in Nat
                             /\ Place(regionOf, fileOf, file, r) = Rank(H, L)[r]
             /\ \A r, s \in H : <<r, s>> \in L <=> Ahead(regionOf, fileOf, file, r, s)
<1> DEFINE H == RegionsOf(regionOf, fileOf, file)
           L == ByShare(regionOf, fileOf, file)
           C == {x \in DOMAIN fileOf : fileOf[x] = file}
           f == [c \in C |-> regionOf[c]]
<1>1. IsFiniteSet(C)
  <2>1. C \in SUBSET DOMAIN fileOf
    OBVIOUS
  <2> QED BY <2>1, FS_Subset
<1>2. f \in Surjection(C, H)
  BY DEF Surjection, RegionsOf
<1>3. IsFiniteSet(H)
  BY <1>1, <1>2, FS_Surjection
<1>4. H \subseteq Int
  BY DEF RegionsOf
<1>5. \A r \in H : Count(regionOf, fileOf, file, r) \in Nat
  <2> TAKE r \in H
  <2> DEFINE D == {c \in DOMAIN fileOf : fileOf[c] = file /\ regionOf[c] = r}
  <2>1. D \in SUBSET DOMAIN fileOf
    OBVIOUS
  <2>2. IsFiniteSet(D)
    BY <2>1, FS_Subset
  <2> QED BY <2>2, FS_CardinalityType DEF Count
<1>6. \A r, s \in H : <<r, s>> \in L <=> Ahead(regionOf, fileOf, file, r, s)
  BY DEF ByShare
<1> HIDE DEF H, L
<1>7. StrictTotal(H, L)
  BY <1>4, <1>5, <1>6 DEF StrictTotal, Ahead
<1>8. \A r \in H : Place(regionOf, fileOf, file, r) = Rank(H, L)[r]
  <2> TAKE r \in H
  <2>1. BeforeIn(H, L, r) = {s \in H : Ahead(regionOf, fileOf, file, s, r)}
    BY <1>6 DEF BeforeIn
  <2> QED BY <2>1 DEF Rank, Place, H
<1> QED BY <1>3, <1>5, <1>6, <1>7, <1>8 DEF H, L

(* Every transcript has a colour, for any chunks in any regions: at least the *)
(* region of most of its chunks, no more than maxExtra others, and no region *)
(* with fewer of its chunks than one it is not tagged with (graph.go *)
(* TagFiles). *)
THEOREM TagsRight ==
  ASSUME NEW fileOf, IsFiniteSet(DOMAIN fileOf), NEW regionOf \in [DOMAIN fileOf -> Int],
         NEW minShare \in Int, NEW margin \in Int, NEW maxExtra \in Nat
  PROVE  TagsSound(regionOf, fileOf, minShare, margin, maxExtra)
<1> SUFFICES ASSUME NEW file \in {fileOf[c] : c \in DOMAIN fileOf}
             PROVE  LET tags == TagFiles(regionOf, fileOf, file, minShare, margin, maxExtra)
                    IN  /\ Cardinality(tags) \in 1..(maxExtra + 1)
                        /\ \A t \in tags, r \in RegionsOf(regionOf, fileOf, file) \ tags :
                             Count(regionOf, fileOf, file, t) >= Count(regionOf, fileOf, file, r)
  BY DEF TagsSound
<1> DEFINE H == RegionsOf(regionOf, fileOf, file)
           L == ByShare(regionOf, fileOf, file)
           tags == TagFiles(regionOf, fileOf, file, minShare, margin, maxExtra)
           count == [r \in H |-> Count(regionOf, fileOf, file, r)]
           F == {r \in H : Rank(H, L)[r] < maxExtra + 1}
           total == Cardinality({c \in DOMAIN fileOf : fileOf[c] = file})
           primary == Primary(regionOf, fileOf, file)
<1>1. /\ IsFiniteSet(H) /\ StrictTotal(H, L)
      /\ \A r \in H : /\ Count(regionOf, fileOf, file, r) \in Nat
                      /\ Place(regionOf, fileOf, file, r) = Rank(H, L)[r]
      /\ \A r, s \in H : <<r, s>> \in L <=> Ahead(regionOf, fileOf, file, r, s)
  BY SharesOrder
<1>2. total \in Nat
  <2>1. {c \in DOMAIN fileOf : fileOf[c] = file} \in SUBSET DOMAIN fileOf
    OBVIOUS
  <2> QED BY <2>1, FS_Subset, FS_CardinalityType
<1>3. H # {}
  BY DEF RegionsOf
<1>4. primary \in H /\ Rank(H, L)[primary] = 0
  <2>1. PICK r \in H : Rank(H, L)[r] = 0
    BY <1>1, <1>3, FirstOne
  <2>2. Place(regionOf, fileOf, file, r) = 0
    BY <1>1, <2>1
  <2>3. primary \in H /\ Place(regionOf, fileOf, file, primary) = 0
    BY <2>2 DEF Primary
  <2> QED BY <1>1, <2>3
<1>5. /\ Rank(H, L) \in [H -> 0..(Cardinality(H) - 1)]
      /\ \A a, b \in H : <<a, b>> \in L <=> Rank(H, L)[a] < Rank(H, L)[b]
  BY <1>1, Ranks DEF Bijection, Injection
<1>6. tags = {r \in H : \/ r = primary
                        \/ /\ Rank(H, L)[r] <= maxExtra
                           /\ 100 * count[r] >= minShare * total
                           /\ 100 * count[r] >= 100 * count[primary] - margin * total}
  BY <1>1, <1>4 DEF TagFiles
<1>7. \A r \in H : count[r] \in Nat
  BY <1>1
<1>8. \A r, s \in H : count[r] > count[s] => <<r, s>> \in L
  BY <1>1 DEF Ahead
<1>9. Cardinality(tags) \in 1..(maxExtra + 1)
  <2>1. IsFiniteSet(F) /\ Cardinality(F) <= maxExtra + 1
    BY <1>1, FirstRanks
  <2>2. tags \in SUBSET F
    BY <1>4, <1>5, <1>6
  <2>3. IsFiniteSet(tags) /\ Cardinality(tags) <= Cardinality(F)
    BY <2>1, <2>2, FS_Subset
  <2>4. Cardinality(tags) # 0
    BY <1>4, <1>6, <2>3, FS_EmptySet
  <2>5. Cardinality(tags) \in Nat /\ Cardinality(F) \in Nat
    BY <2>1, <2>3, FS_CardinalityType
  <2> HIDE DEF tags, F
  <2> QED BY <2>1, <2>3, <2>4, <2>5
<1>10. ASSUME NEW t \in tags, NEW r \in H \ tags
       PROVE  count[t] >= count[r]
  <2> HIDE DEF count, H, L, total, primary
  <2>1. SUFFICES ASSUME count[r] > count[t] PROVE FALSE
    <3>1. t \in H /\ r \in H
      BY <1>6
    <3> QED BY <1>7, <3>1
  <2>2. t \in H /\ r \in H /\ Rank(H, L)[r] < Rank(H, L)[t]
    BY <1>5, <1>6, <1>8, <2>1
  <2>3. Rank(H, L)[r] \in Int /\ Rank(H, L)[t] \in Int /\ Rank(H, L)[r] >= 0
    BY <1>5, <2>2
  <2>4. t # primary
    BY <1>4, <2>2, <2>3
  <2>5. /\ Rank(H, L)[t] <= maxExtra
        /\ 100 * count[t] >= minShare * total
        /\ 100 * count[t] >= 100 * count[primary] - margin * total
    BY <1>6, <2>4
  <2>6. minShare * total \in Int /\ 100 * count[primary] - margin * total \in Int
    BY <1>2, <1>4, <1>7
  <2>7. count[r] \in Nat /\ count[t] \in Nat
    BY <1>7, <2>2
  <2>8. /\ Rank(H, L)[r] <= maxExtra
        /\ 100 * count[r] >= minShare * total
        /\ 100 * count[r] >= 100 * count[primary] - margin * total
    BY <2>1, <2>2, <2>3, <2>5, <2>6, <2>7
  <2> QED BY <1>6, <2>2, <2>8
<1>11. \A t \in tags : t \in H
  BY <1>6
<1> HIDE DEF tags
<1> QED BY <1>9, <1>10, <1>11 DEF tags

-----------------------------------------------------------------------------
(* A finite set of numbers has a largest. *)
LEMMA Largest ==
  ASSUME NEW S \in SUBSET Int, IsFiniteSet(S), S # {}
  PROVE  \E w \in S : \A v \in S : v <= w
<1> DEFINE L == {x \in S \X S : x[1] > x[2]}
<1>1. \A a, b \in S : <<a, b>> \in L <=> a > b
  OBVIOUS
<1> HIDE DEF L
<1>2. StrictTotal(S, L)
  BY <1>1 DEF StrictTotal
<1>3. PICK w \in S : /\ Rank(S, L)[w] = 0
                     /\ \A v \in S : v = w \/ <<w, v>> \in L
  BY <1>2, FirstOne
<1>4. \A v \in S : v <= w
  <2> TAKE v \in S
  <2>1. v \in Int /\ w \in Int
    OBVIOUS
  <2>2. v = w \/ <<w, v>> \in L
    BY <1>3
  <2>3. v = w \/ w > v
    BY <1>1, <2>2
  <2> QED BY <2>1, <2>3
<1> QED BY <1>4

(* With room for all others, a node wants every pair it has. *)
LEMMA RoomForAll ==
  ASSUME NEW nodes, NEW pairs, NEW sim, Weighted(nodes, pairs, sim),
         NEW K \in Nat, K >= Cardinality(nodes) - 1
  PROVE  KeptPairs(nodes, pairs, sim, K) = pairs
<1> SUFFICES ASSUME NEW p \in pairs PROVE p \in KeptPairs(nodes, pairs, sim, K)
  BY KeptAre
<1> DEFINE n == p[1]
           m == p[2]
           N == Neighbours(pairs, n)
           L == ByNearness(pairs, sim, n)
<1>1. /\ n \in nodes /\ m \in nodes /\ n # m /\ Pair(n, m) = p
      /\ IsFiniteSet(nodes) /\ Cardinality(nodes) \in Nat
  BY PairEnds, FS_CardinalityType DEF Weighted
<1>2. m \in N /\ N \in SUBSET (nodes \ {n}) /\ IsFiniteSet(N)
  BY <1>1, NeighbourPairs
<1>3. Cardinality(N) <= Cardinality(nodes) - 1 /\ Cardinality(N) \in Nat
  <2>1. IsFiniteSet(nodes \ {n}) /\ Cardinality(nodes \ {n}) = Cardinality(nodes) - 1
    BY <1>1, FS_RemoveElement
  <2>2. Cardinality(N) <= Cardinality(nodes \ {n})
    BY <1>2, <2>1, FS_Subset
  <2> QED BY <1>2, <2>1, <2>2, FS_CardinalityType
<1>4. StrictTotal(N, L) /\ Nearest(pairs, sim, n, K) = {o \in N : Rank(N, L)[o] < K}
  BY <1>1, NearestFirst
<1>5. Rank(N, L)[m] \in 0..(Cardinality(N) - 1)
  BY <1>2, <1>4, Ranks DEF Bijection, Injection
<1>6. Rank(N, L)[m] < K
  <2> DEFINE r == Rank(N, L)[m]
             c == Cardinality(N)
             k == Cardinality(nodes)
  <2>1. r \in 0..(c - 1) /\ c \in Nat /\ k \in Nat /\ c <= k - 1 /\ K >= k - 1
    BY <1>1, <1>3, <1>5
  <2> HIDE DEF r, c, k
  <2>2. r < K
    BY <2>1
  <2> QED BY <2>2 DEF r
<1>7. m \in Nearest(pairs, sim, n, K)
  BY <1>2, <1>4, <1>6
<1> QED BY <1>1, <1>7 DEF KeptPairs

\* The pair of files an edge joins.
FilesOf(fileOf, e) == Pair(fileOf[e[1]], fileOf[e[2]])

(* The files two of whose chunks are joined form a graph, and the weight of a *)
(* pair of files is the largest of the edges between them. *)
LEMMA WeightsOfFiles ==
  ASSUME NEW nodes, IsFiniteSet(nodes), NEW fileOf \in [nodes -> Int], NEW sim,
         NEW edges, Weighted(nodes, Range(edges), sim), IsFiniteSet(Range(edges))
  PROVE  LET files == {fileOf[c] : c \in DOMAIN fileOf}
             weight == FileWeights(edges, sim, fileOf)
         IN  /\ Weighted(files, DOMAIN weight, weight)
             /\ \A e \in Across(edges, fileOf) :
                  /\ FilesOf(fileOf, e) \in DOMAIN weight
                  /\ sim[e] <= weight[FilesOf(fileOf, e)]
<1> DEFINE files == {fileOf[c] : c \in DOMAIN fileOf}
           weight == FileWeights(edges, sim, fileOf)
           across == Across(edges, fileOf)
           Weights(p) == {sim[e] : e \in {x \in across : FilesOf(fileOf, x) = p}}
<1>1. weight = [p \in {FilesOf(fileOf, e) : e \in across} |->
                  CHOOSE w \in Weights(p) : \A v \in Weights(p) : v <= w]
  BY DEF FileWeights, FilesOf
<1>2. files \in SUBSET Int /\ IsFiniteSet(files)
  <2> DEFINE f == [c \in nodes |-> fileOf[c]]
  <2>1. f \in Surjection(nodes, files)
    BY DEF Surjection
  <2>2. IsFiniteSet(files)
    BY <2>1, FS_Surjection
  <2> QED BY <2>2
<1>3. across \in SUBSET Range(edges) /\ IsFiniteSet(across)
  <2>1. across \in SUBSET Range(edges)
    BY DEF Across
  <2> QED BY <2>1, FS_Subset
<1>4. ASSUME NEW e \in across
      PROVE  FilesOf(fileOf, e) \in PairsOf(files) /\ sim[e] \in Int
  <2>1. e \in PairsOf(nodes) /\ sim[e] \in Int /\ nodes \in SUBSET Int
    BY <1>3 DEF Weighted
  <2>2. e[1] \in nodes /\ e[2] \in nodes
    BY <2>1, PairEnds
  <2>3. fileOf[e[1]] # fileOf[e[2]]
    BY DEF Across
  <2>4. /\ fileOf[e[1]] \in files /\ fileOf[e[2]] \in files
        /\ fileOf[e[1]] \in Int /\ fileOf[e[2]] \in Int
    BY <2>2
  <2> HIDE DEF files
  <2> QED BY <2>1, <2>3, <2>4 DEF FilesOf, Pair, PairsOf
<1>5. ASSUME NEW e \in across
      PROVE  LET p == FilesOf(fileOf, e)
             IN  /\ p \in DOMAIN weight /\ weight[p] \in Int
                 /\ sim[e] <= weight[p]
  <2> DEFINE p == FilesOf(fileOf, e)
             D == {x \in across : FilesOf(fileOf, x) = p}
             f == [x \in D |-> sim[x]]
  <2>1. sim[e] \in Weights(p) /\ Weights(p) \in SUBSET Int
    BY <1>4
  <2>2. IsFiniteSet(D)
    <3>1. D \in SUBSET across
      OBVIOUS
    <3> HIDE DEF across, D
    <3> QED BY <1>3, <3>1, FS_Subset
  <2>3. f \in Surjection(D, Weights(p))
    BY DEF Surjection
  <2>4. IsFiniteSet(Weights(p))
    BY <2>2, <2>3, FS_Surjection
  <2>5. \E w \in Weights(p) : \A v \in Weights(p) : v <= w
    BY <2>1, <2>4, Largest
  <2>6. p \in DOMAIN weight
        /\ weight[p] = CHOOSE w \in Weights(p) : \A v \in Weights(p) : v <= w
    BY <1>1
  <2>7. weight[p] \in Weights(p) /\ \A v \in Weights(p) : v <= weight[p]
    <3> HIDE DEF Weights, weight
    <3> QED BY <2>5, <2>6
  <2> HIDE DEF Weights, weight
  <2> QED BY <2>1, <2>6, <2>7
<1>6. ASSUME NEW p \in DOMAIN weight
      PROVE  p \in PairsOf(files) /\ weight[p] \in Int
  <2>1. PICK e \in across : p = FilesOf(fileOf, e)
    BY <1>1
  <2> HIDE DEF weight, files
  <2> QED BY <1>4, <1>5, <2>1
<1> HIDE DEF files, weight, across
<1>7. Weighted(files, DOMAIN weight, weight)
  BY <1>2, <1>6 DEF Weighted
<1> QED BY <1>5, <1>7 DEF files, weight, across

(* The links between transcripts, for any chunks, similarities and files: the *)
(* weight of two transcripts is that of their best pair of passages, and they *)
(* are joined unless both have fileK links that are drawn and at least as *)
(* strong (graph.go BuildTranscriptEdges). *)
THEOREM TranscriptsRight ==
  ASSUME NEW nodes \in SUBSET Int, IsFiniteSet(nodes), NEW sim \in [PairsOf(nodes) -> Int],
         NEW fileOf \in [nodes -> Int], NEW K \in Nat, NEW minWeight \in Int, NEW fileK \in Nat
  PROVE  TranscriptsSound(nodes, sim, fileOf, K, minWeight, fileK)
<1> DEFINE pairs == Similar(nodes, sim, minWeight)
           kept == KeptPairs(nodes, pairs, sim, K)
           edges == BuildChunkEdges(nodes, sim, K, minWeight)
           weight == FileWeights(edges, sim, fileOf)
           files == {fileOf[c] : c \in DOMAIN fileOf}
           keptFiles == KeptPairs(files, DOMAIN weight, weight, fileK)
           drawn == BuildTranscriptEdges(edges, sim, fileOf, fileK)
<1>1. Weighted(nodes, pairs, sim)
  BY DEF Weighted, Similar
<1>2. kept \in SUBSET pairs /\ IsFiniteSet(kept)
  BY <1>1, KeptAre
<1>3. Weighted(nodes, kept, sim)
  BY <1>1, <1>2 DEF Weighted
<1>4. Range(edges) = kept
  BY <1>2, <1>3, SortedOnce DEF BuildChunkEdges, BuildLinks
<1>5. /\ Weighted(files, DOMAIN weight, weight)
      /\ \A e \in Across(edges, fileOf) : /\ FilesOf(fileOf, e) \in DOMAIN weight
                                          /\ sim[e] <= weight[FilesOf(fileOf, e)]
  <2> HIDE DEF edges, kept
  <2> QED BY <1>2, <1>3, <1>4, WeightsOfFiles
<1>6. Range(drawn) = keptFiles
  <2> HIDE DEF weight, files
  <2>1. keptFiles \in SUBSET DOMAIN weight /\ IsFiniteSet(keptFiles)
    BY <1>5, KeptAre
  <2>2. Weighted(files, keptFiles, weight)
    BY <1>5, <2>1 DEF Weighted
  <2>3. drawn = ByStrength(weight, keptFiles)
    BY DEF BuildTranscriptEdges, weight, files
  <2> HIDE DEF keptFiles
  <2> QED BY <2>1, <2>2, <2>3, SortedOnce
<1>7. ASSUME NEW f \in DOMAIN weight, f \notin keptFiles, NEW n \in {f[1], f[2]}
      PROVE  Cardinality({d \in keptFiles : n \in {d[1], d[2]} /\ weight[d] >= weight[f]}) >= fileK
  <2> HIDE DEF weight, files
  <2>1. Cardinality(Rivals(keptFiles, weight, n, f)) >= fileK
    BY <1>5, <1>7, DroppedForStronger
  <2> QED BY <2>1 DEF Rivals
<1>8. ASSUME NEW e \in kept, fileOf[e[1]] # fileOf[e[2]]
      PROVE  /\ FilesOf(fileOf, e) \in DOMAIN weight
             /\ sim[e] <= weight[FilesOf(fileOf, e)]
  <2>1. e \in Across(edges, fileOf)
    BY <1>4, <1>8 DEF Across
  <2> QED BY <1>5, <2>1
<1>9. ASSUME NEW p \in pairs, fileOf[p[1]] # fileOf[p[2]], K >= Cardinality(nodes) - 1
      PROVE  sim[p] <= weight[FilesOf(fileOf, p)]
  <2>1. p \in kept
    BY <1>1, <1>9, RoomForAll
  <2> QED BY <1>8, <1>9, <2>1
<1> HIDE DEF pairs, kept, edges, weight, keptFiles, drawn
<1> QED BY <1>4, <1>6, <1>7, <1>8, <1>9 DEF TranscriptsSound, FilesOf, pairs, edges, weight, drawn

-----------------------------------------------------------------------------
(* Induction, as facts about sets of numbers: what a loop, a fold and a *)
(* recursive function do step by step. *)

(* A set of natural numbers that has a member has a least one. *)
LEMMA Least ==
  ASSUME NEW T \in SUBSET Nat, T # {}
  PROVE  \E x \in T : \A y \in T : x <= y
<1>1. PICK x \in T : \A y \in T : ~(<<y, x>> \in OpToRel(<, Nat))
  BY NatLessThanWellFounded, WFMin
<1>2. \A y \in T : ~(y < x)
  BY <1>1 DEF OpToRel
<1> QED BY <1>2

(* Induction: a set with 0 and with every successor holds all numbers. *)
LEMMA Upto ==
  ASSUME NEW T \in SUBSET Nat, 0 \in T, \A i \in T : i + 1 \in T
  PROVE  T = Nat
<1> SUFFICES ASSUME Nat \ T # {} PROVE FALSE
  OBVIOUS
<1>1. PICK x \in Nat \ T : \A y \in Nat \ T : x <= y
  BY Least
<1>2. x # 0 /\ x - 1 \in Nat
  BY <1>1
<1>3. x - 1 \in T
  BY <1>1, <1>2
<1> QED BY <1>1, <1>2, <1>3

(* Induction up to n, which is how a loop of n steps is reasoned about. *)
LEMMA UptoN ==
  ASSUME NEW n \in Nat, NEW T, 0 \in T, \A i \in 1..n : i - 1 \in T => i \in T
  PROVE  \A i \in 0..n : i \in T
<1> DEFINE U == {i \in Nat : i <= n => i \in T}
<1>1. U = Nat
  <2>1. 0 \in U
    OBVIOUS
  <2>2. ASSUME NEW i \in U PROVE i + 1 \in U
    <3>1. CASE i + 1 <= n
      BY <3>1, i + 1 \in 1..n, (i + 1) - 1 = i
    <3> QED BY <3>1
  <2> HIDE DEF U
  <2>3. U \in SUBSET Nat
    BY DEF U
  <2> QED BY <2>1, <2>2, <2>3, Upto
<1> QED BY <1>1

(* The last of the first k places, if it is among them. *)
LEMMA TopOf ==
  ASSUME NEW k \in Nat, NEW s \in SUBSET (1..k), k \in s
  PROVE  Max(s) = k /\ s \ {k} \in SUBSET (1..(k - 1))
<1>1. \A y \in s : k >= y /\ y \in Int
  OBVIOUS
<1>2. \A x \in s : (\A y \in s : x >= y) => x = k
  BY <1>1
<1>3. Max(s) = k
  BY <1>1, <1>2 DEF Max
<1> QED BY <1>1, <1>3

(* A set of places that has a member has a last one. *)
LEMMA TopIn ==
  ASSUME NEW n \in Nat, NEW s \in SUBSET (1..n), s # {}
  PROVE  Max(s) \in s /\ \A y \in s : y <= Max(s)
<1> DEFINE T == {n - x : x \in s}
<1>1. T \in SUBSET Nat /\ T # {}
  <2>1. ASSUME NEW x \in s PROVE n - x \in Nat
    OBVIOUS
  <2>2. T \in SUBSET Nat
    BY <2>1
  <2>3. PICK x \in s : TRUE
    OBVIOUS
  <2>4. n - x \in T
    BY <2>3
  <2> QED BY <2>2, <2>4
<1> HIDE DEF T
<1>2. PICK t \in T : \A u \in T : t <= u
  BY <1>1, Least
<1> USE DEF T
<1>3. PICK x \in s : t = n - x
  BY <1>2
<1>4. \A y \in s : x >= y
  <2> TAKE y \in s
  <2>1. n - y \in T
    OBVIOUS
  <2> QED BY <1>2, <1>3, <2>1
<1>5. \E z \in s : \A y \in s : z >= y
  BY <1>4
<1> QED BY <1>5 DEF Max

(* Taking the last place off the first k leaves the first k - 1. *)
LEMMA TopUpto ==
  ASSUME NEW k \in Nat, k > 0
  PROVE  Max(1..k) = k /\ (1..k) \ {k} = 1..(k - 1) /\ 1..k # {}
BY TopOf

\* A fold step by step.
IsFold(it, n, base, step) ==
    \A s \in SUBSET (1..n) : it[s] = IF s = {} THEN base ELSE step[<<Max(s), it[s \ {Max(s)}]>>]

(* A fold over the places of a list, last place first, is defined. *)
LEMMA FoldFn ==
  ASSUME NEW n \in Nat, NEW A, NEW base \in A, NEW step \in [(1..n) \X A -> A]
  PROVE  \E it \in [SUBSET (1..n) -> A] : IsFold(it, n, base, step)
<1> DEFINE T == {k \in 0..n : \E it \in [SUBSET (1..k) -> A] : IsFold(it, k, base, step)}
<1>1. 0 \in T
  <2> DEFINE it == [s \in SUBSET (1..0) |-> base]
  <2>1. it \in [SUBSET (1..0) -> A] /\ IsFold(it, 0, base, step)
    BY DEF IsFold
  <2> QED BY <2>1
<1>2. ASSUME NEW k \in 1..n, k - 1 \in T PROVE k \in T
  <2>1. PICK g \in [SUBSET (1..(k - 1)) -> A] : IsFold(g, k - 1, base, step)
    BY <1>2
  <2> DEFINE it == [s \in SUBSET (1..k) |-> IF k \in s THEN step[<<k, g[s \ {k}]>>] ELSE g[s]]
  <2>2. ASSUME NEW s \in SUBSET (1..k)
        PROVE  /\ it[s] \in A
               /\ it[s] = IF s = {} THEN base ELSE step[<<Max(s), it[s \ {Max(s)}]>>]
    <3>1. CASE k \in s
      <4>1. Max(s) = k /\ s \ {k} \in SUBSET (1..(k - 1))
        BY <3>1, TopOf
      <4>2. g[s \ {k}] \in A /\ it[s \ {k}] = g[s \ {k}]
        BY <4>1
      <4> QED BY <3>1, <4>1, <4>2
    <3>2. CASE k \notin s
      <4>1. s \in SUBSET (1..(k - 1)) /\ it[s] = g[s]
        BY <3>2
      <4>2. CASE s = {}
        BY <4>1, <4>2, <2>1 DEF IsFold
      <4>3. CASE s # {}
        <5>1. s \ {Max(s)} \in SUBSET (1..(k - 1)) /\ it[s \ {Max(s)}] = g[s \ {Max(s)}]
          BY <4>1, <3>2
        <5>2. g[s] = step[<<Max(s), g[s \ {Max(s)}]>>]
          BY <4>1, <4>3, <2>1 DEF IsFold
        <5> HIDE DEF it
        <5> QED BY <5>1, <5>2, <4>1, <4>3
      <4> QED BY <4>2, <4>3
    <3> QED BY <3>1, <3>2
  <2> HIDE DEF it
  <2>3. it \in [SUBSET (1..k) -> A]
    BY <2>2 DEF it
  <2>4. IsFold(it, k, base, step)
    BY <2>2 DEF IsFold
  <2> QED BY <2>3, <2>4
<1> HIDE DEF T
<1>3. n \in T
  BY <1>1, <1>2, UptoN
<1> QED BY <1>3 DEF T

\* A loop step by step.
IsLoop(f, n, base, step) == f[0] = base /\ \A k \in 1..n : f[k] = step[f[k - 1]]

(* A loop of n steps is defined. *)
LEMMA LoopFn ==
  ASSUME NEW n \in Nat, NEW A, NEW base \in A, NEW step \in [A -> A]
  PROVE  \E f \in [0..n -> A] : IsLoop(f, n, base, step)
<1> DEFINE T == {k \in 0..n : \E f \in [0..k -> A] : IsLoop(f, k, base, step)}
<1>1. 0 \in T
  <2> DEFINE f == [k \in 0..0 |-> base]
  <2>1. f \in [0..0 -> A] /\ f[0] = base
    OBVIOUS
  <2>2. 1..0 = {}
    OBVIOUS
  <2> HIDE DEF f
  <2>3. IsLoop(f, 0, base, step)
    BY <2>1, <2>2 DEF IsLoop
  <2> QED BY <2>1, <2>3
<1>2. ASSUME NEW k \in 1..n, k - 1 \in T PROVE k \in T
  <2>1. PICK g \in [0..(k - 1) -> A] : IsLoop(g, k - 1, base, step)
    BY <1>2
  <2> DEFINE f == [j \in 0..k |-> IF j = k THEN step[g[k - 1]] ELSE g[j]]
  <2>2. f \in [0..k -> A]
    OBVIOUS
  <2>3. f[0] = base
    BY <2>1 DEF IsLoop
  <2>4. ASSUME NEW j \in 1..k PROVE f[j] = step[f[j - 1]]
    <3>1. f[j - 1] = g[j - 1]
      OBVIOUS
    <3>2. CASE j = k
      BY <3>1, <3>2
    <3>3. CASE j # k
      BY <3>1, <3>3, <2>1 DEF IsLoop
    <3> QED BY <3>2, <3>3
  <2> HIDE DEF f
  <2>5. IsLoop(f, k, base, step)
    BY <2>3, <2>4 DEF IsLoop
  <2> QED BY <2>2, <2>5
<1> HIDE DEF T
<1>3. n \in T
  BY <1>1, <1>2, UptoN
<1> QED BY <1>3 DEF T

-----------------------------------------------------------------------------
(* The numbers of a finite set from the least up: each once, in their order. *)
LEMMA NthRight ==
  ASSUME NEW I \in SUBSET Int, IsFiniteSet(I)
  PROVE  /\ Cardinality(I) \in Nat
         /\ \A k \in 1..Cardinality(I) : Nth(I, k) \in I
         /\ \A i \in I : \E k \in 1..Cardinality(I) : Nth(I, k) = i
         /\ \A j, k \in 1..Cardinality(I) : j < k <=> Nth(I, j) < Nth(I, k)
<1> DEFINE L == {x \in I \X I : x[1] < x[2]}
           n == Cardinality(I)
           r == Rank(I, L)
<1>1. StrictTotal(I, L)
  BY DEF StrictTotal
<1>2. n \in Nat
  BY FS_CardinalityType
<1>3. r \in Bijection(I, 0..(n - 1)) /\ \A a, b \in I : <<a, b>> \in L <=> r[a] < r[b]
  BY <1>1, Ranks
<1>4. \A i \in I : r[i] = Cardinality({j \in I : j < i})
  <2> TAKE i \in I
  <2>1. BeforeIn(I, L, i) = {j \in I : j < i}
    BY DEF BeforeIn
  <2> QED BY <2>1 DEF Rank
<1>5. \A a, b \in I : a < b <=> r[a] < r[b]
  BY <1>3
<1> HIDE DEF L, r
<1>6. /\ r \in [I -> 0..(n - 1)]
      /\ \A a, b \in I : r[a] = r[b] => a = b
      /\ \A t \in 0..(n - 1) : \E i \in I : r[i] = t
  BY <1>3 DEF Bijection, Injection, IsInjective, Surjection
<1>7. \A k \in 1..n : Nth(I, k) \in I /\ r[Nth(I, k)] = k - 1
  <2> TAKE k \in 1..n
  <2>1. k - 1 \in 0..(n - 1)
    BY <1>2
  <2>2. PICK i \in I : r[i] = k - 1
    BY <1>6, <2>1
  <2>3. \E i1 \in I : Cardinality({j \in I : j < i1}) = k - 1
    BY <1>4, <2>2
  <2>4. Nth(I, k) \in I /\ Cardinality({j \in I : j < Nth(I, k)}) = k - 1
    BY <2>3 DEF Nth
  <2> QED BY <2>4, <1>4
<1> HIDE DEF n
<1>8. ASSUME NEW i \in I PROVE \E k \in 1..n : Nth(I, k) = i
  <2>1. r[i] + 1 \in 1..n /\ (r[i] + 1) - 1 = r[i]
    BY <1>6, <1>2
  <2> QED BY <2>1, <1>6, <1>7
<1>9. ASSUME NEW j \in 1..n, NEW k \in 1..n PROVE j < k <=> Nth(I, j) < Nth(I, k)
  <2>1. Nth(I, j) < Nth(I, k) <=> r[Nth(I, j)] < r[Nth(I, k)]
    BY <1>5, <1>7
  <2>2. r[Nth(I, j)] = j - 1 /\ r[Nth(I, k)] = k - 1
    BY <1>7
  <2>3. j < k <=> j - 1 < k - 1
    BY <1>2
  <2> QED BY <2>1, <2>2, <2>3
<1> QED BY <1>2, <1>7, <1>8, <1>9 DEF n

(* Two increasing lists of the same numbers are one. *)
LEMMA SameList ==
  ASSUME NEW I \in SUBSET Int, IsFiniteSet(I), NEW f \in [1..Cardinality(I) -> I],
         \A j, k \in 1..Cardinality(I) : j < k => f[j] < f[k]
  PROVE  \A k \in 1..Cardinality(I) : f[k] = Nth(I, k)
<1> DEFINE n == Cardinality(I)
           bad == {k \in 1..n : f[k] # Nth(I, k)}
<1>1. /\ n \in Nat
      /\ \A k \in 1..n : Nth(I, k) \in I
      /\ \A i \in I : \E k \in 1..n : Nth(I, k) = i
      /\ \A j, k \in 1..n : j < k <=> Nth(I, j) < Nth(I, k)
  BY NthRight
<1>2. IsFiniteSet(1..n) /\ Cardinality(1..n) = n
  BY <1>1, FS_Interval
<1>3. f \in Injection(1..n, I)
  <2>1. ASSUME NEW a \in 1..n, NEW b \in 1..n, f[a] = f[b] PROVE a = b
    <3>1. f[a] \in Int /\ f[b] \in Int
      OBVIOUS
    <3>2. ~(a < b) /\ ~(b < a)
      BY <2>1, <3>1
    <3> QED BY <3>2, <1>1
  <2> QED BY <2>1 DEF Injection, IsInjective
<1>4. f \in Surjection(1..n, I)
  BY <1>2, <1>3, FS_Injection DEF Bijection
<1>5. \A i \in I : \E k \in 1..n : f[k] = i
  BY <1>4 DEF Surjection
<1> HIDE DEF n
<1> SUFFICES ASSUME bad # {} PROVE FALSE
  BY DEF n
<1>6. PICK k \in bad : \A j \in bad : k <= j
  <2>1. bad \in SUBSET Nat
    BY <1>1
  <2> QED BY <2>1, Least
<1>7. PICK j \in 1..n : f[j] = Nth(I, k)
  BY <1>5, <1>1
<1>8. PICK m \in 1..n : Nth(I, m) = f[k]
  BY <1>1 DEF n
<1>9. j > k
  <2>1. j # k
    BY <1>6, <1>7
  <2>2. ASSUME j < k PROVE FALSE
    <3>1. j \notin bad /\ f[j] = Nth(I, j)
      BY <1>6, <2>2, <1>1
    <3> QED BY <3>1, <1>7, <2>2, <1>1
  <2> QED BY <2>1, <2>2, <1>1
<1>10. m > k
  <2>1. m # k
    BY <1>6, <1>8
  <2>2. ASSUME m < k PROVE FALSE
    <3>1. m \notin bad /\ f[m] = Nth(I, m)
      BY <1>6, <2>2, <1>1
    <3>2. f[m] < f[k]
      BY <2>2 DEF n
    <3> QED BY <3>1, <3>2, <1>8, <1>1
  <2> QED BY <2>1, <2>2, <1>1
<1>11. f[k] < f[j] /\ Nth(I, k) < Nth(I, m)
  BY <1>9, <1>10, <1>1 DEF n
<1>12. f[k] \in Int /\ f[j] \in Int
  BY DEF n
<1> QED BY <1>7, <1>8, <1>11, <1>12

-----------------------------------------------------------------------------
(* The instance that asks the algorithms.  A behaviour stays in its area, and *)
(* what it asks is of the kind that area asks. *)
LEMMA StaysInArea ==
  ASSUME [MCNext]_mcVars
  PROVE  /\ area' = area
         /\ \/ input' = input
            \/ (area = "order" /\ AskOrder) \/ (area = "walk" /\ AskWalk)
            \/ (area = "stitch" /\ AskStitch) \/ (area = "diff" /\ AskDiff)
            \/ (area = "locate" /\ AskLocate) \/ (area = "select" /\ AskSelect)
            \/ (area = "passages" /\ AskPassages) \/ (area = "upload" /\ AskUpload)
            \/ (area = "windows" /\ AskWindows) \/ (area = "index" /\ AskIndex)
            \/ (area = "fuse" /\ AskFuse) \/ (area = "pages" /\ AskPages)
            \/ (area = "snippet" /\ AskSnippet) \/ (area = "stable" /\ AskStable)
            \/ (area = "links" /\ AskLinks) \/ (area = "transcripts" /\ AskTranscripts)
            \/ (area = "tags" /\ AskTags)
<1> DEFINE Same == area' = area
<1>1. AskOrder => Same /\ area = "order"
  BY DEF AskOrder, Ask
<1>2. AskWalk => Same /\ area = "walk"
  BY DEF AskWalk, Ask
<1>3. AskStitch => Same /\ area = "stitch"
  BY DEF AskStitch, Ask
<1>4. AskDiff => Same /\ area = "diff"
  BY DEF AskDiff, Ask
<1>5. AskLocate => Same /\ area = "locate"
  BY DEF AskLocate, Ask
<1>6. AskSelect => Same /\ area = "select"
  BY DEF AskSelect, Ask
<1>7. AskPassages => Same /\ area = "passages"
  BY DEF AskPassages, Ask
<1>8. AskUpload => Same /\ area = "upload"
  BY DEF AskUpload, Ask
<1>9. AskWindows => Same /\ area = "windows"
  BY DEF AskWindows, Ask
<1>10. AskIndex => Same /\ area = "index"
  BY DEF AskIndex, Ask
<1>11. AskFuse => Same /\ area = "fuse"
  BY DEF AskFuse, Ask
<1>12. AskPages => Same /\ area = "pages"
  BY DEF AskPages, Ask
<1>13. AskSnippet => Same /\ area = "snippet"
  BY DEF AskSnippet, Ask
<1>14. AskStable => Same /\ area = "stable"
  BY DEF AskStable, Ask
<1>15. AskLinks => Same /\ area = "links"
  BY DEF AskLinks, Ask
<1>16. AskTranscripts => Same /\ area = "transcripts"
  BY DEF AskTranscripts, Ask
<1>17. AskTags => Same /\ area = "tags"
  BY DEF AskTags, Ask
<1>18. RegionStep \/ HomeStep \/ UNCHANGED mcVars => Same /\ input' = input
  BY DEF RegionStep, HomeStep, mcVars
<1> QED BY <1>1, <1>2, <1>3, <1>4, <1>5, <1>6, <1>7, <1>8, <1>9, <1>10, <1>11, <1>12, <1>13,
      <1>14, <1>15, <1>16, <1>17, <1>18 DEF MCNext

\* What the areas of the atlas have been asked.
AtlasAsked ==
    /\ Asked("links") => \E sim \in Similarities(4), K \in 1..2, least \in 1..2 :
         input = [sim |-> sim, K |-> K, least |-> least]
    /\ Asked("transcripts") => \E sim \in Similarities(4), fileOf \in [1..4 -> Int],
                                  K \in {1, 3}, fileK \in {1, 2} :
         input = [sim |-> sim, fileOf |-> fileOf, K |-> K, fileK |-> fileK]
    /\ Asked("tags") => \E regionOf \in [1..5 -> 1..3], fileOf \in [1..5 -> 1..2], extra \in 0..2 :
         input = [regionOf |-> regionOf, fileOf |-> fileOf, extra |-> extra]

(* Every region stays the right size while the instance clusters. *)
LEMMA ClustersRight == AlgorithmsSpec => []SizesRight
<1>1. MCInit => Init
  BY DEF MCInit
<1>2. [MCNext]_mcVars => [Next]_regionVars
  <2> SUFFICES ASSUME [MCNext]_mcVars PROVE [Next]_regionVars
    OBVIOUS
  <2>1. CASE RegionStep
    BY <2>1 DEF RegionStep
  <2>2. CASE HomeStep \/ UNCHANGED mcVars
    BY <2>2 DEF HomeStep, mcVars
  <2>3. CASE AskOrder \/ AskWalk \/ AskStitch \/ AskDiff \/ AskLocate \/ AskSelect \/ AskPassages
             \/ AskUpload \/ AskWindows \/ AskIndex \/ AskFuse \/ AskPages \/ AskSnippet
             \/ AskStable \/ AskLinks \/ AskTranscripts \/ AskTags
    <3>1. PICK a \in {"order", "walk", "stitch", "diff", "locate", "select", "passages", "upload",
                      "windows", "index", "fuse", "pages", "snippet", "stable", "links",
                      "transcripts", "tags"} : Ask(a)
      BY <2>3, ZenonT(40) DEF AskOrder, AskWalk, AskStitch, AskDiff, AskLocate, AskSelect, AskPassages,
                    AskUpload, AskWindows, AskIndex, AskFuse, AskPages, AskSnippet,
                    AskStable, AskLinks, AskTranscripts, AskTags
    <3> QED BY <3>1, SMTT(30) DEF Ask
  <2> QED BY <2>1, <2>2, <2>3 DEF MCNext
<1>3. AlgorithmsSpec => RegionsSpec
  BY <1>1, <1>2, PTL DEF AlgorithmsSpec, RegionsSpec
<1> QED BY <1>3, SizesStayRight, PTL

(* What the atlas draws is right in every state of the instance: LinksRight, *)
(* TranscriptsRight, TagsRight and SizesStayRight for what is asked there. *)
THEOREM AtlasStaysDrawn == AlgorithmsSpec => []AtlasDrawn
<1>1. MCInit => AtlasAsked
  BY DEF MCInit, AtlasAsked, Asked
<1>2. AtlasAsked /\ [MCNext]_mcVars => AtlasAsked'
  <2> SUFFICES ASSUME AtlasAsked, [MCNext]_mcVars, area \in {"links", "transcripts", "tags"}
               PROVE  AtlasAsked'
    BY StaysInArea DEF AtlasAsked, Asked
  <2>1. area' = area /\ (input' = input \/ AskLinks \/ AskTranscripts \/ AskTags)
    BY StaysInArea
  <2>2. CASE input' = input
    BY <2>1, <2>2 DEF AtlasAsked, Asked
  <2>3. CASE AskLinks
    BY <2>3, <2>1 DEF AtlasAsked, Asked, AskLinks, Ask
  <2>4. CASE AskTranscripts
    <3>1. {<<1, 1, 2, 2>>, <<1, 2, 2, 3>>, <<1, 2, 3, 3>>, <<1, 2, 3, 1>>} \subseteq [1..4 -> Int]
      OBVIOUS
    <3>2. \E sim \in Similarities(4), fileOf \in [1..4 -> Int], K \in {1, 3}, fileK \in {1, 2} :
            input' = [sim |-> sim, fileOf |-> fileOf, K |-> K, fileK |-> fileK]
      BY <2>4, <3>1 DEF AskTranscripts
    <3>3. area = "transcripts"
      BY <2>4 DEF AskTranscripts, Ask
    <3> QED BY <3>2, <3>3, <2>1 DEF AtlasAsked, Asked
  <2>5. CASE AskTags
    BY <2>5, <2>1 DEF AtlasAsked, Asked, AskTags, Ask
  <2> QED BY <2>1, <2>2, <2>3, <2>4, <2>5
<1>3. AtlasAsked /\ SizesRight => AtlasDrawn
  <2> SUFFICES ASSUME AtlasAsked, SizesRight PROVE AtlasDrawn
    OBVIOUS
  <2>1. IsFiniteSet(1..4) /\ 1..4 \in SUBSET Int /\ IsFiniteSet(1..5)
    <3>1. \A n \in Int : IsFiniteSet(1..n)
      BY FS_Interval
    <3>2. IsFiniteSet(1..4) /\ IsFiniteSet(1..5)
      BY <3>1, 4 \in Int, 5 \in Int, Zenon
    <3>3. 1..4 \in SUBSET Int
      OBVIOUS
    <3> QED BY <3>2, <3>3
  <2>2. \A sim \in Similarities(4) : sim \in [PairsOf(1..4) -> Int]
    BY DEF Similarities
  <2>3. Asked("links") => LinksSound(1..4, input.sim, input.K, input.least)
    <3> SUFFICES ASSUME Asked("links") PROVE LinksSound(1..4, input.sim, input.K, input.least)
      OBVIOUS
    <3>1. PICK sim \in Similarities(4), K \in 1..2, least \in 1..2 :
            input = [sim |-> sim, K |-> K, least |-> least]
      BY DEF AtlasAsked
    <3>2. LinksSound(1..4, sim, K, least)
      BY <2>1, <2>2, LinksRight
    <3> QED BY <3>1, <3>2
  <2>4. Asked("transcripts") => TranscriptsSound(1..4, input.sim, input.fileOf, input.K, 1, input.fileK)
    <3> SUFFICES ASSUME Asked("transcripts")
                 PROVE  TranscriptsSound(1..4, input.sim, input.fileOf, input.K, 1, input.fileK)
      OBVIOUS
    <3>1. PICK sim \in Similarities(4), fileOf \in [1..4 -> Int], K \in {1, 3}, fileK \in {1, 2} :
            input = [sim |-> sim, fileOf |-> fileOf, K |-> K, fileK |-> fileK]
      BY DEF AtlasAsked
    <3>2. TranscriptsSound(1..4, sim, fileOf, K, 1, fileK)
      BY <2>1, <2>2, TranscriptsRight
    <3> QED BY <3>1, <3>2
  <2>5. Asked("tags") => TagsSound(input.regionOf, input.fileOf, 20, 30, input.extra)
    <3> SUFFICES ASSUME Asked("tags")
                 PROVE  TagsSound(input.regionOf, input.fileOf, 20, 30, input.extra)
      OBVIOUS
    <3>1. PICK regionOf \in [1..5 -> 1..3], fileOf \in [1..5 -> 1..2], extra \in 0..2 :
            input = [regionOf |-> regionOf, fileOf |-> fileOf, extra |-> extra]
      BY DEF AtlasAsked
    <3>2. DOMAIN fileOf = 1..5 /\ regionOf \in [DOMAIN fileOf -> Int] /\ extra \in Nat
      OBVIOUS
    <3>3. TagsSound(regionOf, fileOf, 20, 30, extra)
      BY <2>1, <3>2, TagsRight
    <3> QED BY <3>1, <3>3
  <2> QED BY <2>3, <2>4, <2>5 DEF AtlasDrawn
<1>4. AlgorithmsSpec => []AtlasAsked
  BY <1>1, <1>2, PTL DEF AlgorithmsSpec
<1> QED BY <1>3, <1>4, ClustersRight, PTL

-----------------------------------------------------------------------------
(* The ghosts of a comparison, for every baseline: GhostsSound, RescueSound. *)

\* A baseline of the store, and what may stand in the outline beside it.
Baseline(base) ==
    /\ IsFiniteSet(DOMAIN base.bullets) /\ DOMAIN base.bullets \subseteq Nat \ {Root}
    /\ \E Edge : base.edges \in Seq(Edge)

Places(base) == DOMAIN base.bullets \union {Root}

(* The parent of a bullet is a bullet of the baseline or none. *)
LEMMA ParentIn ==
  ASSUME NEW base, Baseline(base), NEW n
  PROVE  baseParent(base, n) \in Places(base)
<1> DEFINE into == ParentEdges(base, n)
<1>1. CASE into = {}
  BY <1>1 DEF baseParent, Places
<1>2. CASE into # {}
  <2>1. Len(base.edges) \in Nat /\ DOMAIN base.edges = 1..Len(base.edges)
    BY DEF Baseline
  <2>2. into \in SUBSET (1..Len(base.edges))
    BY <2>1 DEF ParentEdges
  <2>3. Max(into) \in into
    BY <1>2, <2>1, <2>2, TopIn
  <2> QED BY <1>2, <2>3 DEF ParentEdges, baseParent, Places
<1> QED BY <1>1, <1>2

(* A step of a climb leads to the place above. *)
LEMMA UpIn ==
  ASSUME NEW base, Baseline(base), NEW cur, NEW x \in Places(base)
  PROVE  Up(cur, base, x) \in Places(base)
BY ParentIn DEF Up

\* The places a climb comes to.
Climbs(at, cur, base, cursor, steps) ==
    /\ at \in [0..steps -> Places(base)] /\ at[0] = cursor
    /\ \A k \in 1..steps : at[k] = Up(cur, base, at[k - 1])

(* A climb goes up one place a step, and ends where it is then. *)
LEMMA ClimbRun ==
  ASSUME NEW base, Baseline(base), NEW cur, NEW cursor \in Places(base), NEW steps \in Nat
  PROVE  \E at : /\ Climbs(at, cur, base, cursor, steps)
                 /\ Climb(cur, base, cursor, steps) = IF Stops(cur, at[steps]) THEN at[steps] ELSE Endless
<1> DEFINE A == Places(base)
           step == [x \in A |-> Up(cur, base, x)]
           at == CHOOSE at : at = [k \in 0..steps |-> IF k = 0 THEN cursor ELSE Up(cur, base, at[k - 1])]
<1>1. step \in [A -> A]
  BY UpIn
<1> HIDE DEF A, step
<1>2. PICK f \in [0..steps -> A] : IsLoop(f, steps, cursor, step)
  <2>1. cursor \in A
    BY DEF A
  <2> QED BY <1>1, <2>1, LoopFn
<1> USE DEF A, step
<1>3. f = [k \in 0..steps |-> IF k = 0 THEN cursor ELSE Up(cur, base, f[k - 1])]
  <2>1. ASSUME NEW k \in 0..steps, k # 0 PROVE f[k] = Up(cur, base, f[k - 1])
    <3>1. k \in 1..steps /\ k - 1 \in 0..steps
      BY <2>1
    <3> QED BY <3>1, <1>2 DEF IsLoop
  <2> QED BY <1>2, <2>1 DEF IsLoop
<1>4. at = [k \in 0..steps |-> IF k = 0 THEN cursor ELSE Up(cur, base, at[k - 1])]
  BY <1>3
<1>5. Climb(cur, base, cursor, steps) = IF Stops(cur, at[steps]) THEN at[steps] ELSE Endless
  BY DEF Climb
<1> HIDE DEF at
<1>6. at[0] = cursor
  BY <1>4
<1>7. ASSUME NEW k \in 1..steps PROVE at[k] = Up(cur, base, at[k - 1])
  BY <1>4
<1>8. \A k \in 0..steps : k \in {j \in 0..steps : at[j] \in A}
  <2> DEFINE T == {j \in 0..steps : at[j] \in A}
  <2>1. 0 \in T
    BY <1>6
  <2>2. ASSUME NEW k \in 1..steps, k - 1 \in T PROVE k \in T
    BY <2>2, <1>7, UpIn
  <2> HIDE DEF T
  <2>3. \A k \in 0..steps : k \in T
    BY <2>1, <2>2, UptoN
  <2> QED BY <2>3 DEF T
<1>9. Climbs(at, cur, base, cursor, steps)
  BY <1>4, <1>6, <1>7, <1>8 DEF Climbs
<1> QED BY <1>5, <1>9

(* Where a climb stops it stays, and so does the climb's end. *)
LEMMA ClimbStays ==
  ASSUME NEW base, NEW cur, NEW cursor, NEW steps \in Nat, NEW at,
         Climbs(at, cur, base, cursor, steps), NEW k \in 0..steps, Stops(cur, at[k])
  PROVE  \A j \in k..steps : at[j] = at[k]
<1> DEFINE T == {j \in 0..steps : k <= j => at[j] = at[k]}
<1>1. 0 \in T
  OBVIOUS
<1>2. ASSUME NEW j \in 1..steps, j - 1 \in T PROVE j \in T
  <2>1. CASE k <= j - 1
    <3>1. at[j] = Up(cur, base, at[j - 1]) /\ at[j - 1] = at[k]
      BY <2>1, <1>2 DEF Climbs
    <3> QED BY <3>1 DEF Up
  <2>2. CASE ~(k <= j - 1)
    <3>1. k <= j => k = j
      BY <2>2
    <3> QED BY <3>1
  <2> QED BY <2>1, <2>2
<1> HIDE DEF T
<1>3. \A j \in 0..steps : j \in T
  BY <1>1, <1>2, UptoN
<1> QED BY <1>3 DEF T

-----------------------------------------------------------------------------
\* The removed bullets are closed upwards.
ClosedAbove(cur, base, S) ==
    \A x \in S : baseParent(base, x) \in Gone(cur, base) => baseParent(base, x) \in S

(* The bullets removed above n are the closed set with n in it that is in *)
(* every other. *)
LEMMA AboveIs ==
  ASSUME NEW base, NEW cur, NEW n, NEW S \in SUBSET Gone(cur, base), n \in S,
         ClosedAbove(cur, base, S),
         \A T \in SUBSET Gone(cur, base) : n \in T /\ ClosedAbove(cur, base, T) => S \subseteq T
  PROVE  RemovedAbove(cur, base, n) = S
<1> DEFINE gone == Gone(cur, base)
           parent == Parents(base)
           IsClosed(T) == \A x \in T : parent[x] \in gone => parent[x] \in T
<1>1. \A T \in SUBSET gone : IsClosed(T) <=> ClosedAbove(cur, base, T)
  BY DEF Parents, Gone, ClosedAbove
<1>2. RemovedAbove(cur, base, n) = {m \in gone : \A T \in SUBSET gone : (n \in T /\ IsClosed(T)) => m \in T}
  BY DEF RemovedAbove
<1> HIDE DEF IsClosed, gone
<1>3. S \in SUBSET gone
  BY DEF gone
<1>4. \A m \in S : m \in RemovedAbove(cur, base, n)
  BY <1>1, <1>2, <1>3 DEF gone
<1>5. \A m \in RemovedAbove(cur, base, n) : m \in S
  BY <1>1, <1>2, <1>3
<1> QED BY <1>4, <1>5

(* A place of the climb that does not stop it is a removed bullet. *)
LEMMA GoesOnFrom ==
  ASSUME NEW base, Baseline(base), NEW cur, NEW x \in Places(base)
  PROVE  Stops(cur, x) <=> x \notin Gone(cur, base)
<1>1. Root \notin DOMAIN base.bullets
  BY DEF Baseline
<1> QED BY <1>1 DEF Places, Gone, Stops

\* The climb up to a place goes over bullets of the baseline c lacks.
OverGone(at, cur, base, c, last) ==
  \A i \in 0..last : at[i] \in Gone(c, base) /\ ~Stops(cur, at[i])

(* A closed set that holds a bullet holds what the climb from it comes to. *)
LEMMA ClimbInside ==
  ASSUME NEW base, Baseline(base), NEW cur, NEW n \in DOMAIN base.bullets, NEW steps \in Nat, NEW at,
         Climbs(at, cur, base, baseParent(base, n), steps),
         NEW c, NEW T \in SUBSET Gone(c, base), n \in T, ClosedAbove(c, base, T),
         NEW last \in 0..steps, OverGone(at, cur, base, c, last)
  PROVE  at[last] \in T
<1> DEFINE All(k) == \A i \in 0..k : at[i] \in Gone(c, base) /\ ~Stops(cur, at[i])
           U == {k \in 0..steps : All(k) => at[k] \in T}
<1>1. 0 \in U
  <2>1. at[0] = baseParent(base, n)
    BY DEF Climbs
  <2>2. All(0) => at[0] \in Gone(c, base)
    OBVIOUS
  <2> HIDE DEF All
  <2> QED BY <2>1, <2>2 DEF ClosedAbove
<1>2. ASSUME NEW k \in 1..steps, k - 1 \in U PROVE k \in U
  <2> SUFFICES ASSUME All(k) PROVE at[k] \in T
    OBVIOUS
  <2>1. All(k - 1)
    OBVIOUS
  <2>2. at[k - 1] \in T /\ ~Stops(cur, at[k - 1]) /\ at[k] \in Gone(c, base)
    BY <1>2, <2>1
  <2>3. at[k] = baseParent(base, at[k - 1])
    BY <2>2 DEF Climbs, Up
  <2> QED BY <2>2, <2>3 DEF ClosedAbove
<1> HIDE DEF U, All
<1>3. \A k \in 0..steps : k \in U
  BY <1>1, <1>2, UptoN
<1>4. All(last)
  BY DEF OverGone, All
<1>5. last \in U
  BY <1>3
<1> QED BY <1>4, <1>5, Zenon DEF U

(* Before a climb stops it has not. *)
LEMMA NotYet ==
  ASSUME NEW base, Baseline(base), NEW cur, NEW cursor, NEW steps \in Nat, NEW at,
         Climbs(at, cur, base, cursor, steps), NEW k \in 0..steps, ~Stops(cur, at[k])
  PROVE  \A i \in 0..k : ~Stops(cur, at[i]) /\ at[i] \in Gone(cur, base)
<1> SUFFICES ASSUME NEW i \in 0..k PROVE ~Stops(cur, at[i]) /\ at[i] \in Gone(cur, base)
  OBVIOUS
<1>2. ~Stops(cur, at[i])
  <2>1. i \in 0..steps /\ k \in i..steps
    OBVIOUS
  <2> QED BY <2>1, ClimbStays
<1>3. at[i] \in Places(base)
  BY DEF Climbs
<1> QED BY <1>2, <1>3, GoesOnFrom

(* A removed bullet below a bullet that is left is anchored at it. *)
LEMMA AnchoredGhost ==
  ASSUME NEW base, Baseline(base), NEW cur, NEW n \in Gone(cur, base), NEW N \in Nat, NEW at,
         Climbs(at, cur, base, baseParent(base, n), N), Stops(cur, at[N])
  PROVE  Survivors(cur, base, n) = {at[N]}
<1> DEFINE gone == Gone(cur, base)
           S == {n} \union {x \in gone : \E k \in 0..N : x = at[k]}
<1>1. \A k \in 0..N : at[k] \in Places(base)
  BY DEF Climbs
<1>2. at[N] \notin gone
  BY <1>1, GoesOnFrom
<1>3. \A x \in S : \E k \in 0..N : baseParent(base, x) = at[k]
  <2>1. baseParent(base, n) = at[0]
    BY DEF Climbs
  <2>2. ASSUME NEW k \in 0..N, at[k] \in gone PROVE baseParent(base, at[k]) = at[k + 1] /\ k + 1 \in 0..N
    <3>1. k # N /\ k + 1 \in 1..N /\ (k + 1) - 1 = k
      BY <1>2, <2>2
    <3>2. ~Stops(cur, at[k])
      BY <2>2, <1>1, GoesOnFrom
    <3>3. at[k + 1] = Up(cur, base, at[k])
      BY <3>1 DEF Climbs
    <3> QED BY <3>1, <3>2, <3>3 DEF Up
  <2> HIDE DEF gone
  <2> QED BY <2>1, <2>2
<1>4. ClosedAbove(cur, base, S)
  BY <1>3 DEF ClosedAbove
<1>5. ASSUME NEW T \in SUBSET gone, n \in T, ClosedAbove(cur, base, T) PROVE S \subseteq T
  <2> SUFFICES ASSUME NEW k \in 0..N, at[k] \in gone PROVE at[k] \in T
    BY <1>5
  <2>1. ~Stops(cur, at[k])
    BY <1>1, GoesOnFrom
  <2>2. OverGone(at, cur, base, cur, k)
    BY <2>1, NotYet DEF OverGone
  <2>3. n \in DOMAIN base.bullets
    BY DEF Gone
  <2> QED BY <2>2, <2>3, <1>5, ClimbInside
<1>6. S \in SUBSET gone /\ n \in S
  OBVIOUS
<1>7. RemovedAbove(cur, base, n) = S
  <2> HIDE DEF S
  <2> QED BY <1>4, <1>5, <1>6, AboveIs
<1>8. \A x \in S : baseParent(base, x) \notin S => baseParent(base, x) = at[N]
  <2> TAKE x \in S
  <2>1. PICK k \in 0..N : baseParent(base, x) = at[k]
    BY <1>3
  <2>2. at[k] \notin S => at[k] \notin gone
    OBVIOUS
  <2>3. at[k] \notin gone => Stops(cur, at[k])
    BY <1>1, GoesOnFrom
  <2>4. Stops(cur, at[k]) => at[N] = at[k]
    BY ClimbStays
  <2> HIDE DEF S, gone
  <2> QED BY <2>1, <2>2, <2>3, <2>4
<1>9. \E x \in S : baseParent(base, x) = at[N]
  <2> DEFINE halts == {k \in 0..N : Stops(cur, at[k])}
  <2>1. halts \in SUBSET Nat /\ N \in halts
    OBVIOUS
  <2> HIDE DEF halts
  <2>2. PICK k \in halts : \A j \in halts : k <= j
    BY <2>1, Least
  <2>3. k \in 0..N /\ Stops(cur, at[k])
    BY DEF halts
  <2>4. at[N] = at[k]
    BY <2>3, ClimbStays
  <2>5. CASE k = 0
    BY <2>4, <2>5 DEF Climbs
  <2>6. CASE k # 0
    <3>1. k - 1 \in 0..N /\ k \in 1..N /\ ~(k <= k - 1)
      BY <2>3, <2>6
    <3>2. ~Stops(cur, at[k - 1])
      BY <3>1, <2>2 DEF halts
    <3>3. at[k - 1] \in gone
      BY <3>1, <3>2, <1>1, GoesOnFrom
    <3>4. at[k] = baseParent(base, at[k - 1])
      BY <3>1, <3>2 DEF Climbs, Up
    <3>5. at[k - 1] \in S
      BY <3>1, <3>3
    <3> QED BY <3>4, <3>5, <2>4
  <2> QED BY <2>5, <2>6
<1>10. at[N] \notin S
  BY <1>2
<1> HIDE DEF S
<1> QED BY <1>7, <1>8, <1>9, <1>10 DEF Survivors

(* A climb that does not stop runs in a loop of removed bullets. *)
LEMMA LoopingGhost ==
  ASSUME NEW base, Baseline(base), NEW cur, NEW n \in Gone(cur, base), NEW at,
         Climbs(at, cur, base, baseParent(base, n), Cardinality(DOMAIN base.bullets)),
         ~Stops(cur, at[Cardinality(DOMAIN base.bullets)])
  PROVE  Survivors(cur, base, n) = {} /\ Loops(base, n)
<1> DEFINE gone == Gone(cur, base)
           all == DOMAIN base.bullets
           N == Cardinality(all)
<1>1. N \in Nat /\ IsFiniteSet(all) /\ all \subseteq Nat \ {Root}
  BY FS_CardinalityType DEF Baseline
<1>2. gone \subseteq all /\ n \in all
  BY DEF Gone
<1>3. \A k \in 0..N : ~Stops(cur, at[k]) /\ at[k] \in gone
  <2>1. N \in 0..N
    BY <1>1
  <2> HIDE DEF N
  <2> QED BY <1>1, <2>1, NotYet DEF N
<1>4. PICK i \in 0..N, j \in 0..N : i # j /\ at[i] = at[j]
  <2>1. IsFiniteSet(0..N) /\ Cardinality(0..N) = N + 1
    BY <1>1, FS_Interval
  <2>2. at \in [0..N -> all]
    BY <1>2, <1>3 DEF Climbs
  <2>3. Cardinality(0..N) > Cardinality(all)
    BY <1>1, <2>1
  <2> HIDE DEF N, all
  <2> QED BY <1>1, <2>1, <2>2, <2>3, FS_PigeonHole
<1> HIDE DEF N
<1>5. PICK a \in 0..N, b \in 0..N : a < b /\ at[a] = at[b]
  <2>1. i < j \/ j < i
    BY <1>4
  <2> QED BY <2>1, <1>4
<1> DEFINE S == {n} \union {at[k] : k \in 0..(b - 1)}
<1>6. \A k \in 1..N : baseParent(base, at[k - 1]) = at[k]
  BY <1>3 DEF Climbs, Up, N
<1>7. \A x \in S : baseParent(base, x) \in S
  <2>1. baseParent(base, n) = at[0] /\ 0 \in 0..(b - 1)
    BY <1>1, <1>5 DEF Climbs
  <2>2. ASSUME NEW k \in 0..(b - 1) PROVE baseParent(base, at[k]) \in S
    <3>1. k + 1 \in 1..N /\ (k + 1) - 1 = k
      BY <1>1
    <3>2. baseParent(base, at[k]) = at[k + 1]
      BY <3>1, <1>6
    <3>3. CASE k + 1 = b
      <4>1. at[k + 1] = at[a] /\ a \in 0..(b - 1)
        BY <3>3, <1>5
      <4> QED BY <4>1, <3>2
    <3>4. CASE k + 1 # b
      BY <3>4, <3>2, k + 1 \in 0..(b - 1)
    <3> QED BY <3>3, <3>4
  <2> QED BY <2>1, <2>2
<1>8. S \in SUBSET gone /\ S \in SUBSET Gone(<<>>, base)
  <2>1. \A k \in 0..(b - 1) : k \in 0..N
    BY <1>1
  <2>2. S \in SUBSET gone
    BY <2>1, <1>3
  <2>3. Gone(<<>>, base) = all
    BY DEF Gone
  <2> HIDE DEF S
  <2> QED BY <2>2, <2>3, <1>2
<1>9. \A c : ClosedAbove(c, base, S)
  BY <1>7 DEF ClosedAbove
<1>10. ASSUME NEW c, S \in SUBSET Gone(c, base)
       PROVE  RemovedAbove(c, base, n) = S
  <2>1. ASSUME NEW T \in SUBSET Gone(c, base), n \in T, ClosedAbove(c, base, T) PROVE S \subseteq T
    <3> SUFFICES ASSUME NEW k \in 0..(b - 1) PROVE at[k] \in T
      BY <2>1
    <3>1. k \in 0..N /\ \A m \in 0..k : m \in 0..(b - 1) /\ m \in 0..N
      BY <1>1
    <3>2. OverGone(at, cur, base, c, k)
      BY <3>1, <1>3, <1>10 DEF OverGone
    <3>3. Climbs(at, cur, base, baseParent(base, n), N)
      BY DEF N
    <3>4. n \in DOMAIN base.bullets /\ N \in Nat /\ k \in 0..N
      BY <1>1, <1>2, <3>1
    <3>5. T \in SUBSET Gone(c, base) /\ n \in T /\ ClosedAbove(c, base, T)
      BY <2>1
    <3> HIDE DEF S, gone, all
    <3> QED BY <3>2, <3>3, <3>4, <3>5, ClimbInside, Zenon
  <2>2. n \in S
    OBVIOUS
  <2> HIDE DEF S
  <2> QED BY <1>9, <1>10, <2>1, <2>2, AboveIs
<1>11. RemovedAbove(cur, base, n) = S /\ RemovedAbove(<<>>, base, n) = S
  BY <1>8, <1>10
<1>12. Root \notin S
  BY <1>8, <1>2, <1>1
<1> HIDE DEF S
<1> QED BY <1>7, <1>11, <1>12 DEF Survivors, Loops

(* Either a removed bullet hangs below the one that is left above it, or the *)
(* baseline has it in a loop. *)
LEMMA GhostPlace ==
  ASSUME NEW base, Baseline(base), NEW cur, NEW n \in Gone(cur, base)
  PROVE  \/ /\ Anchor(cur, base, n) \in DOMAIN cur \union {Root}
            /\ Survivors(cur, base, n) = {Anchor(cur, base, n)}
         \/ Anchor(cur, base, n) = Endless /\ Survivors(cur, base, n) = {} /\ Loops(base, n)
<1> DEFINE N == Cardinality(DOMAIN base.bullets)
<1>1. N \in Nat
  BY FS_CardinalityType DEF Baseline
<1> HIDE DEF N
<1>2. PICK at : /\ Climbs(at, cur, base, baseParent(base, n), N)
                /\ Climb(cur, base, baseParent(base, n), N) = IF Stops(cur, at[N]) THEN at[N] ELSE Endless
  BY <1>1, ParentIn, ClimbRun
<1>3. Anchor(cur, base, n) = IF Stops(cur, at[N]) THEN at[N] ELSE Endless
  BY <1>2 DEF Anchor, N
<1>4. CASE Stops(cur, at[N])
  <2>1. Survivors(cur, base, n) = {at[N]}
    BY <1>1, <1>2, <1>4, AnchoredGhost
  <2> QED BY <2>1, <1>3, <1>4 DEF Stops
<1>5. CASE ~Stops(cur, at[N])
  <2>1. Survivors(cur, base, n) = {} /\ Loops(base, n)
    BY <1>2, <1>5, LoopingGhost DEF N
  <2> QED BY <2>1, <1>3, <1>5
<1> QED BY <1>4, <1>5

(* GhostsSound for every baseline and every outline. *)
THEOREM GhostsRight ==
  ASSUME NEW base, Baseline(base), NEW cur
  PROVE  GhostsSound(cur, base)
<1>1. \A n \in Gone(cur, base) :
        \/ /\ Anchor(cur, base, n) \in DOMAIN cur \union {Root}
           /\ Survivors(cur, base, n) = {Anchor(cur, base, n)}
        \/ Anchor(cur, base, n) = Endless /\ Survivors(cur, base, n) = {} /\ Loops(base, n)
  BY GhostPlace
<1>2. ASSUME \A n \in DOMAIN base.bullets : ~Loops(base, n)
      PROVE  {g.node : g \in Drawn(cur, base)} = Gone(cur, base)
  <2>1. ASSUME NEW n \in Gone(cur, base) PROVE \E g \in Drawn(cur, base) : g.node = n
    <3>1. Anchor(cur, base, n) \in DOMAIN cur \union {Root}
      BY <1>1, <1>2 DEF Gone
    <3> DEFINE g == [node |-> n, parent |-> Anchor(cur, base, n)]
    <3>2. g \in Ghosts(cur, base)
      BY DEF Ghosts, Gone
    <3>3. g \in GhostsUnder(cur, base, Anchor(cur, base, n))
      BY <3>2 DEF GhostsUnder
    <3>4. g \in Drawn(cur, base)
      BY <3>1, <3>3 DEF Drawn
    <3> QED BY <3>4
  <2>2. ASSUME NEW g \in Drawn(cur, base) PROVE g.node \in Gone(cur, base)
    <3>1. g \in Ghosts(cur, base)
      BY DEF Drawn, GhostsUnder
    <3> QED BY <3>1 DEF Ghosts, Gone
  <2> QED BY <2>1, <2>2
<1> QED BY <1>1, <1>2 DEF GhostsSound

(* Two outlines that stop the same climbs anchor a ghost alike. *)
LEMMA SameClimb ==
  ASSUME NEW base, Baseline(base), NEW cur, NEW after, NEW n,
         \A x \in Places(base) : Stops(after, x) <=> Stops(cur, x)
  PROVE  Anchor(after, base, n) = Anchor(cur, base, n)
<1> DEFINE N == Cardinality(DOMAIN base.bullets)
<1>1. N \in Nat
  BY FS_CardinalityType DEF Baseline
<1> HIDE DEF N
<1>2. PICK at : /\ Climbs(at, cur, base, baseParent(base, n), N)
                /\ Climb(cur, base, baseParent(base, n), N) = IF Stops(cur, at[N]) THEN at[N] ELSE Endless
  BY <1>1, ParentIn, ClimbRun
<1>3. PICK to : /\ Climbs(to, after, base, baseParent(base, n), N)
                /\ Climb(after, base, baseParent(base, n), N) = IF Stops(after, to[N]) THEN to[N] ELSE Endless
  BY <1>1, ParentIn, ClimbRun
<1>4. at[N] = to[N]
  <2> DEFINE T == {k \in 0..N : at[k] = to[k]}
  <2>1. 0 \in T
    BY <1>1, <1>2, <1>3 DEF Climbs
  <2>2. ASSUME NEW k \in 1..N, k - 1 \in T PROVE k \in T
    <3>1. at[k - 1] \in Places(base) /\ at[k] = Up(cur, base, at[k - 1]) /\ to[k] = Up(after, base, to[k - 1])
      BY <1>1, <1>2, <1>3 DEF Climbs
    <3>2. at[k - 1] = to[k - 1]
      BY <2>2
    <3> QED BY <3>1, <3>2 DEF Up
  <2> HIDE DEF T
  <2>3. N \in T
    BY <2>1, <2>2, <1>1, UptoN
  <2> QED BY <2>3 DEF T
<1>5. at[N] \in Places(base)
  BY <1>1, <1>2 DEF Climbs
<1> QED BY <1>2, <1>3, <1>4, <1>5 DEF Anchor, N

(* RescueSound for every baseline, outline and new id. *)
THEOREM RescueRight ==
  ASSUME NEW base, Baseline(base), NEW cur, NEW id, id \notin Places(base)
  PROVE  RescueSound(cur, base, id)
<1> SUFFICES ASSUME NEW g \in Drawn(cur, base)
             PROVE  /\ Ghosts(Rescue(cur, base, g, id), base) = Ghosts(cur, base)
                    /\ DiffStatus(Rescue(cur, base, g, id), base)[id] = "added"
  BY DEF RescueSound
<1> DEFINE after == Rescue(cur, base, g, id)
<1>1. DOMAIN after = DOMAIN cur \union {id}
  BY DEF Rescue
<1>2. id \notin DOMAIN base.bullets
  BY DEF Places
<1> HIDE DEF after
<1>3. DOMAIN base.bullets \ DOMAIN after = DOMAIN base.bullets \ DOMAIN cur
  BY <1>1, <1>2
<1>4. \A x \in Places(base) : Stops(after, x) <=> Stops(cur, x)
  BY <1>1 DEF Stops
<1>5. \A n : Anchor(after, base, n) = Anchor(cur, base, n)
  BY <1>4, SameClimb
<1>6. Ghosts(after, base) = Ghosts(cur, base)
  BY <1>3, <1>5 DEF Ghosts
<1>7. DiffStatus(after, base)[id] = "added"
  BY <1>1, <1>2 DEF DiffStatus
<1> QED BY <1>6, <1>7 DEF after

(* A function from the first numbers is a list. *)
LEMMA ListOf ==
  ASSUME NEW n \in Nat, NEW E, NEW f \in [1..n -> E]
  PROVE  f \in Seq(E)
OBVIOUS

\* What the comparison has been asked.
DiffAsked ==
    Asked("diff") =>
      /\ Baseline(input.base) /\ DOMAIN input.base.bullets = 1..4

(* GhostsRight and RescueRight for what the instance asks. *)
THEOREM GhostsStayAnchored == AlgorithmsSpec => []GhostsAnchored
<1>1. MCInit => DiffAsked
  BY DEF MCInit, DiffAsked, Asked
<1>2. DiffAsked /\ [MCNext]_mcVars => DiffAsked'
  <2> SUFFICES ASSUME DiffAsked, [MCNext]_mcVars, area = "diff" PROVE DiffAsked'
    BY StaysInArea DEF DiffAsked, Asked
  <2>1. area' = area /\ (input' = input \/ AskDiff)
    BY StaysInArea
  <2>2. CASE input' = input
    BY <2>1, <2>2 DEF DiffAsked, Asked
  <2>3. CASE AskDiff
    <3>1. PICK parent \in [1..4 -> 0..5], left \in SUBSET (1..4),
               first \in {<<>>, <<[from |-> 3, to |-> 1, type |-> "linear"]>>} :
            input' =
             [base |-> [bullets |-> [n \in 1..4 |-> 0],
                        edges |-> first \o [n \in 1..4 |->
                                    [from |-> parent[n], to |-> n,
                                     type |-> IF parent[n] = 0 THEN "branch" ELSE "linear"]]],
              cur |-> [n \in left |-> IF n = 1 THEN 1 ELSE 0]]
      BY <2>3 DEF AskDiff
    <3> DEFINE E == [from : Int, to : Int, type : {"linear", "branch"}]
               rest == [n \in 1..4 |-> [from |-> parent[n], to |-> n,
                                        type |-> IF parent[n] = 0 THEN "branch" ELSE "linear"]]
    <3>2. rest \in Seq(E)
      <4>1. ASSUME NEW n \in 1..4
            PROVE  [from |-> parent[n], to |-> n,
                    type |-> IF parent[n] = 0 THEN "branch" ELSE "linear"] \in E
        <5>1. parent[n] \in Int /\ n \in Int
          OBVIOUS
        <5> QED BY <5>1
      <4> HIDE DEF E
      <4>2. rest \in [1..4 -> E]
        BY <4>1
      <4> HIDE DEF rest
      <4> QED BY <4>2, 4 \in Nat, ListOf, Zenon
    <3>3. first \in Seq(E)
      <4> DEFINE e == [from |-> 3, to |-> 1, type |-> "linear"]
      <4>2. e \in E
        OBVIOUS
      <4>3. first \in {<<>>, <<e>>}
        OBVIOUS
      <4> HIDE DEF e, E
      <4>4. <<>> \in Seq(E) /\ <<e>> \in Seq(E)
        BY <4>2
      <4> QED BY <4>3, <4>4
    <3>4. first \o rest \in Seq(E)
      <4> HIDE DEF rest, E
      <4> QED BY <3>2, <3>3
    <3>5. input'.base.edges = first \o rest /\ DOMAIN input'.base.bullets = 1..4
      BY <3>1
    <3>6. IsFiniteSet(1..4)
      <4>1. \A n \in Int : IsFiniteSet(1..n)
        BY FS_Interval
      <4> QED BY <4>1, 4 \in Int, Zenon
    <3>7. 1..4 \subseteq Nat \ {Root}
      BY DEF Root
    <3> HIDE DEF rest
    <3> QED BY <3>4, <3>5, <3>6, <3>7 DEF DiffAsked, Baseline
  <2> QED BY <2>1, <2>2, <2>3
<1>3. DiffAsked => GhostsAnchored
  <2> SUFFICES ASSUME DiffAsked, Asked("diff")
               PROVE  GhostsSound(input.cur, input.base) /\ RescueSound(input.cur, input.base, 9)
    BY DEF GhostsAnchored
  <2>1. Baseline(input.base) /\ 9 \notin Places(input.base)
    BY DEF DiffAsked, Places, Root
  <2> QED BY <2>1, GhostsRight, RescueRight
<1> QED BY <1>1, <1>2, <1>3, PTL DEF AlgorithmsSpec

-----------------------------------------------------------------------------
(* The order a document is read in: SortSound, CycleCheckSound, WalkSound and *)
(* PaneSound, for every document. *)

IsList(s) == \E S : s \in Seq(S)

(* What a list is. *)
LEMMA ListIs ==
  ASSUME NEW s, IsList(s)
  PROVE  /\ Len(s) \in Nat /\ DOMAIN s = 1..Len(s) /\ s \in Seq(Range(s))
         /\ \A i \in 1..Len(s) : s[i] \in Range(s)
         /\ \A x \in Range(s) : \E i \in 1..Len(s) : s[i] = x
<1>1. PICK S : s \in Seq(S)
  BY DEF IsList
<1>2. Len(s) \in Nat /\ DOMAIN s = 1..Len(s) /\ s \in [1..Len(s) -> S]
  BY <1>1
<1>3. s \in [1..Len(s) -> Range(s)]
  BY <1>2 DEF Range
<1>4. s \in Seq(Range(s))
  BY <1>2, <1>3, ListOf
<1> QED BY <1>2, <1>3, <1>4 DEF Range

(* Places of a list are finitely many. *)
LEMMA PlacesFinite ==
  ASSUME NEW n \in Nat, NEW I \in SUBSET (1..n)
  PROVE  IsFiniteSet(I) /\ Cardinality(I) \in Nat /\ Cardinality(I) <= n
<1>1. IsFiniteSet(1..n) /\ Cardinality(1..n) = n
  BY FS_Interval
<1>2. IsFiniteSet(I) /\ Cardinality(I) <= Cardinality(1..n)
  BY <1>1, FS_Subset
<1>3. Cardinality(I) \in Nat
  BY <1>2, FS_CardinalityType
<1> QED BY <1>1, <1>2, <1>3

(* What is picked from a list is in it, in its order. *)
LEMMA PickedRight ==
  ASSUME NEW s, IsList(s), NEW I \in SUBSET (1..Len(s))
  PROVE  /\ Cardinality(I) \in Nat
         /\ Picked(s, I) \in Seq(Range(s)) /\ Len(Picked(s, I)) = Cardinality(I)
         /\ \A k \in 1..Cardinality(I) : Nth(I, k) \in I /\ Picked(s, I)[k] = s[Nth(I, k)]
         /\ \A i \in I : \E k \in 1..Cardinality(I) : Nth(I, k) = i
         /\ \A j, k \in 1..Cardinality(I) : j < k <=> Nth(I, j) < Nth(I, k)
         /\ Range(Picked(s, I)) = {s[i] : i \in I}
<1>1. Len(s) \in Nat /\ \A i \in 1..Len(s) : s[i] \in Range(s)
  BY ListIs
<1>2. IsFiniteSet(I) /\ I \in SUBSET Int
  BY <1>1, PlacesFinite
<1> DEFINE n == Cardinality(I)
<1>3. /\ n \in Nat
      /\ \A k \in 1..n : Nth(I, k) \in I
      /\ \A i \in I : \E k \in 1..n : Nth(I, k) = i
      /\ \A j, k \in 1..n : j < k <=> Nth(I, j) < Nth(I, k)
  BY <1>2, NthRight
<1>4. Picked(s, I) = [k \in 1..n |-> s[Nth(I, k)]]
  BY DEF Picked
<1> HIDE DEF n
<1>5. Picked(s, I) \in [1..n -> Range(s)]
  BY <1>1, <1>3, <1>4
<1>6. Picked(s, I) \in Seq(Range(s)) /\ Len(Picked(s, I)) = n
  BY <1>3, <1>5
<1>7. Range(Picked(s, I)) = {s[i] : i \in I}
  <2>1. Range(Picked(s, I)) = {s[Nth(I, k)] : k \in 1..n}
    BY <1>4 DEF Range
  <2> QED BY <2>1, <1>3
<1> QED BY <1>3, <1>4, <1>6, <1>7 DEF n

\* A document as the store holds it: every node once, and no dangling edge.
Doc(d) ==
    /\ IsList(d.nodes) /\ IsList(d.edges) /\ IsInjective(d.nodes) /\ 0 \notin NodeIDs(d)
    /\ \A i \in DOMAIN d.edges : {d.edges[i].from, d.edges[i].to} \subseteq NodeIDs(d)

(* A document has as many nodes as it lists. *)
LEMMA NodesCounted ==
  ASSUME NEW d, Doc(d)
  PROVE  /\ Len(d.nodes) \in Nat /\ DOMAIN d.nodes = 1..Len(d.nodes)
         /\ IsFiniteSet(NodeIDs(d)) /\ Cardinality(NodeIDs(d)) = Len(d.nodes)
         /\ Len(d.edges) \in Nat /\ DOMAIN d.edges = 1..Len(d.edges)
<1> DEFINE n == Len(d.nodes)
           V == NodeIDs(d)
<1>1. n \in Nat /\ DOMAIN d.nodes = 1..n /\ d.nodes \in Seq(V) /\ \A x \in V : \E i \in 1..n : d.nodes[i] = x
  BY ListIs DEF Doc, NodeIDs
<1>2. Len(d.edges) \in Nat /\ DOMAIN d.edges = 1..Len(d.edges)
  BY ListIs DEF Doc
<1>3. IsFiniteSet(1..n) /\ Cardinality(1..n) = n
  BY <1>1, FS_Interval
<1> HIDE DEF n, V
<1>4. d.nodes \in [1..n -> V]
  BY <1>1 DEF n
<1>5. d.nodes \in Bijection(1..n, V)
  BY <1>1, <1>4 DEF Bijection, Injection, Surjection, IsInjective, Doc
<1>6. IsFiniteSet(V) /\ Cardinality(V) = n
  BY <1>3, <1>5, FS_Bijection DEF ExistsBijection
<1> QED BY <1>1, <1>2, <1>6 DEF n, V

(* The exits pane offers a node only what it does not link to yet. *)
THEOREM PaneRight == ASSUME NEW d, Doc(d) PROVE PaneSound(d)
<1> SUFFICES ASSUME NEW n \in NodeIDs(d)
             PROVE  /\ n \notin NodeExits(d, n).options
                    /\ \A i \in DOMAIN NodeExits(d, n).exits :
                         NodeExits(d, n).exits[i].to \notin NodeExits(d, n).options
  BY DEF PaneSound
<1> DEFINE I == {i \in EdgesFrom(d, n) : d.edges[i].type # "linear"}
           exits == Picked(d.edges, I)
<1>1. I \in SUBSET (1..Len(d.edges)) /\ Len(d.edges) \in Nat /\ I \subseteq EdgesFrom(d, n)
  BY NodesCounted DEF EdgesFrom
<1>2. NodeExits(d, n).exits = exits
      /\ NodeExits(d, n).options = NodeIDs(d) \ ({n} \union {d.edges[i].to : i \in EdgesFrom(d, n)})
  BY DEF NodeExits
<1> HIDE DEF I
<1>3. ASSUME NEW i \in DOMAIN exits PROVE \E x \in I : exits[i] = d.edges[x]
  <2>1. IsList(d.edges)
    BY DEF Doc
  <2>2. /\ exits \in Seq(Range(d.edges)) /\ Len(exits) = Cardinality(I)
        /\ \A k \in 1..Cardinality(I) : Nth(I, k) \in I /\ exits[k] = d.edges[Nth(I, k)]
    BY <1>1, <2>1, PickedRight
  <2> HIDE DEF exits
  <2>3. i \in 1..Cardinality(I)
    BY <2>2
  <2> QED BY <2>2, <2>3
<1> HIDE DEF exits
<1> QED BY <1>1, <1>2, <1>3

-----------------------------------------------------------------------------
(* Appending, dropping the first and joining, as a queue does. *)
LEMMA AppendIs ==
  ASSUME NEW S, NEW s \in Seq(S), NEW x \in S
  PROVE  /\ Append(s, x) \in Seq(S) /\ Len(Append(s, x)) = Len(s) + 1
         /\ Range(Append(s, x)) = Range(s) \union {x}
         /\ \A i \in 1..Len(s) : Append(s, x)[i] = s[i]
         /\ Append(s, x)[Len(s) + 1] = x
         /\ IsInjective(s) /\ x \notin Range(s) => IsInjective(Append(s, x))
<1> DEFINE t == Append(s, x)
           n == Len(s)
<1>1. /\ n \in Nat /\ t \in Seq(S) /\ Len(t) = n + 1 /\ DOMAIN t = 1..(n + 1) /\ DOMAIN s = 1..n
      /\ t[n + 1] = x /\ \A i \in 1..n : t[i] = s[i]
  OBVIOUS
<1> HIDE DEF t, n
<1>2. \A i \in 1..(n + 1) : i \in 1..n \/ i = n + 1
  BY <1>1
<1>3. Range(t) = Range(s) \union {x}
  <2>1. \A y \in Range(t) : y \in Range(s) \union {x}
    BY <1>1, <1>2 DEF Range
  <2>2. \A y \in Range(s) : y \in Range(t)
    <3>1. \A i \in 1..n : i \in 1..(n + 1)
      BY <1>1
    <3> QED BY <1>1, <3>1 DEF Range
  <2>3. n + 1 \in 1..(n + 1)
    BY <1>1
  <2>4. x \in Range(t)
    BY <1>1, <2>3 DEF Range
  <2> QED BY <2>1, <2>2, <2>4
<1>4. ASSUME IsInjective(s), x \notin Range(s) PROVE IsInjective(t)
  <2>1. \A i \in 1..n : s[i] \in Range(s)
    BY <1>1 DEF Range
  <2> SUFFICES ASSUME NEW a \in 1..(n + 1), NEW b \in 1..(n + 1), t[a] = t[b] PROVE a = b
    BY <1>1 DEF IsInjective
  <2> QED BY <1>1, <1>2, <1>4, <2>1 DEF IsInjective
<1> QED BY <1>1, <1>3, <1>4 DEF t, n

(* Dropping the first. *)
LEMMA TailIs ==
  ASSUME NEW S, NEW s \in Seq(S), s # <<>>
  PROVE  /\ Head(s) \in S /\ Head(s) = s[1] /\ Tail(s) \in Seq(S) /\ Len(s) \in Nat /\ Len(s) > 0
         /\ Len(Tail(s)) = Len(s) - 1
         /\ Range(s) = {Head(s)} \union Range(Tail(s))
         /\ \A i \in 1..(Len(s) - 1) : Tail(s)[i] = s[i + 1]
         /\ IsInjective(s) => IsInjective(Tail(s)) /\ Head(s) \notin Range(Tail(s))
<1> DEFINE t == Tail(s)
           n == Len(s)
<1>1. /\ n \in Nat /\ n > 0 /\ t \in Seq(S) /\ Len(t) = n - 1 /\ DOMAIN t = 1..(n - 1) /\ DOMAIN s = 1..n
      /\ Head(s) = s[1] /\ Head(s) \in S /\ \A i \in 1..(n - 1) : t[i] = s[i + 1]
  OBVIOUS
<1> HIDE DEF t, n
<1>2. \A i \in 1..n : i = 1 \/ (i - 1 \in 1..(n - 1) /\ (i - 1) + 1 = i)
  BY <1>1
<1>3. \A i \in 1..(n - 1) : i + 1 \in 1..n /\ i + 1 # 1
  BY <1>1
<1>4. 1 \in 1..n
  BY <1>1
<1>5. Range(s) = {Head(s)} \union Range(t)
  <2>1. ASSUME NEW i \in 1..n PROVE s[i] \in {Head(s)} \union Range(t)
    <3>1. CASE i = 1
      BY <3>1, <1>1
    <3>2. CASE i - 1 \in 1..(n - 1) /\ (i - 1) + 1 = i
      <4>1. t[i - 1] = s[i]
        BY <3>2, <1>1
      <4> QED BY <4>1, <3>2, <1>1 DEF Range
    <3> QED BY <3>1, <3>2, <1>2
  <2>2. ASSUME NEW i \in 1..(n - 1) PROVE t[i] \in Range(s)
    BY <1>1, <1>3 DEF Range
  <2>3. Head(s) \in Range(s)
    BY <1>1, <1>4 DEF Range
  <2> QED BY <2>1, <2>2, <2>3, <1>1 DEF Range
<1>6. ASSUME IsInjective(s) PROVE IsInjective(t) /\ Head(s) \notin Range(t)
  <2>1. ASSUME NEW a \in 1..(n - 1), NEW b \in 1..(n - 1), t[a] = t[b] PROVE a = b
    <3>1. a + 1 \in 1..n /\ b + 1 \in 1..n /\ s[a + 1] = s[b + 1]
      BY <1>1, <1>3, <2>1
    <3>2. a + 1 = b + 1
      BY <1>1, <3>1, <1>6 DEF IsInjective
    <3> QED BY <3>2
  <2>2. ASSUME NEW a \in 1..(n - 1) PROVE t[a] # s[1]
    BY <1>1, <1>3, <1>4, <1>6 DEF IsInjective
  <2> QED BY <2>1, <2>2, <1>1 DEF IsInjective, Range
<1> QED BY <1>1, <1>5, <1>6 DEF t, n

(* Joining two lists. *)
LEMMA JoinIs ==
  ASSUME NEW S, NEW s \in Seq(S), NEW t \in Seq(S)
  PROVE  /\ s \o t \in Seq(S) /\ Len(s \o t) = Len(s) + Len(t)
         /\ Range(s \o t) = Range(s) \union Range(t)
         /\ \A i \in 1..Len(s) : (s \o t)[i] = s[i]
         /\ \A i \in 1..Len(t) : (s \o t)[Len(s) + i] = t[i]
         /\ IsInjective(s) /\ IsInjective(t) /\ Range(s) \cap Range(t) = {} => IsInjective(s \o t)
<1> DEFINE u == s \o t
           m == Len(s)
           n == Len(t)
<1>1. /\ m \in Nat /\ n \in Nat /\ u \in Seq(S) /\ Len(u) = m + n
      /\ DOMAIN s = 1..m /\ DOMAIN t = 1..n /\ DOMAIN u = 1..(m + n)
  OBVIOUS
<1>2. \A i \in 1..m : u[i] = s[i]
  OBVIOUS
<1>3. \A i \in 1..n : u[m + i] = t[i]
  OBVIOUS
<1> HIDE DEF u, m, n
<1>4. \A i \in 1..(m + n) : i \in 1..m \/ (i - m \in 1..n /\ m + (i - m) = i)
  BY <1>1
<1>5. (\A i \in 1..m : i \in 1..(m + n)) /\ (\A i \in 1..n : m + i \in 1..(m + n))
  BY <1>1
<1>6. Range(u) = Range(s) \union Range(t)
  <2>1. \A y \in Range(u) : y \in Range(s) \union Range(t)
    <3> SUFFICES ASSUME NEW i \in 1..(m + n) PROVE u[i] \in Range(s) \union Range(t)
      BY <1>1 DEF Range
    <3>1. CASE i \in 1..m
      BY <3>1, <1>1, <1>2 DEF Range
    <3>2. CASE i - m \in 1..n /\ m + (i - m) = i
      <4>1. u[i] = t[i - m]
        BY <3>2, <1>3
      <4> QED BY <4>1, <3>2, <1>1 DEF Range
    <3> QED BY <3>1, <3>2, <1>4
  <2>2. \A i \in 1..m : s[i] \in Range(u)
    BY <1>1, <1>2, <1>5 DEF Range
  <2>3. \A i \in 1..n : t[i] \in Range(u)
    BY <1>1, <1>3, <1>5 DEF Range
  <2>4. (\A y \in Range(s) : y \in Range(u)) /\ (\A y \in Range(t) : y \in Range(u))
    BY <2>2, <2>3, <1>1 DEF Range
  <2> QED BY <2>1, <2>4
<1>7. ASSUME IsInjective(s), IsInjective(t), Range(s) \cap Range(t) = {} PROVE IsInjective(u)
  <2> SUFFICES ASSUME NEW a \in 1..(m + n), NEW b \in 1..(m + n), u[a] = u[b] PROVE a = b
    BY <1>1 DEF IsInjective
  <2>1. \A i \in 1..m : s[i] \in Range(s)
    BY <1>1 DEF Range
  <2>2. \A i \in 1..n : t[i] \in Range(t)
    BY <1>1 DEF Range
  <2>3. CASE a \in 1..m /\ b \in 1..m
    BY <2>3, <1>1, <1>2, <1>7 DEF IsInjective
  <2>4. CASE a \in 1..m /\ b \notin 1..m
    <3>1. b - m \in 1..n /\ u[b] = t[b - m]
      BY <2>4, <1>3, <1>4
    <3>2. u[a] \in Range(s) /\ u[b] \in Range(t)
      BY <3>1, <2>4, <2>1, <2>2, <1>2
    <3> QED BY <3>2, <1>7
  <2>5. CASE a \notin 1..m /\ b \in 1..m
    <3>1. a - m \in 1..n /\ u[a] = t[a - m]
      BY <2>5, <1>3, <1>4
    <3>2. u[b] \in Range(s) /\ u[a] \in Range(t)
      BY <3>1, <2>5, <2>1, <2>2, <1>2
    <3> QED BY <3>2, <1>7
  <2>6. CASE a \notin 1..m /\ b \notin 1..m
    <3>1. a - m \in 1..n /\ b - m \in 1..n /\ t[a - m] = t[b - m]
      <4>1. a - m \in 1..n /\ m + (a - m) = a /\ b - m \in 1..n /\ m + (b - m) = b
        BY <2>6, <1>4
      <4>2. u[a] = t[a - m] /\ u[b] = t[b - m]
        BY <4>1, <1>3
      <4> QED BY <4>1, <4>2
    <3>2. a - m = b - m
      BY <3>1, <1>1, <1>7 DEF IsInjective
    <3> QED BY <3>2, <1>1
  <2> QED BY <2>3, <2>4, <2>5, <2>6
<1> QED BY <1>1, <1>2, <1>3, <1>6, <1>7 DEF u, m, n

\* The edges into a node that come from a node that is not in T.
IntoFrom(d, T, n) == {i \in DOMAIN d.edges : d.edges[i].to = n /\ d.edges[i].from \notin T}

\* What holds of the sort after any number of nodes.
SortRuns(d, s) ==
    /\ s \in [sorted : Seq(NodeIDs(d)), degree : [NodeIDs(d) -> Int], queue : Seq(NodeIDs(d))]
    /\ IsInjective(s.sorted) /\ IsInjective(s.queue) /\ Range(s.sorted) \cap Range(s.queue) = {}
    /\ \A n \in NodeIDs(d) : /\ s.degree[n] = Cardinality(IntoFrom(d, Range(s.sorted), n))
                             /\ n \in Range(s.sorted) \union Range(s.queue)
                                  <=> IntoFrom(d, Range(s.sorted), n) = {}
    /\ \A q \in DOMAIN s.sorted, i \in DOMAIN d.edges : d.edges[i].to = s.sorted[q] =>
         \E p \in 1..(q - 1) : s.sorted[p] = d.edges[i].from
    /\ IF s.sorted = <<>> THEN s.queue = FindRoots(d) ELSE s.sorted[1] = FindRoots(d)[1]

(* A node released by the last of its edges has no other edge left. *)
LEMMA ReleasedOnce ==
  ASSUME NEW d, Doc(d), NEW s, SortRuns(d, s), NEW out \in SUBSET DOMAIN d.edges,
         \A i \in out : d.edges[i].from \notin Range(s.sorted)
  PROVE  /\ \A i \in out : Releases(d, s.degree, out, i) =>
              /\ IntoFrom(d, Range(s.sorted), d.edges[i].to) = {j \in out : d.edges[j].to = d.edges[i].to}
              /\ \A j \in out : d.edges[j].to = d.edges[i].to => j <= i
         /\ \A n \in NodeIDs(d) :
              IntoFrom(d, Range(s.sorted), n) # {} /\ IntoFrom(d, Range(s.sorted), n) \subseteq out =>
                \E i \in out : d.edges[i].to = n /\ Releases(d, s.degree, out, i)
<1> DEFINE m == Len(d.edges)
           Left(n) == IntoFrom(d, Range(s.sorted), n)
           Some(i) == {j \in out : j <= i /\ d.edges[j].to = d.edges[i].to}
<1>1. m \in Nat /\ DOMAIN d.edges = 1..m
  BY NodesCounted
<1>2. \A n \in NodeIDs(d) : Left(n) \in SUBSET (1..m) /\ s.degree[n] = Cardinality(Left(n))
  BY <1>1 DEF IntoFrom, SortRuns
<1>3. \A n \in NodeIDs(d) : IsFiniteSet(Left(n))
  BY <1>1, <1>2, PlacesFinite
<1>4. \A i \in out : d.edges[i].to \in NodeIDs(d) /\ Some(i) \subseteq Left(d.edges[i].to)
  BY <1>1 DEF Doc, IntoFrom
<1>5. ASSUME NEW i \in out, Releases(d, s.degree, out, i) PROVE Some(i) = Left(d.edges[i].to)
  <2>1. Cardinality(Some(i)) = Cardinality(Left(d.edges[i].to))
    BY <1>2, <1>4, <1>5 DEF Releases
  <2> HIDE DEF Some, Left
  <2> QED BY <2>1, <1>3, <1>4, FS_Subset
<1>6. ASSUME NEW n \in NodeIDs(d), Left(n) # {}, Left(n) \subseteq out
      PROVE  \E i \in out : d.edges[i].to = n /\ Releases(d, s.degree, out, i)
  <2> DEFINE i == Max(Left(n))
  <2>1. i \in Left(n) /\ \A j \in Left(n) : j <= i
    <3> HIDE DEF Left
    <3> QED BY <1>1, <1>2, <1>6, TopIn
  <2> HIDE DEF i
  <2>2. i \in out /\ d.edges[i].to = n
    BY <2>1, <1>6 DEF IntoFrom
  <2>3. Some(i) = Left(n)
    <3>1. \A j \in Left(n) : j \in out /\ d.edges[j].to = n
      BY <1>6 DEF IntoFrom
    <3> HIDE DEF Left
    <3> QED BY <3>1, <2>1, <2>2, <1>4
  <2>4. s.degree[n] = Cardinality(Some(i))
    BY <2>3, <1>2
  <2> QED BY <2>2, <2>4 DEF Releases
<1>7. ASSUME NEW i \in out, Releases(d, s.degree, out, i)
      PROVE  /\ Left(d.edges[i].to) = {j \in out : d.edges[j].to = d.edges[i].to}
             /\ \A j \in out : d.edges[j].to = d.edges[i].to => j <= i
  <2>1. Some(i) = Left(d.edges[i].to)
    BY <1>5, <1>7
  <2>2. \A j \in out : d.edges[j].to = d.edges[i].to => j \in Left(d.edges[i].to)
    BY DEF IntoFrom
  <2> HIDE DEF Left
  <2> QED BY <2>1, <2>2
<1> QED BY <1>6, <1>7

-----------------------------------------------------------------------------
\* Where the sort begins.
SortStart(d) ==
    [queue |-> Picked(d.nodes, {i \in DOMAIN d.nodes : InDegree(d)[d.nodes[i]] = 0}),
     sorted |-> <<>>, degree |-> InDegree(d)]

(* The sort starts so that what holds of it holds. *)
LEMMA SortStarts ==
  ASSUME NEW d, Doc(d)
  PROVE  SortRuns(d, SortStart(d))
<1> DEFINE V == NodeIDs(d)
           m == Len(d.edges)
           n == Len(d.nodes)
           roots == {k \in DOMAIN d.nodes : \A i \in DOMAIN d.edges : d.edges[i].to # d.nodes[k]}
           s == SortStart(d)
           q == Picked(d.nodes, roots)
<1>1. n \in Nat /\ DOMAIN d.nodes = 1..n /\ m \in Nat /\ DOMAIN d.edges = 1..m
  BY NodesCounted
<1>2. \A x \in V : IntoFrom(d, {}, x) = {i \in DOMAIN d.edges : d.edges[i].to = x}
  BY DEF IntoFrom
<1>3. \A x \in V : /\ IsFiniteSet(IntoFrom(d, {}, x)) /\ Cardinality(IntoFrom(d, {}, x)) \in Nat
                   /\ Cardinality(IntoFrom(d, {}, x)) = 0 <=> IntoFrom(d, {}, x) = {}
  <2> TAKE x \in V
  <2>1. IntoFrom(d, {}, x) \in SUBSET (1..m)
    BY <1>1 DEF IntoFrom
  <2>2. IsFiniteSet(IntoFrom(d, {}, x)) /\ Cardinality(IntoFrom(d, {}, x)) \in Nat
    BY <1>1, <2>1, PlacesFinite
  <2> QED BY <2>2, FS_EmptySet
<1>4. InDegree(d) \in [V -> Int] /\ \A x \in V : InDegree(d)[x] = Cardinality(IntoFrom(d, {}, x))
  <2>1. ASSUME NEW x \in V
        PROVE  /\ Cardinality({i \in DOMAIN d.edges : d.edges[i].to = x}) = Cardinality(IntoFrom(d, {}, x))
               /\ Cardinality(IntoFrom(d, {}, x)) \in Int
    BY <1>2, <1>3
  <2> QED BY <2>1 DEF InDegree
<1>5. \A k \in DOMAIN d.nodes : d.nodes[k] \in V
  BY DEF NodeIDs, Range
<1>6. {i \in DOMAIN d.nodes : InDegree(d)[d.nodes[i]] = 0} = roots
  <2>1. \A k \in DOMAIN d.nodes : InDegree(d)[d.nodes[k]] = 0 <=> k \in roots
    BY <1>2, <1>3, <1>4, <1>5
  <2> HIDE DEF V
  <2> QED BY <2>1
<1>7. s.queue = q /\ s.sorted = <<>> /\ s.degree = InDegree(d) /\ FindRoots(d) = q
      /\ s = [queue |-> q, sorted |-> <<>>, degree |-> InDegree(d)]
  BY <1>6 DEF SortStart, FindRoots
<1>8. roots \in SUBSET (1..n) /\ IsList(d.nodes)
  BY <1>1 DEF Doc
<1>9. /\ q \in Seq(V) /\ Len(q) = Cardinality(roots) /\ Cardinality(roots) \in Nat
      /\ \A k \in 1..Cardinality(roots) : Nth(roots, k) \in roots /\ q[k] = d.nodes[Nth(roots, k)]
      /\ \A j, k \in 1..Cardinality(roots) : j < k <=> Nth(roots, j) < Nth(roots, k)
      /\ Range(q) = {d.nodes[i] : i \in roots}
  <2> HIDE DEF roots
  <2> QED BY <1>8, PickedRight DEF NodeIDs
<1> HIDE DEF s, q
<1>10. IsInjective(q)
  <2> SUFFICES ASSUME NEW a \in 1..Cardinality(roots), NEW b \in 1..Cardinality(roots), q[a] = q[b]
               PROVE  a = b
    BY <1>9 DEF IsInjective
  <2>1. Nth(roots, a) \in DOMAIN d.nodes /\ Nth(roots, b) \in DOMAIN d.nodes
    BY <1>9
  <2>2. Nth(roots, a) = Nth(roots, b)
    BY <1>9, <2>1 DEF Doc, IsInjective
  <2>3. ~(a < b) /\ ~(b < a)
    <3>1. Nth(roots, a) \in Int
      BY <1>1, <2>1
    <3> HIDE DEF roots
    <3> QED BY <1>9, <2>2, <3>1
  <2> QED BY <2>3, <1>9
<1>11. Range(<<>>) = {} /\ IsInjective(<<>>)
  BY DEF Range, IsInjective
<1>12. \A x \in V : x \in Range(q) <=> IntoFrom(d, {}, x) = {}
  <2> TAKE x \in V
  <2>1. PICK k \in DOMAIN d.nodes : d.nodes[k] = x
    BY DEF NodeIDs, Range
  <2>2. \A j \in DOMAIN d.nodes : d.nodes[j] = x => j = k
    BY <2>1 DEF Doc, IsInjective
  <2>3. x \in Range(q) <=> k \in roots
    BY <1>9, <2>1, <2>2
  <2> QED BY <2>1, <2>3, <1>2
<1>13. s \in [sorted : Seq(V), degree : [V -> Int], queue : Seq(V)]
  <2> HIDE DEF V
  <2> QED BY <1>4, <1>7, <1>9
<1>14. \A x \in V : /\ s.degree[x] = Cardinality(IntoFrom(d, Range(s.sorted), x))
                    /\ x \in Range(s.sorted) \union Range(s.queue) <=> IntoFrom(d, Range(s.sorted), x) = {}
  <2> HIDE DEF V
  <2> QED BY <1>4, <1>7, <1>11, <1>12
<1>15. DOMAIN s.sorted = {}
  BY <1>7
<1> QED BY <1>7, <1>10, <1>11, <1>13, <1>14, <1>15 DEF SortRuns, s

(* One node sorted keeps it, and the queue gets shorter or the list longer. *)
LEMMA SortSteps ==
  ASSUME NEW d, Doc(d), NEW s, SortRuns(d, s)
  PROVE  /\ SortRuns(d, Take(d, s))
         /\ s.queue # <<>> => Len(Take(d, s).sorted) = Len(s.sorted) + 1
         /\ s.queue = <<>> => Take(d, s) = s
<1>1. CASE s.queue = <<>>
  BY <1>1 DEF Take
<1>2. CASE s.queue # <<>>
  <2> DEFINE V == NodeIDs(d)
             E == DOMAIN d.edges
             id == Head(s.queue)
             out == EdgesFrom(d, id)
             I == {i \in out : Releases(d, s.degree, out, i)}
             released == Picked(d.edges, I)
             joined == [k \in DOMAIN released |-> released[k].to]
             T == Range(s.sorted)
             s2 == Take(d, s)
  <2>1. Len(d.edges) \in Nat /\ E = 1..Len(d.edges) /\ IsList(d.edges)
    BY NodesCounted DEF Doc
  <2>2. s.sorted \in Seq(V) /\ s.queue \in Seq(V) /\ s.degree \in [V -> Int]
    BY DEF SortRuns
  <2>3. /\ id \in V /\ Tail(s.queue) \in Seq(V) /\ Range(s.queue) = {id} \union Range(Tail(s.queue))
        /\ IsInjective(Tail(s.queue)) /\ id \notin Range(Tail(s.queue))
    <3>1. IsInjective(s.queue)
      BY DEF SortRuns
    <3> HIDE DEF V
    <3> QED BY <1>2, <2>2, <3>1, TailIs
  <2>4. id \notin T
    BY <2>3 DEF SortRuns
  <2>5. /\ Append(s.sorted, id) \in Seq(V) /\ Len(Append(s.sorted, id)) = Len(s.sorted) + 1
        /\ Range(Append(s.sorted, id)) = T \union {id} /\ IsInjective(Append(s.sorted, id))
        /\ \A i \in 1..Len(s.sorted) : Append(s.sorted, id)[i] = s.sorted[i]
        /\ Append(s.sorted, id)[Len(s.sorted) + 1] = id
    <3>1. IsInjective(s.sorted)
      BY DEF SortRuns
    <3> HIDE DEF V, id
    <3> QED BY <2>2, <2>3, <2>4, <3>1, AppendIs
  <2>6. /\ s2.sorted = Append(s.sorted, id)
        /\ s2.degree = [n \in V |-> s.degree[n] - Cardinality({i \in out : d.edges[i].to = n})]
        /\ s2.queue = Tail(s.queue) \o joined
        /\ s2 = [sorted |-> s2.sorted, degree |-> s2.degree, queue |-> s2.queue]
    BY <1>2 DEF Take
  <2>7. out \in SUBSET E /\ \A i \in E : i \in out <=> d.edges[i].from = id
    BY DEF EdgesFrom
  <2>8. I \in SUBSET (1..Len(d.edges)) /\ I \subseteq out
    BY <2>1, <2>7
  <2>9. /\ released \in Seq(Range(d.edges)) /\ Len(released) = Cardinality(I) /\ Cardinality(I) \in Nat
        /\ \A k \in 1..Cardinality(I) : Nth(I, k) \in I /\ released[k] = d.edges[Nth(I, k)]
        /\ \A j, k \in 1..Cardinality(I) : j < k <=> Nth(I, j) < Nth(I, k)
        /\ \A i \in I : \E k \in 1..Cardinality(I) : Nth(I, k) = i
    <3> HIDE DEF I
    <3> QED BY <2>1, <2>8, PickedRight
  <2>10. /\ \A i \in I : /\ IntoFrom(d, T, d.edges[i].to) = {j \in out : d.edges[j].to = d.edges[i].to}
                         /\ \A j \in out : d.edges[j].to = d.edges[i].to => j <= i
         /\ \A n \in V : (IntoFrom(d, T, n) # {} /\ IntoFrom(d, T, n) \subseteq out) =>
              \E i \in I : d.edges[i].to = n
    <3>1. \A i \in out : d.edges[i].from \notin T
      BY <2>4, <2>7
    <3> HIDE DEF out, V
    <3>2. /\ \A i \in out : Releases(d, s.degree, out, i) =>
               /\ IntoFrom(d, Range(s.sorted), d.edges[i].to) = {j \in out : d.edges[j].to = d.edges[i].to}
               /\ \A j \in out : d.edges[j].to = d.edges[i].to => j <= i
          /\ \A n \in NodeIDs(d) :
               IntoFrom(d, Range(s.sorted), n) # {} /\ IntoFrom(d, Range(s.sorted), n) \subseteq out =>
                 \E i \in out : d.edges[i].to = n /\ Releases(d, s.degree, out, i)
      BY <2>7, <3>1, ReleasedOnce
    <3> QED BY <3>2 DEF V
  <2>11. \A i \in I : d.edges[i].to \in V /\ i \in IntoFrom(d, T, d.edges[i].to) /\ i \in E
    BY <2>1, <2>4, <2>7, <2>8 DEF Doc, IntoFrom
  <2> HIDE DEF id, out, I, released, s2
  <2>12. /\ joined \in Seq(V) /\ Range(joined) = {d.edges[i].to : i \in I} /\ IsInjective(joined)
         /\ Len(joined) = Cardinality(I)
    <3>1. DOMAIN joined = 1..Cardinality(I) /\ \A k \in 1..Cardinality(I) : joined[k] = d.edges[Nth(I, k)].to
      BY <2>9
    <3> HIDE DEF joined
    <3>2. \A k \in 1..Cardinality(I) : joined[k] \in V
      BY <2>9, <2>11, <3>1
    <3>3. joined = [k \in 1..Cardinality(I) |-> joined[k]]
      BY <3>1 DEF joined
    <3>4. joined \in [1..Cardinality(I) -> V]
      BY <3>2, <3>3
    <3>5. joined \in Seq(V) /\ Len(joined) = Cardinality(I)
      BY <2>9, <3>4
    <3>6. Range(joined) = {d.edges[i].to : i \in I}
      BY <2>9, <3>1 DEF Range
    <3>7. IsInjective(joined)
      <4> SUFFICES ASSUME NEW a \in 1..Cardinality(I), NEW b \in 1..Cardinality(I), joined[a] = joined[b]
                   PROVE  a = b
        BY <3>1 DEF IsInjective
      <4>1. Nth(I, a) \in I /\ Nth(I, b) \in I /\ d.edges[Nth(I, a)].to = d.edges[Nth(I, b)].to
        BY <2>9, <3>1
      <4>2. Nth(I, a) <= Nth(I, b) /\ Nth(I, b) <= Nth(I, a) /\ Nth(I, a) \in Int /\ Nth(I, b) \in Int
        <5>1. \A i \in I, j \in I : d.edges[j].to = d.edges[i].to => j <= i
          BY <2>8, <2>10
        <5>2. Nth(I, a) \in Int /\ Nth(I, b) \in Int
          <6>1. \A i \in I : i \in Int
            BY <2>1, <2>8
          <6> QED BY <4>1, <6>1
        <5> QED BY <4>1, <5>1, <5>2
      <4>3. ~(a < b) /\ ~(b < a)
        BY <2>9, <4>2
      <4> QED BY <4>3, <2>9
    <3> QED BY <3>5, <3>6, <3>7
  <2> HIDE DEF joined
  <2>13. \A n \in V : n \in Range(joined) => n \notin T \union Range(s.queue)
    <3> TAKE n \in V
    <3> HAVE n \in Range(joined)
    <3>1. PICK i \in I : d.edges[i].to = n
      BY <2>12
    <3>2. IntoFrom(d, T, n) # {}
      BY <3>1, <2>11
    <3> QED BY <3>2 DEF SortRuns
  <2>14. /\ s2.queue \in Seq(V) /\ Range(s2.queue) = Range(Tail(s.queue)) \union Range(joined)
         /\ IsInjective(s2.queue)
    <3>1. Range(Tail(s.queue)) \cap Range(joined) = {}
      <4>1. Range(joined) \subseteq V
        BY <2>11, <2>12
      <4> QED BY <4>1, <2>3, <2>13
    <3>2. /\ Tail(s.queue) \o joined \in Seq(V)
          /\ Range(Tail(s.queue) \o joined) = Range(Tail(s.queue)) \union Range(joined)
          /\ IsInjective(Tail(s.queue)) /\ IsInjective(joined) /\ Range(Tail(s.queue)) \cap Range(joined) = {}
               => IsInjective(Tail(s.queue) \o joined)
      <4>1. Tail(s.queue) \in Seq(V) /\ joined \in Seq(V)
        BY <2>3, <2>12
      <4> HIDE DEF V
      <4> QED BY <4>1, JoinIs, ZenonT(40)
    <3> QED BY <2>3, <2>6, <2>12, <3>1, <3>2
  <2>15. Range(s2.sorted) = T \union {id}
    BY <2>5, <2>6
  <2>16. Range(s2.sorted) \cap Range(s2.queue) = {}
    <3>1. Range(joined) \subseteq V
      BY <2>11, <2>12
    <3>2. T \cap Range(s.queue) = {}
      BY DEF SortRuns
    <3> QED BY <3>1, <3>2, <2>3, <2>13, <2>14, <2>15
  <2>17. \A n \in V : IntoFrom(d, T \union {id}, n) = IntoFrom(d, T, n) \ out
    BY <2>7 DEF IntoFrom
  <2>18. ASSUME NEW n \in V
         PROVE  s2.degree[n] = Cardinality(IntoFrom(d, T \union {id}, n))
    <3> DEFINE gone == {i \in out : d.edges[i].to = n}
    <3>1. gone = IntoFrom(d, T, n) \cap out
      BY <2>4, <2>7 DEF IntoFrom
    <3>2. IntoFrom(d, T, n) \in SUBSET (1..Len(d.edges))
      BY <2>1 DEF IntoFrom
    <3>3. IsFiniteSet(IntoFrom(d, T, n))
      BY <2>1, <3>2, PlacesFinite
    <3>4. Cardinality(IntoFrom(d, T, n) \ out) = Cardinality(IntoFrom(d, T, n)) - Cardinality(gone)
      BY <3>1, <3>3, FS_Difference
    <3>5. s.degree[n] = Cardinality(IntoFrom(d, T, n))
      BY DEF SortRuns
    <3>6. s2.degree[n] = s.degree[n] - Cardinality(gone)
      BY <2>6
    <3> QED BY <2>17, <3>4, <3>5, <3>6
  <2>19. ASSUME NEW n \in V
         PROVE  n \in Range(s2.sorted) \union Range(s2.queue) <=> IntoFrom(d, T \union {id}, n) = {}
    <3>1. Range(s2.sorted) \union Range(s2.queue) = T \union Range(s.queue) \union Range(joined)
      BY <2>3, <2>14, <2>15
    <3>2. n \in T \union Range(s.queue) <=> IntoFrom(d, T, n) = {}
      BY DEF SortRuns
    <3>3. ASSUME IntoFrom(d, T, n) # {}
          PROVE  n \in Range(joined) <=> IntoFrom(d, T, n) \ out = {}
      <4>1. ASSUME n \in Range(joined) PROVE IntoFrom(d, T, n) \ out = {}
        <5>1. PICK i \in I : d.edges[i].to = n
          BY <4>1, <2>12
        <5>2. IntoFrom(d, T, n) = {j \in out : d.edges[j].to = n}
          BY <5>1, <2>10
        <5> QED BY <5>2
      <4>2. ASSUME IntoFrom(d, T, n) \ out = {} PROVE n \in Range(joined)
        <5>1. IntoFrom(d, T, n) \subseteq out
          BY <4>2
        <5>2. PICK i \in I : d.edges[i].to = n
          BY <2>10, <3>3, <5>1
        <5> QED BY <5>2, <2>12
      <4> QED BY <4>1, <4>2
    <3>4. ASSUME IntoFrom(d, T, n) = {} PROVE IntoFrom(d, T, n) \ out = {}
      BY <3>4
    <3> QED BY <3>1, <3>2, <3>3, <3>4, <2>17
  <2>20. s2.degree \in [V -> Int]
    <3>1. ASSUME NEW n \in V PROVE Cardinality({i \in out : d.edges[i].to = n}) \in Int
      <4>1. {i \in out : d.edges[i].to = n} \in SUBSET (1..Len(d.edges))
        BY <2>1, <2>7
      <4> QED BY <2>1, <4>1, PlacesFinite
    <3>2. ASSUME NEW n \in V PROVE s.degree[n] - Cardinality({i \in out : d.edges[i].to = n}) \in Int
      BY <3>1, <2>2
    <3> QED BY <3>2, <2>6
  <2>21. ASSUME NEW q \in DOMAIN s2.sorted, NEW i \in E, d.edges[i].to = s2.sorted[q]
         PROVE  \E p \in 1..(q - 1) : s2.sorted[p] = d.edges[i].from
    <3> DEFINE k == Len(s.sorted)
    <3>1. k \in Nat /\ DOMAIN s.sorted = 1..k /\ DOMAIN s2.sorted = 1..(k + 1)
      BY <2>2, <2>5, <2>6
    <3>2. /\ \A j \in 1..k : s2.sorted[j] = s.sorted[j]
          /\ s2.sorted[k + 1] = id
      BY <2>5, <2>6
    <3> HIDE DEF k
    <3>3. CASE q \in 1..k
      <4>1. PICK p \in 1..(q - 1) : s.sorted[p] = d.edges[i].from
        <5>1. q \in DOMAIN s.sorted /\ d.edges[i].to = s.sorted[q]
          BY <2>21, <3>1, <3>2, <3>3
        <5>2. \A r \in DOMAIN s.sorted, j \in DOMAIN d.edges : d.edges[j].to = s.sorted[r] =>
                 \E p \in 1..(r - 1) : s.sorted[p] = d.edges[j].from
          BY DEF SortRuns
        <5> QED BY <5>1, <5>2
      <4>2. p \in 1..k
        BY <3>1, <3>3
      <4> QED BY <4>1, <4>2, <3>2
    <3>4. CASE q = k + 1
      <4>1. IntoFrom(d, T, id) = {}
        BY <2>3 DEF SortRuns
      <4>2. d.edges[i].from \in T
        BY <4>1, <3>2, <3>4, <2>21 DEF IntoFrom
      <4>3. PICK p \in 1..k : s.sorted[p] = d.edges[i].from
        BY <4>2, <3>1 DEF Range
      <4>4. p \in 1..(q - 1)
        BY <3>1, <3>4
      <4> QED BY <4>3, <4>4, <3>2
    <3> QED BY <3>1, <3>3, <3>4
  <2>22. IF s2.sorted = <<>> THEN s2.queue = FindRoots(d) ELSE s2.sorted[1] = FindRoots(d)[1]
    <3>1. s2.sorted # <<>>
      <4>1. Len(s.sorted) \in Nat /\ Len(s2.sorted) = Len(s.sorted) + 1
        BY <2>2, <2>5, <2>6
      <4> QED BY <4>1
    <3>2. CASE s.sorted = <<>>
      <4>1. s2.sorted[1] = id
        BY <3>2, <2>5, <2>6
      <4>2. id = s.queue[1] /\ s.queue = FindRoots(d)
        BY <1>2, <2>2, <3>2 DEF id, SortRuns
      <4> QED BY <3>1, <4>1, <4>2
    <3>3. CASE s.sorted # <<>>
      <4>1. 1 \in 1..Len(s.sorted)
        BY <2>2, <3>3
      <4>2. s2.sorted[1] = s.sorted[1] /\ s.sorted[1] = FindRoots(d)[1]
        BY <4>1, <2>5, <2>6, <3>3 DEF SortRuns
      <4> QED BY <3>1, <4>2
    <3> QED BY <3>2, <3>3
  <2>23. s2 \in [sorted : Seq(V), degree : [V -> Int], queue : Seq(V)]
    <3> HIDE DEF V
    <3>1. s2.sorted \in Seq(V)
      BY <2>5, <2>6
    <3> QED BY <2>6, <2>14, <2>20, <3>1
  <2>24. IsInjective(s2.sorted)
    BY <2>5, <2>6
  <2>25. SortRuns(d, s2)
    BY <2>14, <2>15, <2>16, <2>18, <2>19, <2>21, <2>22, <2>23, <2>24 DEF SortRuns
  <2>26. Len(s2.sorted) = Len(s.sorted) + 1
    BY <2>5, <2>6
  <2> QED BY <1>2, <2>25, <2>26 DEF s2
<1> QED BY <1>1, <1>2

-----------------------------------------------------------------------------
(* The sort comes to an end, and what holds of it after any number of nodes *)
(* holds then. *)
LEMMA SortEnds ==
  ASSUME NEW d, Doc(d)
  PROVE  SortRuns(d, Kahn(d)) /\ Kahn(d).queue = <<>>
<1> DEFINE V == NodeIDs(d)
           all == Len(d.nodes) + Len(d.edges)
<1>1. all \in Nat /\ Len(d.nodes) \in Nat /\ Len(d.edges) \in Nat /\ all >= Len(d.nodes)
  <2>1. Len(d.nodes) \in Nat /\ Len(d.edges) \in Nat
    BY NodesCounted
  <2>2. \A a, b \in Nat : a + b \in Nat /\ a + b >= a
    OBVIOUS
  <2> QED BY <2>1, <2>2, Zenon
<1> DEFINE A == {s \in [sorted : Seq(V), degree : [V -> Int], queue : Seq(V)] : SortRuns(d, s)}
           start == SortStart(d)
           step == [s \in A |-> Take(d, s)]
           run == CHOOSE f : f = [k \in 0..all |-> IF k = 0 THEN start ELSE Take(d, f[k - 1])]
<1>2. \A s : s \in A <=> SortRuns(d, s)
  BY DEF SortRuns
<1>3. Kahn(d) = run[all]
  BY DEF Kahn, SortStart
<1> HIDE DEF all, A, start, run
<1>4. start \in A
  BY <1>2, SortStarts DEF start
<1>5. \A s \in A : Take(d, s) \in A
  BY <1>2, SortSteps
<1>6. step \in [A -> A]
  BY <1>5
<1> HIDE DEF step
<1>7. PICK f \in [0..all -> A] : IsLoop(f, all, start, step)
  BY <1>1, <1>4, <1>6, LoopFn
<1>8. f = [k \in 0..all |-> IF k = 0 THEN start ELSE Take(d, f[k - 1])]
  <2>1. ASSUME NEW k \in 0..all, k # 0 PROVE f[k] = Take(d, f[k - 1])
    <3>1. k \in 1..all /\ k - 1 \in 0..all
      BY <2>1, <1>1
    <3>2. f[k - 1] \in A /\ f[k] = step[f[k - 1]]
      BY <3>1, <1>7 DEF IsLoop
    <3> QED BY <3>2 DEF step
  <2>2. f[0] = start
    BY <1>7 DEF IsLoop
  <2> QED BY <2>1, <2>2
<1>9. run = [k \in 0..all |-> IF k = 0 THEN start ELSE Take(d, run[k - 1])]
  BY <1>8 DEF run
<1>10. run[0] = start /\ \A k \in 1..all : run[k] = Take(d, run[k - 1])
  BY <1>9, <1>1
<1> DEFINE T == {k \in 0..all : run[k] \in A /\ (run[k].queue = <<>> \/ Len(run[k].sorted) = k)}
<1>11. 0 \in T
  <2>1. Len(start.sorted) = 0
    BY DEF start, SortStart
  <2> QED BY <2>1, <1>1, <1>4, <1>10
<1>12. ASSUME NEW k \in 1..all, k - 1 \in T PROVE k \in T
  <2> DEFINE s == run[k - 1]
  <2>1. s \in A /\ (s.queue = <<>> \/ Len(s.sorted) = k - 1) /\ run[k] = Take(d, s)
    BY <1>10, <1>12
  <2> HIDE DEF s
  <2>2. run[k] \in A
    BY <2>1, <1>5
  <2>3. CASE s.queue = <<>>
    BY <2>1, <2>2, <2>3, <1>2, SortSteps
  <2>4. CASE s.queue # <<>>
    <3>1. Len(run[k].sorted) = Len(s.sorted) + 1 /\ Len(s.sorted) = k - 1
      BY <2>1, <2>4, <1>2, SortSteps
    <3> QED BY <2>2, <3>1
  <2> QED BY <2>3, <2>4
<1> HIDE DEF T
<1>13. all \in T
  <2>1. \A k \in 0..all : k \in T
    BY <1>1, <1>11, <1>12, UptoN
  <2> QED BY <2>1, <1>1
<1> DEFINE e == run[all]
<1>14. SortRuns(d, e) /\ (e.queue = <<>> \/ Len(e.sorted) = all)
  BY <1>13, <1>2 DEF T
<1> HIDE DEF e
<1>15. ASSUME e.queue # <<>> PROVE FALSE
  <2>1. e.sorted \in Seq(V) /\ e.queue \in Seq(V) /\ Len(e.sorted) = all /\ IsInjective(e.sorted)
    BY <1>14, <1>15 DEF SortRuns
  <2>2. e.queue[1] \in Range(e.queue) /\ e.queue[1] \in V
    <3>1. 1 \in DOMAIN e.queue
      BY <1>15, <2>1
    <3> QED BY <3>1, <2>1 DEF Range
  <2>3. e.queue[1] \notin Range(e.sorted)
    BY <1>14, <2>2 DEF SortRuns
  <2>4. IsFiniteSet(V) /\ Cardinality(V) = Len(d.nodes)
    BY NodesCounted
  <2>5. e.sorted \in Injection(1..all, V)
    BY <2>1 DEF Injection, IsInjective
  <2>6. IsFiniteSet(1..all) /\ Cardinality(1..all) = all
    BY <1>1, FS_Interval
  <2>7. all <= Cardinality(V) /\ (all = Cardinality(V) <=> e.sorted \in Surjection(1..all, V))
    BY <2>4, <2>5, <2>6, FS_Injection
  <2>8. all = Len(d.nodes)
    BY <2>4, <2>7, <1>1
  <2>9. e.sorted \in Surjection(1..all, V)
    BY <2>4, <2>7, <2>8
  <2>10. e.queue[1] \in Range(e.sorted)
    BY <2>2, <2>9 DEF Surjection, Range
  <2> QED BY <2>3, <2>10
<1> QED BY <1>3, <1>14, <1>15 DEF e

\* A set that holds with a node what its edges lead to.
ClosedAhead(d, S) == \A p \in Pairs(d) : p[1] \in S => p[2] \in S

(* What a node reaches is closed and has the node in it. *)
LEMMA ReachIs ==
  ASSUME NEW d, NEW x \in NodeIDs(d)
  PROVE  LET R == {y \in NodeIDs(d) : Reaches(d, x, y)}
         IN  (Doc(d) => ClosedAhead(d, R)) /\ x \in R /\ R \in SUBSET NodeIDs(d)
             /\ \A S \in SUBSET NodeIDs(d) : x \in S /\ ClosedAhead(d, S) => R \subseteq S
<1> DEFINE R == {y \in NodeIDs(d) : Reaches(d, x, y)}
<1>1. \A y : Reaches(d, x, y) <=> \A S \in SUBSET NodeIDs(d) : x \in S /\ ClosedAhead(d, S) => y \in S
  BY DEF Reaches, ClosedAhead
<1>2. x \in R
  BY <1>1
<1>3. ASSUME Doc(d), NEW p \in Pairs(d), p[1] \in R PROVE p[2] \in R
  <2>1. p[2] \in NodeIDs(d)
    BY <1>3 DEF Pairs, Doc
  <2>2. Reaches(d, x, p[1])
    BY <1>3
  <2>3. ASSUME NEW S \in SUBSET NodeIDs(d), x \in S, ClosedAhead(d, S) PROVE p[2] \in S
    <3>1. p[1] \in S
      BY <2>2, <2>3, <1>1
    <3> QED BY <3>1, <2>3, <1>3 DEF ClosedAhead
  <2> QED BY <2>1, <2>3, <1>1
<1>4. ASSUME NEW S \in SUBSET NodeIDs(d), x \in S, ClosedAhead(d, S) PROVE R \subseteq S
  BY <1>1, <1>4
<1>5. R \in SUBSET NodeIDs(d)
  OBVIOUS
<1>6. Doc(d) => ClosedAhead(d, R)
  <2> HIDE DEF R
  <2> QED BY <1>3 DEF ClosedAhead
<1> HIDE DEF R
<1> QED BY <1>2, <1>4, <1>5, <1>6 DEF R

(* A set of nodes each with a predecessor in it holds a loop. *)
LEMMA NoWayIn ==
  ASSUME NEW d, Doc(d), NEW U \in SUBSET NodeIDs(d), U # {},
         \A x \in U : \E w \in U : <<w, x>> \in Pairs(d)
  PROVE  ~Acyclic(d)
<1> SUFFICES ASSUME Acyclic(d) PROVE FALSE
  OBVIOUS
<1> DEFINE V == NodeIDs(d)
           R(x) == {y \in V : Reaches(d, x, y)}
           size(x) == Cardinality(R(x))
           left == {Cardinality(V) - size(x) : x \in U}
<1>1. IsFiniteSet(V) /\ Cardinality(V) \in Nat
  BY NodesCounted
<1>2. \A x \in V : x \in R(x) /\ R(x) \in SUBSET V /\ ClosedAhead(d, R(x))
                   /\ \A S \in SUBSET V : x \in S /\ ClosedAhead(d, S) => R(x) \subseteq S
  BY ReachIs
<1>3. \A x, y \in V : y \in R(x) <=> Reaches(d, x, y)
  OBVIOUS
<1> HIDE DEF R, V
<1>4. \A x \in V : IsFiniteSet(R(x)) /\ size(x) \in Nat /\ size(x) <= Cardinality(V)
  BY <1>1, <1>2, FS_Subset, FS_CardinalityType
<1> HIDE DEF size
<1>5. left \in SUBSET Nat
  <2>1. ASSUME NEW x \in U PROVE Cardinality(V) - size(x) \in Nat
    <3>1. size(x) \in Nat /\ size(x) <= Cardinality(V)
      BY <1>4 DEF V
    <3> QED BY <3>1, <1>1
  <2> QED BY <2>1
<1>6. left # {}
  OBVIOUS
<1> HIDE DEF left
<1>7. PICK t \in left : \A u \in left : t <= u
  BY <1>5, <1>6, Least
<1>8. PICK x \in U : t = Cardinality(V) - size(x)
  BY <1>7 DEF left
<1>9. PICK w \in U : <<w, x>> \in Pairs(d)
  BY <1>8
<1>10. x \in V /\ w \in V
  BY DEF V
<1>11. w \notin R(x)
  <2>1. ~Reaches(d, x, w)
    BY <1>9 DEF Acyclic
  <2> QED BY <2>1, <1>3, <1>10
<1>12. x \in R(w)
  <2>1. w \in R(w) /\ ClosedAhead(d, R(w))
    BY <1>2, <1>10
  <2> QED BY <2>1, <1>9 DEF ClosedAhead
<1>13. R(x) \subseteq R(w) /\ w \in R(w)
  BY <1>2, <1>10, <1>12
<1>14. size(x) <= size(w) /\ size(x) # size(w)
  <2>1. R(x) \in SUBSET R(w) /\ R(x) # R(w) /\ IsFiniteSet(R(w))
    BY <1>4, <1>10, <1>11, <1>13
  <2> QED BY <2>1, FS_Subset DEF size
<1>15. Cardinality(V) - size(w) \in left
  BY DEF left
<1> QED BY <1>1, <1>4, <1>7, <1>8, <1>10, <1>14, <1>15

(* What the sort lists, and that it fails on exactly the cyclic documents. *)
LEMMA SortLists ==
  ASSUME NEW d, Doc(d)
  PROVE  LET order == TopologicalSort(d)
         IN  /\ Acyclic(d) =>
                  /\ order \in Seq(NodeIDs(d)) /\ Len(order) = Len(d.nodes) /\ Range(order) = NodeIDs(d)
                  /\ IsInjective(order)
                  /\ \A q \in DOMAIN order, i \in DOMAIN d.edges : d.edges[i].to = order[q] =>
                       \E p \in 1..(q - 1) : order[p] = d.edges[i].from
                  /\ order # <<>> => order[1] = FindRoots(d)[1]
             /\ ~Acyclic(d) => order = Failed
<1> DEFINE V == NodeIDs(d)
           n == Len(d.nodes)
           e == Kahn(d)
           s == e.sorted
           order == TopologicalSort(d)
<1>1. SortRuns(d, e) /\ e.queue = <<>>
  BY SortEnds
<1>2. n \in Nat /\ IsFiniteSet(V) /\ Cardinality(V) = n
  BY NodesCounted
<1>3. order = IF Len(s) = n THEN s ELSE Failed
  BY DEF TopologicalSort
<1> HIDE DEF e, n, order
<1>4. /\ s \in Seq(V) /\ IsInjective(s)
      /\ \A x \in V : x \in Range(s) <=> IntoFrom(d, Range(s), x) = {}
      /\ \A q \in DOMAIN s, i \in DOMAIN d.edges : d.edges[i].to = s[q] =>
           \E p \in 1..(q - 1) : s[p] = d.edges[i].from
      /\ s # <<>> => s[1] = FindRoots(d)[1]
  <2>1. Range(<<>>) = {}
    BY DEF Range
  <2>2. Range(e.queue) = {}
    BY <1>1, <2>1
  <2> QED BY <1>1, <2>2 DEF SortRuns
<1> HIDE DEF s
<1>5. ASSUME Len(s) = n
      PROVE  Range(s) = V
  <2>1. s \in Injection(1..n, V)
    BY <1>4, <1>5 DEF Injection, IsInjective
  <2>2. IsFiniteSet(1..n) /\ Cardinality(1..n) = n
    BY <1>2, FS_Interval
  <2>3. s \in Surjection(1..n, V)
    BY <1>2, <2>1, <2>2, FS_Injection
  <2>4. DOMAIN s = 1..n
    BY <1>4, <1>5
  <2>5. \A x \in V : x \in Range(s)
    BY <2>3, <2>4 DEF Surjection, Range
  <2>6. \A x \in Range(s) : x \in V
    BY <1>4 DEF Range
  <2> QED BY <2>5, <2>6
<1>6. ASSUME Len(s) = n PROVE Acyclic(d)
  <2> SUFFICES ASSUME NEW p \in Pairs(d), Reaches(d, p[2], p[1]) PROVE FALSE
    BY DEF Acyclic
  <2>1. PICK i \in DOMAIN d.edges : p = <<d.edges[i].from, d.edges[i].to>>
    BY DEF Pairs
  <2>2. p[1] = d.edges[i].from /\ p[2] = d.edges[i].to /\ p[2] \in V
    BY <2>1 DEF Doc
  <2>3. PICK b \in DOMAIN s : s[b] = p[2]
    BY <2>2, <1>5, <1>6 DEF Range
  <2>4. DOMAIN s = 1..n
    BY <1>4, <1>6
  <2> DEFINE S == {s[q] : q \in b..n}
  <2>5. \A q \in b..n : q \in DOMAIN s /\ q \in Int
    BY <1>2, <2>3, <2>4
  <2>6. S \in SUBSET V
    BY <1>4, <2>5
  <2>7. p[2] \in S
    BY <2>3, <2>4, <1>2
  <2>8. ASSUME NEW r \in Pairs(d), r[1] \in S PROVE r[2] \in S
    <3>1. PICK j \in DOMAIN d.edges : r = <<d.edges[j].from, d.edges[j].to>>
      BY DEF Pairs
    <3>2. r[1] = d.edges[j].from /\ r[2] = d.edges[j].to /\ r[2] \in V
      BY <3>1 DEF Doc
    <3>3. PICK c \in DOMAIN s : s[c] = r[2]
      BY <3>2, <1>5, <1>6 DEF Range
    <3>4. PICK a \in 1..(c - 1) : s[a] = r[1]
      BY <1>4, <3>2, <3>3
    <3>5. PICK q \in b..n : s[q] = r[1]
      BY <2>8
    <3>6. a \in DOMAIN s /\ a < c /\ a \in Int /\ c \in Int
      BY <2>4, <3>3, <3>4, <1>2
    <3>7. a = q
      BY <3>4, <3>5, <3>6, <2>5, <1>4 DEF IsInjective
    <3>8. c \in b..n
      BY <3>3, <3>6, <3>7, <2>3, <2>4, <1>2
    <3> QED BY <3>3, <3>8
  <2>9. p[1] \in S
    <3> HIDE DEF S
    <3> QED BY <2>6, <2>7, <2>8 DEF Reaches
  <2>10. PICK q \in b..n : s[q] = p[1]
    BY <2>9
  <2>11. PICK a \in 1..(b - 1) : s[a] = p[1]
    BY <1>4, <2>2, <2>3
  <2>12. a \in DOMAIN s /\ a < b /\ a \in Int /\ b \in Int
    BY <2>3, <2>4, <2>11, <1>2
  <2>13. a = q
    BY <2>5, <2>10, <2>11, <2>12, <1>4 DEF IsInjective
  <2> QED BY <2>12, <2>13, <2>5
<1>7. ASSUME Len(s) # n PROVE ~Acyclic(d)
  <2> DEFINE U == V \ Range(s)
  <2>1. U # {}
    <3> SUFFICES ASSUME V \subseteq Range(s) PROVE FALSE
      OBVIOUS
    <3>1. Len(s) \in Nat /\ DOMAIN s = 1..Len(s) /\ s \in [1..Len(s) -> V]
      BY <1>4
    <3>2. s \in Bijection(1..Len(s), V)
      BY <3>1, <1>4 DEF Bijection, Injection, Surjection, IsInjective, Range
    <3>3. IsFiniteSet(1..Len(s)) /\ Cardinality(1..Len(s)) = Len(s)
      BY <3>1, FS_Interval
    <3>4. Cardinality(V) = Len(s)
      BY <3>2, <3>3, FS_Bijection DEF ExistsBijection
    <3> QED BY <3>4, <1>2, <1>7
  <2>2. ASSUME NEW x \in U PROVE \E w \in U : <<w, x>> \in Pairs(d)
    <3>1. PICK i \in DOMAIN d.edges : d.edges[i].to = x /\ d.edges[i].from \notin Range(s)
      BY <1>4 DEF IntoFrom
    <3>2. d.edges[i].from \in U /\ <<d.edges[i].from, x>> \in Pairs(d)
      BY <3>1 DEF Doc, Pairs
    <3> QED BY <3>2
  <2> HIDE DEF U
  <2>3. U \in SUBSET NodeIDs(d)
    BY DEF U
  <2> QED BY <2>1, <2>2, <2>3, NoWayIn
<1>8. Acyclic(d) => /\ order \in Seq(V) /\ Len(order) = n /\ Range(order) = V
                    /\ IsInjective(order)
                    /\ \A q \in DOMAIN order, i \in DOMAIN d.edges : d.edges[i].to = order[q] =>
                         \E p \in 1..(q - 1) : order[p] = d.edges[i].from
                    /\ order # <<>> => order[1] = FindRoots(d)[1]
  BY <1>3, <1>4, <1>5, <1>7
<1>9. ~Acyclic(d) => order = Failed
  BY <1>3, <1>6
<1> QED BY <1>8, <1>9 DEF n, order

(* SortSound for every document. *)
THEOREM SortRight == ASSUME NEW d, Doc(d) PROVE SortSound(d)
<1> DEFINE order == TopologicalSort(d)
<1>1. CASE Acyclic(d)
  <2>1. /\ order \in Seq(NodeIDs(d)) /\ Len(order) = Len(d.nodes) /\ Range(order) = NodeIDs(d)
        /\ IsInjective(order)
        /\ \A q \in DOMAIN order, i \in DOMAIN d.edges : d.edges[i].to = order[q] =>
             \E p \in 1..(q - 1) : order[p] = d.edges[i].from
        /\ order # <<>> => order[1] = FindRoots(d)[1]
    BY <1>1, SortLists
  <2> HIDE DEF order
  <2>2. ASSUME NEW i \in DOMAIN order, NEW j \in DOMAIN order, <<order[j], order[i]>> \in Pairs(d)
        PROVE  j < i
    <3>1. PICK x \in DOMAIN d.edges : <<order[j], order[i]>> = <<d.edges[x].from, d.edges[x].to>>
      BY <2>2 DEF Pairs
    <3>2. PICK p \in 1..(i - 1) : order[p] = order[j]
      BY <2>1, <3>1
    <3>3. DOMAIN order = 1..Len(order) /\ Len(order) \in Nat
      BY <2>1
    <3>4. p \in DOMAIN order /\ p < i
      BY <3>2, <3>3
    <3>5. p = j
      BY <3>2, <3>4, <2>1 DEF IsInjective
    <3> QED BY <3>4, <3>5
  <2>3. d.nodes # <<>> => order # <<>>
    <3>1. Len(d.nodes) \in Nat /\ IsList(d.nodes)
      BY NodesCounted DEF Doc
    <3>2. d.nodes # <<>> => Len(d.nodes) # 0
      BY <3>1 DEF IsList
    <3>3. Len(<<>>) = 0
      OBVIOUS
    <3> QED BY <3>2, <3>3, <2>1
  <2> QED BY <1>1, <2>1, <2>2, <2>3 DEF SortSound, order
<1>2. CASE ~Acyclic(d)
  <2>1. order = Failed
    BY <1>2, SortLists
  <2> HIDE DEF order
  <2> QED BY <1>2, <2>1 DEF SortSound, order
<1> QED BY <1>1, <1>2

-----------------------------------------------------------------------------
\* The edges out of nodes that are not in T.
OutOf(d, T) == {i \in DOMAIN d.edges : d.edges[i].from \notin T}

(* Taking up a node takes its edges from those left. *)
LEMMA OutLess ==
  ASSUME NEW d, Doc(d), NEW T, NEW x, x \notin T
  PROVE  /\ Cardinality(OutOf(d, T)) \in Nat /\ Cardinality(OutOf(d, T \union {x})) \in Nat
         /\ Cardinality(EdgesFrom(d, x)) \in Nat
         /\ Cardinality(OutOf(d, T \union {x})) + Cardinality(EdgesFrom(d, x)) = Cardinality(OutOf(d, T))
<1> DEFINE m == Len(d.edges)
<1>1. m \in Nat /\ DOMAIN d.edges = 1..m
  BY NodesCounted
<1>2. OutOf(d, T) \in SUBSET (1..m) /\ OutOf(d, T \union {x}) \in SUBSET (1..m) /\ EdgesFrom(d, x) \in SUBSET (1..m)
  BY <1>1 DEF OutOf, EdgesFrom
<1>3. OutOf(d, T) \ EdgesFrom(d, x) = OutOf(d, T \union {x}) /\ OutOf(d, T) \cap EdgesFrom(d, x) = EdgesFrom(d, x)
  BY DEF OutOf, EdgesFrom
<1> HIDE DEF m
<1>4. IsFiniteSet(OutOf(d, T)) /\ Cardinality(OutOf(d, T)) \in Nat /\ Cardinality(OutOf(d, T \union {x})) \in Nat
      /\ Cardinality(EdgesFrom(d, x)) \in Nat
  BY <1>1, <1>2, PlacesFinite
<1>5. Cardinality(OutOf(d, T) \ EdgesFrom(d, x)) =
        Cardinality(OutOf(d, T)) - Cardinality(OutOf(d, T) \cap EdgesFrom(d, x))
  BY <1>4, FS_Difference
<1>6. Cardinality(OutOf(d, T \union {x})) = Cardinality(OutOf(d, T)) - Cardinality(EdgesFrom(d, x))
  BY <1>3, <1>5
<1> DEFINE a == Cardinality(OutOf(d, T \union {x}))
           b == Cardinality(OutOf(d, T))
           c == Cardinality(EdgesFrom(d, x))
<1>7. a \in Nat /\ b \in Nat /\ c \in Nat /\ a = b - c
  BY <1>4, <1>6
<1> HIDE DEF a, b, c
<1>8. a + c = b
  BY <1>7
<1> QED BY <1>7, <1>8 DEF a, b, c

(* The edges out of a node, listed. *)
LEMMA ListedFrom ==
  ASSUME NEW d, Doc(d), NEW x
  PROVE  /\ ListEdgesFrom(d, x) \in Seq(Range(d.edges))
         /\ Len(ListEdgesFrom(d, x)) = Cardinality(EdgesFrom(d, x))
         /\ Cardinality(EdgesFrom(d, x)) \in Nat
         /\ Range(ListEdgesFrom(d, x)) = {d.edges[i] : i \in EdgesFrom(d, x)}
<1>1. EdgesFrom(d, x) \in SUBSET (1..Len(d.edges)) /\ IsList(d.edges)
  BY NodesCounted DEF EdgesFrom, Doc
<1> QED BY <1>1, PickedRight DEF ListEdgesFrom

\* The ends of the edges out of a node.
EndsFrom(d, x) == [k \in DOMAIN ListEdgesFrom(d, x) |-> ListEdgesFrom(d, x)[k].to]

(* The ends of the edges out of a node are what it leads to. *)
LEMMA EndsListed ==
  ASSUME NEW d, Doc(d), NEW x
  PROVE  /\ EndsFrom(d, x) \in Seq(NodeIDs(d)) /\ Len(EndsFrom(d, x)) = Cardinality(EdgesFrom(d, x))
         /\ \A y : y \in Range(EndsFrom(d, x)) <=> <<x, y>> \in Pairs(d)
<1> DEFINE list == ListEdgesFrom(d, x)
           n == Cardinality(EdgesFrom(d, x))
           ends == EndsFrom(d, x)
<1>1. list \in Seq(Range(d.edges)) /\ Len(list) = n /\ n \in Nat
      /\ Range(list) = {d.edges[i] : i \in EdgesFrom(d, x)}
  BY ListedFrom
<1>2. ends = [k \in DOMAIN list |-> list[k].to]
  BY DEF EndsFrom
<1> HIDE DEF list, n, ends
<1>3. DOMAIN list = 1..n
  BY <1>1
<1>4. ASSUME NEW k \in 1..n PROVE list[k].to \in NodeIDs(d)
  <2>1. list[k] \in Range(list)
    BY <1>3 DEF Range
  <2>2. PICK i \in DOMAIN d.edges : list[k] = d.edges[i]
    BY <1>1, <2>1 DEF EdgesFrom
  <2> QED BY <2>2 DEF Doc
<1>5. ends \in [1..n -> NodeIDs(d)]
  BY <1>2, <1>3, <1>4
<1>6. ends \in Seq(NodeIDs(d)) /\ Len(ends) = n
  BY <1>1, <1>5
<1>7. ASSUME NEW y PROVE y \in Range(ends) <=> <<x, y>> \in Pairs(d)
  <2>1. y \in Range(ends) <=> \E e \in Range(list) : e.to = y
    BY <1>2 DEF Range
  <2>2. (\E e \in Range(list) : e.to = y) <=> \E i \in EdgesFrom(d, x) : d.edges[i].to = y
    BY <1>1
  <2>3. (\E i \in EdgesFrom(d, x) : d.edges[i].to = y) <=> <<x, y>> \in Pairs(d)
    BY DEF EdgesFrom, Pairs
  <2> QED BY <2>1, <2>2, <2>3
<1> QED BY <1>6, <1>7 DEF n, ends

\* What holds of the search after any number of steps.
SearchRuns(d, from, target, s) ==
    /\ s \in [found : BOOLEAN, visited : SUBSET NodeIDs(d), pending : Seq(NodeIDs(d))]
    /\ \A S \in SUBSET NodeIDs(d) : from \in S /\ ClosedAhead(d, S) =>
         s.visited \union Range(s.pending) \subseteq S /\ (s.found => target \in S)
    /\ ~s.found => /\ target \notin s.visited /\ from \in s.visited \union Range(s.pending)
                   /\ \A p \in Pairs(d) : p[1] \in s.visited => p[2] \in s.visited \union Range(s.pending)

SearchLeft(d, s) == Len(s.pending) + Cardinality(OutOf(d, s.visited))

(* One node looked at keeps what holds of the search and brings its end nearer. *)
LEMMA SearchSteps ==
  ASSUME NEW d, Doc(d), NEW from, NEW target, NEW s, SearchRuns(d, from, target, s)
  PROVE  LET s2 == SearchStep(d, target, s)
         IN  /\ SearchRuns(d, from, target, s2)
             /\ s.found \/ s.pending = <<>> => s2 = s
             /\ ~s.found /\ s.pending # <<>> =>
                  /\ SearchLeft(d, s) \in Nat /\ SearchLeft(d, s2) \in Nat
                  /\ s2.found \/ SearchLeft(d, s2) = SearchLeft(d, s) - 1
<1> DEFINE s2 == SearchStep(d, target, s)
           V == NodeIDs(d)
           at == Head(s.pending)
           rest == Tail(s.pending)
<1>1. CASE s.found \/ s.pending = <<>>
  BY <1>1 DEF SearchStep
<1>2. CASE ~s.found /\ s.pending # <<>>
  <2>1. s.pending \in Seq(V) /\ s.visited \in SUBSET V /\ s = [found |-> s.found, visited |-> s.visited, pending |-> s.pending]
    BY DEF SearchRuns
  <2>2. /\ at \in V /\ rest \in Seq(V) /\ Len(s.pending) \in Nat /\ Len(s.pending) > 0
        /\ Len(rest) = Len(s.pending) - 1 /\ Range(s.pending) = {at} \union Range(rest)
    <3> HIDE DEF V
    <3> QED BY <1>2, <2>1, TailIs
  <2>3. Cardinality(OutOf(d, s.visited)) \in Nat
    <3>1. OutOf(d, s.visited) \in SUBSET (1..Len(d.edges)) /\ Len(d.edges) \in Nat
      BY NodesCounted DEF OutOf
    <3> QED BY <3>1, PlacesFinite
  <2>4. SearchLeft(d, s) \in Nat
    BY <2>2, <2>3 DEF SearchLeft
  <2>5. CASE at = target
    <3>1. s2 = [found |-> TRUE, visited |-> s.visited, pending |-> s.pending]
      BY <1>2, <2>1, <2>5 DEF SearchStep
    <3>2. SearchRuns(d, from, target, s2)
      BY <2>1, <2>2, <2>5, <3>1 DEF SearchRuns
    <3>3. SearchLeft(d, s2) = SearchLeft(d, s) /\ s2.found
      BY <3>1 DEF SearchLeft
    <3> QED BY <1>2, <2>4, <3>2, <3>3
  <2>6. CASE at # target /\ at \in s.visited
    <3>1. s2 = [found |-> FALSE, visited |-> s.visited, pending |-> rest]
      <4>1. s2 = [s EXCEPT !.pending = rest]
        BY <1>2, <2>6 DEF SearchStep
      <4>2. s.found = FALSE
        BY <1>2, <2>1 DEF SearchRuns
      <4> HIDE DEF s2, rest
      <4> QED BY <2>1, <4>1, <4>2
    <3>2. SearchRuns(d, from, target, s2)
      BY <1>2, <2>1, <2>2, <2>6, <3>1 DEF SearchRuns
    <3>3. SearchLeft(d, s2) = SearchLeft(d, s) - 1 /\ SearchLeft(d, s2) \in Nat
      BY <2>2, <2>3, <3>1 DEF SearchLeft
    <3> QED BY <1>2, <2>4, <3>2, <3>3
  <2>7. CASE at # target /\ at \notin s.visited
    <3> DEFINE ends == EndsFrom(d, at)
    <3>1. ends \in Seq(V) /\ Len(ends) = Cardinality(EdgesFrom(d, at))
          /\ \A y : y \in Range(ends) <=> <<at, y>> \in Pairs(d)
      BY EndsListed
    <3>2. s2 = [found |-> FALSE, visited |-> s.visited \union {at}, pending |-> ends \o rest]
      BY <1>2, <2>1, <2>7 DEF SearchStep, EndsFrom
    <3> HIDE DEF ends, s2
    <3>3. ends \o rest \in Seq(V) /\ Len(ends \o rest) = Len(ends) + Len(rest)
          /\ Range(ends \o rest) = Range(ends) \union Range(rest)
      <4>1. ends \in Seq(V) /\ rest \in Seq(V)
        BY <2>2, <3>1
      <4> HIDE DEF V, rest
      <4> QED BY <4>1, JoinIs
    <3>4. s2.found = FALSE /\ s2.visited = s.visited \union {at} /\ s2.pending = ends \o rest
          /\ Range(s2.pending) = Range(ends) \union Range(rest)
      BY <3>2, <3>3
    <3>5. s2 \in [found : BOOLEAN, visited : SUBSET V, pending : Seq(V)]
      <4> HIDE DEF V
      <4>1. s.visited \union {at} \in SUBSET V
        BY <2>1, <2>2
      <4> QED BY <3>2, <3>3, <4>1
    <3>6. ASSUME NEW S \in SUBSET V, from \in S, ClosedAhead(d, S)
          PROVE  s2.visited \union Range(s2.pending) \subseteq S
      <4>1. s.visited \union Range(s.pending) \subseteq S
        BY <3>6 DEF SearchRuns
      <4>2. at \in S
        BY <4>1, <2>2
      <4>3. \A y \in Range(ends) : y \in S
        <5> TAKE y \in Range(ends)
        <5>1. <<at, y>> \in Pairs(d) /\ <<at, y>>[1] = at /\ <<at, y>>[2] = y
          BY <3>1
        <5> HIDE DEF at
        <5> QED BY <4>2, <5>1, <3>6 DEF ClosedAhead
      <4> QED BY <4>1, <4>2, <4>3, <2>2, <3>4
    <3>7. target \notin s2.visited /\ from \in s2.visited \union Range(s2.pending)
      BY <1>2, <2>2, <2>7, <3>4 DEF SearchRuns
    <3>8. ASSUME NEW p \in Pairs(d), p[1] \in s2.visited PROVE p[2] \in s2.visited \union Range(s2.pending)
      <4>1. CASE p[1] = at
        <5>1. p = <<at, p[2]>>
          BY <4>1 DEF Pairs
        <5> QED BY <5>1, <3>1, <3>4
      <4>2. CASE p[1] \in s.visited
        <5>1. p[2] \in s.visited \union Range(s.pending)
          BY <1>2, <4>2 DEF SearchRuns
        <5> QED BY <5>1, <2>2, <3>4
      <4> QED BY <4>1, <4>2, <3>4, <3>8
    <3>9. SearchRuns(d, from, target, s2)
      BY <3>4, <3>5, <3>6, <3>7, <3>8 DEF SearchRuns
    <3>10. /\ Cardinality(OutOf(d, s2.visited)) \in Nat /\ Cardinality(EdgesFrom(d, at)) \in Nat
           /\ Cardinality(OutOf(d, s2.visited)) + Cardinality(EdgesFrom(d, at)) = Cardinality(OutOf(d, s.visited))
      BY <2>7, <3>4, OutLess
    <3>11. SearchLeft(d, s2) = SearchLeft(d, s) - 1 /\ SearchLeft(d, s2) \in Nat
      <4>1. Len(s2.pending) = Len(ends) + Len(rest) /\ Len(ends) \in Nat
        BY <3>1, <3>3, <3>4, <3>10
      <4> QED BY <2>2, <2>3, <3>1, <3>10, <4>1 DEF SearchLeft
    <3> QED BY <1>2, <2>4, <3>9, <3>11 DEF s2
  <2> QED BY <2>5, <2>6, <2>7
<1> QED BY <1>1, <1>2

(* The search says whether the node is reached. *)
LEMMA SearchRight ==
  ASSUME NEW d, Doc(d), NEW from \in NodeIDs(d), NEW target \in NodeIDs(d)
  PROVE  dfsReaches(d, from, target) <=> Reaches(d, from, target)
<1> DEFINE V == NodeIDs(d)
           all == 1 + Len(d.edges)
<1>1. all \in Nat /\ Len(d.edges) \in Nat
  <2>1. Len(d.edges) \in Nat
    BY NodesCounted
  <2>2. \A a \in Nat : 1 + a \in Nat
    OBVIOUS
  <2> QED BY <2>1, <2>2, Zenon
<1> DEFINE A == {s \in [found : BOOLEAN, visited : SUBSET V, pending : Seq(V)] : SearchRuns(d, from, target, s)}
           start == [found |-> FALSE, visited |-> {}, pending |-> <<from>>]
           step == [s \in A |-> SearchStep(d, target, s)]
           run == CHOOSE f : f = [k \in 0..all |-> IF k = 0 THEN start ELSE SearchStep(d, target, f[k - 1])]
<1>2. \A s : s \in A <=> SearchRuns(d, from, target, s)
  BY DEF SearchRuns
<1>3. dfsReaches(d, from, target) = run[all].found
  BY DEF dfsReaches
<1>4. SearchRuns(d, from, target, start) /\ SearchLeft(d, start) = all
  <2>1. Range(<<from>>) = {from}
    BY DEF Range
  <2>2. start \in [found : BOOLEAN, visited : SUBSET V, pending : Seq(V)]
    OBVIOUS
  <2>3. OutOf(d, {}) = DOMAIN d.edges /\ DOMAIN d.edges = 1..Len(d.edges)
    BY NodesCounted DEF OutOf
  <2>4. Cardinality(OutOf(d, {})) = Len(d.edges)
    <3>1. \A m \in Nat : Cardinality(1..m) = m
      BY FS_Interval
    <3> QED BY <1>1, <2>3, <3>1, Zenon
  <2>5. SearchLeft(d, start) = all
    BY <2>4, <1>1 DEF SearchLeft
  <2>6. target \notin start.visited /\ ~start.found /\ from \in Range(start.pending) /\ start.visited = {}
        /\ Range(start.pending) = {from}
    BY <2>1
  <2> HIDE DEF start
  <2> QED BY <2>2, <2>5, <2>6 DEF SearchRuns
<1> HIDE DEF all, A, start, run
<1>5. start \in A
  BY <1>2, <1>4
<1>6. \A s \in A : SearchStep(d, target, s) \in A
  BY <1>2, SearchSteps
<1>7. step \in [A -> A]
  BY <1>6
<1> HIDE DEF step
<1>8. PICK f \in [0..all -> A] : IsLoop(f, all, start, step)
  BY <1>1, <1>5, <1>7, LoopFn
<1>9. f = [k \in 0..all |-> IF k = 0 THEN start ELSE SearchStep(d, target, f[k - 1])]
  <2>1. ASSUME NEW k \in 0..all, k # 0 PROVE f[k] = SearchStep(d, target, f[k - 1])
    <3>1. k \in 1..all /\ k - 1 \in 0..all
      BY <2>1, <1>1
    <3>2. f[k - 1] \in A /\ f[k] = step[f[k - 1]]
      BY <3>1, <1>8 DEF IsLoop
    <3> QED BY <3>2 DEF step
  <2>2. f[0] = start
    BY <1>8 DEF IsLoop
  <2> QED BY <2>1, <2>2
<1>10. run = [k \in 0..all |-> IF k = 0 THEN start ELSE SearchStep(d, target, run[k - 1])]
  BY <1>9 DEF run
<1>11. run[0] = start /\ \A k \in 1..all : run[k] = SearchStep(d, target, run[k - 1])
  BY <1>10, <1>1
<1> DEFINE Over(k) == run[k].found \/ run[k].pending = <<>> \/ SearchLeft(d, run[k]) = all - k
           T == {k \in 0..all : run[k] \in A /\ Over(k)}
<1>12. 0 \in T
  BY <1>1, <1>4, <1>5, <1>11
<1>13. ASSUME NEW k \in 1..all, k - 1 \in T PROVE k \in T
  <2> DEFINE s == run[k - 1]
             s2 == SearchStep(d, target, s)
  <2>1. s \in A /\ (s.found \/ s.pending = <<>> \/ SearchLeft(d, s) = all - (k - 1)) /\ run[k] = s2
    BY <1>11, <1>13
  <2> HIDE DEF s
  <2>2. SearchRuns(d, from, target, s)
    BY <2>1, <1>2
  <2>3. /\ SearchRuns(d, from, target, s2)
        /\ s.found \/ s.pending = <<>> => s2 = s
        /\ ~s.found /\ s.pending # <<>> =>
             /\ SearchLeft(d, s) \in Nat /\ SearchLeft(d, s2) \in Nat
             /\ s2.found \/ SearchLeft(d, s2) = SearchLeft(d, s) - 1
    BY <2>2, SearchSteps
  <2> HIDE DEF s2
  <2>4. run[k] \in A
    BY <2>1, <2>3, <1>2
  <2>5. Over(k)
    BY <2>1, <2>3, <1>1
  <2> QED BY <2>4, <2>5
<1> HIDE DEF T
<1>14. all \in T
  <2>1. \A k \in 0..all : k \in T
    BY <1>1, <1>12, <1>13, UptoN
  <2> QED BY <2>1, <1>1
<1> DEFINE e == run[all]
<1>15. SearchRuns(d, from, target, e) /\ (e.found \/ e.pending = <<>> \/ SearchLeft(d, e) = 0)
  BY <1>14, <1>2, <1>1 DEF T
<1> HIDE DEF e
<1>16. e.found \/ e.pending = <<>>
  <2>1. Cardinality(OutOf(d, e.visited)) \in Nat
    <3>1. OutOf(d, e.visited) \in SUBSET (1..Len(d.edges))
      BY NodesCounted DEF OutOf
    <3> QED BY <1>1, <3>1, PlacesFinite
  <2>2. e.pending \in Seq(V)
    BY <1>15 DEF SearchRuns
  <2>3. SearchLeft(d, e) = 0 => Len(e.pending) = 0
    BY <2>1, <2>2 DEF SearchLeft
  <2> QED BY <1>15, <2>2, <2>3
<1>17. CASE e.found
  <2>1. Reaches(d, from, target)
    BY <1>15, <1>17 DEF SearchRuns, Reaches, ClosedAhead
  <2> QED BY <1>3, <1>17, <2>1 DEF e
<1>18. CASE ~e.found
  <2>1. Range(<<>>) = {} /\ e.pending = <<>>
    BY <1>16, <1>18 DEF Range
  <2>2. e.visited \in SUBSET V /\ from \in e.visited /\ target \notin e.visited /\ ClosedAhead(d, e.visited)
    BY <1>15, <1>18, <2>1 DEF SearchRuns, ClosedAhead
  <2>3. ~Reaches(d, from, target)
    BY <2>2 DEF Reaches, ClosedAhead
  <2> QED BY <1>3, <1>18, <2>3 DEF e
<1> QED BY <1>17, <1>18

-----------------------------------------------------------------------------
(* A new exit leaves a document a document. *)
LEMMA ConnectIs ==
  ASSUME NEW d, Doc(d), {"nodes", "edges"} \subseteq DOMAIN d,
         NEW from \in NodeIDs(d), NEW to \in NodeIDs(d)
  PROVE  /\ Doc(Connect(d, from, to)) /\ NodeIDs(Connect(d, from, to)) = NodeIDs(d)
         /\ Pairs(Connect(d, from, to)) = Pairs(d) \union {<<from, to>>}
<1> DEFINE c == Connect(d, from, to)
           e == [from |-> from, to |-> to, type |-> "branch", cond |-> <<"">>]
           m == Len(d.edges)
           E == Range(d.edges) \union {e}
<1>1. c.nodes = d.nodes /\ c.edges = Append(d.edges, e)
  BY DEF Connect
<1>2. m \in Nat /\ DOMAIN d.edges = 1..m /\ d.edges \in Seq(Range(d.edges))
  <2>1. IsList(d.edges)
    BY DEF Doc
  <2> QED BY <2>1, ListIs, NodesCounted
<1>3. e.from = from /\ e.to = to
  OBVIOUS
<1> HIDE DEF c, e, m
<1>4. d.edges \in Seq(E) /\ e \in E
  <2>1. \A i \in 1..m : d.edges[i] \in E
    BY <1>2 DEF Range
  <2> HIDE DEF E
  <2>2. d.edges \in [1..m -> E]
    BY <1>2, <2>1 DEF m
  <2>3. d.edges \in Seq(E)
    BY <1>2, <2>2, ListOf
  <2> QED BY <2>3 DEF E
<1>5. /\ c.edges \in Seq(E) /\ Len(c.edges) = m + 1
      /\ \A i \in 1..m : c.edges[i] = d.edges[i]
      /\ c.edges[m + 1] = e
  <2> HIDE DEF E
  <2> QED BY <1>1, <1>4, AppendIs DEF m
<1> HIDE DEF E
<1>6. DOMAIN c.edges = 1..(m + 1)
  BY <1>5
<1>7. \A i \in 1..(m + 1) : i \in 1..m \/ i = m + 1
  BY <1>2
<1>8. NodeIDs(c) = NodeIDs(d)
  BY <1>1 DEF NodeIDs
<1>9. \A i \in DOMAIN c.edges : {c.edges[i].from, c.edges[i].to} \subseteq NodeIDs(c)
  <2> TAKE i \in DOMAIN c.edges
  <2>1. CASE i \in 1..m
    BY <2>1, <1>2, <1>5, <1>8 DEF Doc
  <2>2. CASE i = m + 1
    BY <2>2, <1>3, <1>5, <1>8
  <2> QED BY <2>1, <2>2, <1>6, <1>7
<1>10. IsList(c.edges)
  BY <1>5 DEF IsList
<1>11. Doc(c)
  BY <1>1, <1>8, <1>9, <1>10 DEF Doc
<1>12. Pairs(c) = Pairs(d) \union {<<from, to>>}
  <2>1. \A p \in Pairs(c) : p \in Pairs(d) \union {<<from, to>>}
    <3> SUFFICES ASSUME NEW i \in DOMAIN c.edges
                 PROVE  <<c.edges[i].from, c.edges[i].to>> \in Pairs(d) \union {<<from, to>>}
      BY DEF Pairs
    <3>1. CASE i \in 1..m
      BY <3>1, <1>2, <1>5 DEF Pairs
    <3>2. CASE i = m + 1
      BY <3>2, <1>3, <1>5
    <3> QED BY <3>1, <3>2, <1>6, <1>7
  <2>2. \A p \in Pairs(d) : p \in Pairs(c)
    <3> SUFFICES ASSUME NEW i \in DOMAIN d.edges
                 PROVE  <<d.edges[i].from, d.edges[i].to>> \in Pairs(c)
      BY DEF Pairs
    <3>1. i \in DOMAIN c.edges /\ c.edges[i] = d.edges[i]
      BY <1>2, <1>5, <1>6
    <3> QED BY <3>1 DEF Pairs
  <2>3. <<from, to>> \in Pairs(c)
    <3>1. m + 1 \in DOMAIN c.edges
      BY <1>2, <1>6
    <3> QED BY <3>1, <1>3, <1>5 DEF Pairs
  <2> QED BY <2>1, <2>2, <2>3
<1> QED BY <1>8, <1>11, <1>12 DEF c

(* A document that lists one of its nodes is not the failed sort. *)
LEMMA NotFailed ==
  ASSUME NEW d, Doc(d)
  PROVE  TopologicalSort(d) = Failed <=> ~Acyclic(d)
<1>1. Acyclic(d) => Range(TopologicalSort(d)) = NodeIDs(d)
  BY SortLists
<1>2. 0 \in Range(Failed)
  BY DEF Range, Failed
<1>3. 0 \notin NodeIDs(d)
  BY DEF Doc
<1> QED BY <1>1, <1>2, <1>3, SortLists

(* An edge closes a loop exactly when its end reaches its start. *)
LEMMA ClosesLoop ==
  ASSUME NEW d, Doc(d), Acyclic(d), {"nodes", "edges"} \subseteq DOMAIN d,
         NEW from \in NodeIDs(d), NEW to \in NodeIDs(d)
  PROVE  Acyclic(Connect(d, from, to)) <=> ~Reaches(d, to, from)
<1> DEFINE c == Connect(d, from, to)
           V == NodeIDs(d)
<1>1. Doc(c) /\ NodeIDs(c) = V /\ Pairs(c) = Pairs(d) \union {<<from, to>>}
  BY ConnectIs
<1> HIDE DEF c
<1>2. \A S \in SUBSET V : ClosedAhead(c, S) <=> (ClosedAhead(d, S) /\ (from \in S => to \in S))
  <2>1. \A p \in Pairs(c) : p \in Pairs(d) \/ (p[1] = from /\ p[2] = to)
    BY <1>1
  <2>2. \A p \in Pairs(d) : p \in Pairs(c)
    BY <1>1
  <2>3. <<from, to>> \in Pairs(c) /\ <<from, to>>[1] = from /\ <<from, to>>[2] = to
    BY <1>1
  <2> QED BY <2>1, <2>2, <2>3 DEF ClosedAhead
<1>3. \A x, y : Reaches(c, x, y) <=> \A S \in SUBSET V : x \in S /\ ClosedAhead(c, S) => y \in S
  BY <1>1 DEF Reaches, ClosedAhead
<1>4. \A x, y : Reaches(d, x, y) <=> \A S \in SUBSET V : x \in S /\ ClosedAhead(d, S) => y \in S
  BY DEF Reaches, ClosedAhead
<1>5. ASSUME Reaches(d, to, from) PROVE ~Acyclic(c)
  <2>1. Reaches(c, to, from)
    BY <1>2, <1>3, <1>4, <1>5
  <2>2. <<from, to>> \in Pairs(c) /\ <<from, to>>[1] = from /\ <<from, to>>[2] = to
    BY <1>1
  <2> QED BY <2>1, <2>2 DEF Acyclic
<1>6. ASSUME ~Reaches(d, to, from) PROVE Acyclic(c)
  <2> SUFFICES ASSUME NEW p \in Pairs(c) PROVE ~Reaches(c, p[2], p[1])
    BY DEF Acyclic
  <2>1. PICK S \in SUBSET V : to \in S /\ ClosedAhead(d, S) /\ from \notin S
    BY <1>4, <1>6
  <2>2. CASE p = <<from, to>>
    <3>1. p[1] = from /\ p[2] = to
      BY <2>2
    <3> QED BY <3>1, <2>1, <1>2, <1>3
  <2>3. CASE p \in Pairs(d)
    <3>1. ~Reaches(d, p[2], p[1])
      BY <2>3 DEF Acyclic
    <3>2. PICK R \in SUBSET V : p[2] \in R /\ ClosedAhead(d, R) /\ p[1] \notin R
      BY <1>4, <3>1
    <3>3. ASSUME NEW Q \in SUBSET V, ClosedAhead(d, Q), from \in Q => to \in Q, p[2] \in Q, p[1] \notin Q
          PROVE  ~Reaches(c, p[2], p[1])
      BY <1>2, <1>3, <3>3
    <3>4. CASE from \notin R
      BY <3>2, <3>3, <3>4
    <3>5. CASE from \in R /\ p[1] \in S
      <4>1. p[2] \in S
        BY <2>1, <2>3, <3>5 DEF ClosedAhead
      <4>2. ClosedAhead(d, R \cap S)
        BY <2>1, <3>2 DEF ClosedAhead
      <4>3. R \cap S \in SUBSET V /\ from \notin R \cap S /\ p[2] \in R \cap S /\ p[1] \notin R \cap S
        BY <2>1, <3>2, <4>1
      <4> QED BY <4>2, <4>3, <3>3
    <3>6. CASE from \in R /\ p[1] \notin S
      <4>1. ClosedAhead(d, R \union S)
        BY <2>1, <3>2 DEF ClosedAhead
      <4>2. R \union S \in SUBSET V /\ to \in R \union S /\ p[2] \in R \union S /\ p[1] \notin R \union S
        BY <2>1, <3>2, <3>6
      <4> QED BY <4>1, <4>2, <3>3
    <3> QED BY <3>4, <3>5, <3>6
  <2> QED BY <2>2, <2>3, <1>1
<1> QED BY <1>5, <1>6 DEF c

(* CycleCheckSound for every document whose thread names its nodes. *)
THEOREM CycleCheckRight ==
  ASSUME NEW d, Doc(d), {"nodes", "edges"} \subseteq DOMAIN d,
         \A i \in DOMAIN d.thread : d.thread[i] \in NodeIDs(d)
  PROVE  CycleCheckSound(d)
<1> SUFFICES ASSUME Acyclic(d)
             PROVE  /\ ValidateGraph(d) = {}
                    /\ \A from, to \in NodeIDs(d) :
                         WouldCreateCycle(d, from, to) <=> TopologicalSort(Connect(d, from, to)) = Failed
  BY DEF CycleCheckSound
<1>1. TopologicalSort(d) # Failed
  BY NotFailed
<1>2. \A i \in DOMAIN d.edges : {d.edges[i].from, d.edges[i].to} \subseteq NodeIDs(d)
  BY DEF Doc
<1>3. \A i \in DOMAIN d.edges : d.edges[i].from # d.edges[i].to
  <2> SUFFICES ASSUME NEW i \in DOMAIN d.edges, d.edges[i].from = d.edges[i].to PROVE FALSE
    OBVIOUS
  <2> DEFINE p == <<d.edges[i].from, d.edges[i].to>>
  <2>1. p \in Pairs(d) /\ p[1] = p[2]
    BY DEF Pairs
  <2> HIDE DEF p
  <2>2. Reaches(d, p[2], p[1])
    BY <2>1 DEF Reaches
  <2> QED BY <2>1, <2>2 DEF Acyclic
<1>4. ValidateGraph(d) = {}
  <2>1. {i \in DOMAIN d.edges : d.edges[i].from = d.edges[i].to} = {}
    BY <1>3
  <2>2. {i \in DOMAIN d.edges : ~({d.edges[i].from, d.edges[i].to} \subseteq NodeIDs(d))} = {}
    BY <1>2
  <2>3. {i \in DOMAIN d.thread : d.thread[i] \notin NodeIDs(d)} = {}
    OBVIOUS
  <2> QED BY <1>1, <2>1, <2>2, <2>3 DEF ValidateGraph
<1>5. ASSUME NEW from \in NodeIDs(d), NEW to \in NodeIDs(d)
      PROVE  WouldCreateCycle(d, from, to) <=> TopologicalSort(Connect(d, from, to)) = Failed
  <2>1. WouldCreateCycle(d, from, to) <=> Reaches(d, to, from)
    BY SearchRight DEF WouldCreateCycle
  <2>2. Acyclic(Connect(d, from, to)) <=> ~Reaches(d, to, from)
    BY ClosesLoop
  <2>3. TopologicalSort(Connect(d, from, to)) = Failed <=> ~Acyclic(Connect(d, from, to))
    <3>1. Doc(Connect(d, from, to))
      BY ConnectIs
    <3> QED BY <3>1, NotFailed
  <2> QED BY <2>1, <2>2, <2>3
<1> QED BY <1>4, <1>5

-----------------------------------------------------------------------------
\* The first k of a list.
Earlier(s, k) == {s[i] : i \in 1..k}

(* The first k of a list, as a list. *)
LEMMA EarlierIs ==
  ASSUME NEW S, NEW s \in Seq(S), NEW k \in 0..Len(s)
  PROVE  Range(SubSeq(s, 1, k)) = Earlier(s, k)
<1> DEFINE t == SubSeq(s, 1, k)
<1>1. DOMAIN t = 1..k /\ \A i \in 1..k : t[i] = s[i]
  OBVIOUS
<1> HIDE DEF t
<1> QED BY <1>1 DEF Range, Earlier, t

\* What can wait to be looked at on a walk.
Waiting(d, starts) == Range(d.edges) \union {Entry(x) : x \in Range(starts)}

\* What holds of a walk after any number of steps.
WalkRuns(d, reader, starts, s) ==
    /\ s \in [read : Seq(NodeIDs(d) \union Range(starts)), pending : Seq(Waiting(d, starts))]
    /\ IsInjective(s.read)
    /\ IF s.read = <<>> THEN s.pending = [i \in DOMAIN starts |-> Entry(starts[i])]
       ELSE s.read[1] = starts[1]
    /\ \A x \in Range(starts) : x \in Range(s.read) \/ Entry(x) \in Range(s.pending)
    /\ \A e \in Range(s.pending) : \/ \E x \in Range(starts) : e = Entry(x)
                                   \/ e \in Range(d.edges) /\ e.from \in Range(s.read)
    /\ \A i \in DOMAIN s.read :
         \/ s.read[i] \in Range(starts)
         \/ \E j \in 1..(i - 1), e \in Range(d.edges) :
              e.from = s.read[j] /\ e.to = s.read[i] /\ EvalCondition(e.cond, Earlier(s.read, i - 1), reader)
    /\ \A i \in DOMAIN s.read, e \in Range(d.edges) : e.from = s.read[i] =>
         \/ e \in Range(s.pending) \/ e.to \in Range(s.read)
         \/ \E k \in i..Len(s.read) : ~EvalCondition(e.cond, Earlier(s.read, k), reader)

WalkLeft(d, s) == Len(s.pending) + Cardinality(OutOf(d, Range(s.read)))

(* Where a walk starts nothing is asked. *)
LEMMA EntryIs ==
  \A x, read, reader : Entry(x).to = x /\ EvalCondition(Entry(x).cond, read, reader)
<1> TAKE x, read, reader
<1>1. Entry(x).to = x /\ Entry(x).cond = <<"">>
  BY DEF Entry
<1>2. <<"">>[1] = ""
  OBVIOUS
<1>3. EvalCondition(<<"">>, read, reader)
  BY <1>2 DEF EvalCondition
<1> QED BY <1>1, <1>3

(* One edge looked at keeps what holds of the walk and brings its end nearer. *)
LEMMA WalkSteps ==
  ASSUME NEW d, Doc(d), NEW reader, NEW starts, IsList(starts), NEW s, WalkRuns(d, reader, starts, s)
  PROVE  LET s2 == WalkStep(d, reader, s)
         IN  /\ WalkRuns(d, reader, starts, s2)
             /\ s.pending = <<>> => s2 = s
             /\ s.pending # <<>> => /\ WalkLeft(d, s) \in Nat /\ WalkLeft(d, s2) \in Nat
                                    /\ WalkLeft(d, s2) = WalkLeft(d, s) - 1
<1> DEFINE s2 == WalkStep(d, reader, s)
           X == NodeIDs(d) \union Range(starts)
           P == Waiting(d, starts)
           e == Head(s.pending)
           rest == Tail(s.pending)
           here == Range(s.read)
           taken == e.to \notin here /\ EvalCondition(e.cond, here, reader)
<1>1. CASE s.pending = <<>>
  BY <1>1 DEF WalkStep
<1>2. CASE s.pending # <<>>
  <2>1. s.read \in Seq(X) /\ s.pending \in Seq(P) /\ s = [read |-> s.read, pending |-> s.pending]
    BY DEF WalkRuns
  <2>2. /\ e \in P /\ rest \in Seq(P) /\ Len(s.pending) \in Nat /\ Len(s.pending) > 0
        /\ Len(rest) = Len(s.pending) - 1 /\ Range(s.pending) = {e} \union Range(rest) /\ e = s.pending[1]
    <3> HIDE DEF P
    <3> QED BY <1>2, <2>1, TailIs
  <2>3. Cardinality(OutOf(d, here)) \in Nat
    <3>1. OutOf(d, here) \in SUBSET (1..Len(d.edges)) /\ Len(d.edges) \in Nat
      BY NodesCounted DEF OutOf
    <3> QED BY <3>1, PlacesFinite
  <2>4. WalkLeft(d, s) \in Nat
    BY <2>2, <2>3 DEF WalkLeft
  <2>5. Len(s.read) \in Nat /\ DOMAIN s.read = 1..Len(s.read) /\ here = Earlier(s.read, Len(s.read))
    <3>1. Len(s.read) \in Nat /\ DOMAIN s.read = 1..Len(s.read)
      BY <2>1
    <3> QED BY <3>1 DEF Range, Earlier
  <2>6. s.read = <<>> => e.to \notin here /\ EvalCondition(e.cond, here, reader) /\ e.to = starts[1]
    <3> SUFFICES ASSUME s.read = <<>>
                 PROVE  e.to \notin here /\ EvalCondition(e.cond, here, reader) /\ e.to = starts[1]
      OBVIOUS
    <3>1. s.pending = [i \in DOMAIN starts |-> Entry(starts[i])]
      BY DEF WalkRuns
    <3>2. 1 \in DOMAIN s.pending
      BY <2>1, <2>2
    <3>3. e = Entry(starts[1])
      BY <2>2, <3>1, <3>2
    <3>4. here = {}
      BY DEF Range
    <3> HIDE DEF e, here
    <3> QED BY <3>3, <3>4, EntryIs
  <2> HIDE DEF e, rest
  <2>7. CASE ~taken
    <3>1. s2 = [read |-> s.read, pending |-> rest]
      <4>1. s2 = [s EXCEPT !.pending = rest]
        BY <1>2, <2>7 DEF WalkStep, e, rest
      <4> HIDE DEF s2
      <4> QED BY <2>1, <4>1
    <3> HIDE DEF s2
    <3>2. s2.read = s.read /\ s2.pending = rest
      BY <3>1
    <3>3. s.read # <<>>
      BY <2>6, <2>7
    <3>4. s2 \in [read : Seq(X), pending : Seq(P)]
      <4> HIDE DEF X, P
      <4> QED BY <2>1, <2>2, <3>1
    <3>5. ASSUME NEW x \in Range(starts) PROVE x \in Range(s2.read) \/ Entry(x) \in Range(s2.pending)
      <4>1. x \in here \/ Entry(x) \in Range(s.pending)
        BY DEF WalkRuns
      <4>2. CASE Entry(x) = e
        BY <4>2, <2>7, <3>2, EntryIs
      <4> QED BY <4>1, <4>2, <2>2, <3>2
    <3>6. ASSUME NEW f \in Range(s2.pending)
          PROVE  (\E x \in Range(starts) : f = Entry(x)) \/ (f \in Range(d.edges) /\ f.from \in Range(s2.read))
      BY <2>2, <3>2 DEF WalkRuns
    <3>7. ASSUME NEW i \in DOMAIN s2.read, NEW f \in Range(d.edges), f.from = s2.read[i]
          PROVE  \/ f \in Range(s2.pending) \/ f.to \in Range(s2.read)
                 \/ \E k \in i..Len(s2.read) : ~EvalCondition(f.cond, Earlier(s2.read, k), reader)
      <4>1. \/ f \in Range(s.pending) \/ f.to \in here
            \/ \E k \in i..Len(s.read) : ~EvalCondition(f.cond, Earlier(s.read, k), reader)
        BY <3>2, <3>7 DEF WalkRuns
      <4>2. CASE f = e
        <5>1. Len(s.read) \in i..Len(s.read)
          BY <2>5, <3>2
        <5>2. f.to \in here \/ ~EvalCondition(f.cond, Earlier(s.read, Len(s.read)), reader)
          BY <4>2, <2>5, <2>7
        <5> QED BY <5>1, <5>2, <3>2
      <4> QED BY <4>1, <4>2, <2>2, <3>2
    <3>8. WalkRuns(d, reader, starts, s2)
      <4>1. IsInjective(s2.read) /\ s2.read # <<>> /\ s2.read[1] = starts[1]
        BY <3>2, <3>3 DEF WalkRuns
      <4>2. \A i \in DOMAIN s2.read :
               \/ s2.read[i] \in Range(starts)
               \/ \E j \in 1..(i - 1), f \in Range(d.edges) :
                    f.from = s2.read[j] /\ f.to = s2.read[i] /\ EvalCondition(f.cond, Earlier(s2.read, i - 1), reader)
        BY <3>2 DEF WalkRuns
      <4> QED BY <3>4, <3>5, <3>6, <3>7, <4>1, <4>2 DEF WalkRuns
    <3>9. WalkLeft(d, s2) = WalkLeft(d, s) - 1 /\ WalkLeft(d, s2) \in Nat
      BY <2>2, <2>3, <3>2 DEF WalkLeft
    <3> QED BY <1>2, <2>4, <3>8, <3>9 DEF s2
  <2>8. CASE taken
    <3> DEFINE list == ListEdgesFrom(d, e.to)
               read2 == Append(s.read, e.to)
               n == Len(s.read)
    <3>1. s2 = [read |-> read2, pending |-> list \o rest]
      BY <1>2, <2>8 DEF WalkStep, e, rest
    <3>2. list \in Seq(P) /\ Len(list) = Cardinality(EdgesFrom(d, e.to)) /\ Cardinality(EdgesFrom(d, e.to)) \in Nat
          /\ Range(list) = {d.edges[i] : i \in EdgesFrom(d, e.to)}
      <4>1. list \in Seq(Range(d.edges)) /\ Len(list) = Cardinality(EdgesFrom(d, e.to))
            /\ Cardinality(EdgesFrom(d, e.to)) \in Nat
            /\ Range(list) = {d.edges[i] : i \in EdgesFrom(d, e.to)}
        BY ListedFrom
      <4>2. Range(d.edges) \subseteq P
        BY DEF Waiting
      <4> HIDE DEF list, P
      <4>3. list \in Seq(P)
        BY <4>1, <4>2
      <4> QED BY <4>1, <4>3
    <3>3. e.to \in X
      <4>1. CASE e \in Range(d.edges)
        <5>1. PICK i \in DOMAIN d.edges : e = d.edges[i]
          BY <4>1 DEF Range
        <5> QED BY <5>1 DEF Doc
      <4>2. CASE \E x \in Range(starts) : e = Entry(x)
        BY <4>2, EntryIs
      <4> QED BY <2>2, <4>1, <4>2 DEF Waiting
    <3>4. IsInjective(s.read)
      BY DEF WalkRuns
    <3>5. /\ read2 \in Seq(X) /\ Len(read2) = n + 1 /\ Range(read2) = here \union {e.to}
          /\ \A i \in 1..n : read2[i] = s.read[i]
          /\ read2[n + 1] = e.to /\ IsInjective(read2)
      <4> HIDE DEF X
      <4> QED BY <2>1, <2>8, <3>3, <3>4, AppendIs
    <3> HIDE DEF list, read2, s2
    <3>6. list \o rest \in Seq(P) /\ Len(list \o rest) = Len(list) + Len(rest)
          /\ Range(list \o rest) = Range(list) \union Range(rest)
      <4>1. list \in Seq(P) /\ rest \in Seq(P)
        BY <2>2, <3>2
      <4> HIDE DEF P
      <4> QED BY <4>1, JoinIs
    <3>7. s2.read = read2 /\ s2.pending = list \o rest
      BY <3>1
    <3>8. s2 \in [read : Seq(X), pending : Seq(P)]
      <4> HIDE DEF X, P
      <4> QED BY <3>1, <3>5, <3>6
    <3> HIDE DEF n
    <3>9. n \in Nat /\ DOMAIN read2 = 1..(n + 1) /\ DOMAIN s.read = 1..n /\ here = Earlier(s.read, n)
          /\ Len(s.read) = n
      BY <2>5, <3>5 DEF n
    <3>10. \A k \in 0..n : Earlier(read2, k) = Earlier(s.read, k)
      <4> TAKE k \in 0..n
      <4>1. \A i \in 1..k : read2[i] = s.read[i]
        BY <3>5, <3>9
      <4> QED BY <4>1 DEF Earlier
    <3>11. read2 # <<>> /\ read2[1] = starts[1]
      <4>1. read2 # <<>>
        BY <3>9
      <4>2. CASE s.read = <<>>
        <5>1. n = 0
          BY <4>2, <3>9
        <5> QED BY <4>1, <4>2, <5>1, <2>6, <3>5
      <4>3. CASE s.read # <<>>
        <5>1. 1 \in 1..n
          BY <4>3, <3>9, <2>1
        <5> QED BY <4>1, <4>3, <5>1, <3>5 DEF WalkRuns
      <4> QED BY <4>2, <4>3
    <3>12. ASSUME NEW x \in Range(starts) PROVE x \in Range(s2.read) \/ Entry(x) \in Range(s2.pending)
      <4>1. x \in here \/ Entry(x) \in Range(s.pending)
        BY DEF WalkRuns
      <4>2. CASE Entry(x) = e
        BY <4>2, <3>5, <3>7, EntryIs
      <4> QED BY <4>1, <4>2, <2>2, <3>5, <3>6, <3>7
    <3>13. ASSUME NEW f \in Range(s2.pending)
          PROVE  (\E x \in Range(starts) : f = Entry(x)) \/ (f \in Range(d.edges) /\ f.from \in Range(s2.read))
      <4>1. CASE f \in Range(list)
        <5>1. PICK i \in EdgesFrom(d, e.to) : f = d.edges[i]
          BY <4>1, <3>2
        <5>2. i \in DOMAIN d.edges /\ f.from = e.to
          BY <5>1 DEF EdgesFrom
        <5>3. f \in Range(d.edges)
          BY <5>1, <5>2 DEF Range
        <5> QED BY <5>2, <5>3, <3>5, <3>7
      <4>2. CASE f \in Range(rest)
        BY <4>2, <2>2, <3>5, <3>7 DEF WalkRuns
      <4> QED BY <4>1, <4>2, <3>6, <3>7
    <3>14. ASSUME NEW i \in DOMAIN s2.read
           PROVE  \/ s2.read[i] \in Range(starts)
                  \/ \E j \in 1..(i - 1), f \in Range(d.edges) :
                       f.from = s2.read[j] /\ f.to = s2.read[i]
                       /\ EvalCondition(f.cond, Earlier(s2.read, i - 1), reader)
      <4>1. CASE i \in 1..n
        <5>1. \/ s.read[i] \in Range(starts)
              \/ \E j \in 1..(i - 1), f \in Range(d.edges) :
                   f.from = s.read[j] /\ f.to = s.read[i]
                   /\ EvalCondition(f.cond, Earlier(s.read, i - 1), reader)
          BY <4>1, <3>9 DEF WalkRuns
        <5>2. \A j \in 1..(i - 1) : read2[j] = s.read[j]
          BY <4>1, <3>5, <3>9
        <5>3. Earlier(read2, i - 1) = Earlier(s.read, i - 1)
          BY <4>1, <3>9, <3>10
        <5> QED BY <4>1, <5>1, <5>2, <5>3, <3>5, <3>7
      <4>2. CASE i = n + 1
        <5>1. s2.read[i] = e.to /\ i - 1 = n
          BY <4>2, <3>5, <3>7, <3>9
        <5>2. e \in Range(s.pending)
          BY <2>2
        <5>3. CASE \E x \in Range(starts) : e = Entry(x)
          BY <5>1, <5>3, EntryIs
        <5>4. CASE e \in Range(d.edges) /\ e.from \in here
          <6>1. PICK j \in 1..n : s.read[j] = e.from
            BY <5>4, <3>9 DEF Range
          <6>2. read2[j] = e.from /\ j \in 1..(i - 1)
            BY <6>1, <5>1, <3>5
          <6>3. EvalCondition(e.cond, Earlier(read2, i - 1), reader)
            BY <5>1, <2>8, <3>9, <3>10
          <6> QED BY <5>1, <5>4, <6>2, <6>3, <3>7
        <5> QED BY <5>2, <5>3, <5>4 DEF WalkRuns
      <4> QED BY <4>1, <4>2, <3>7, <3>9
    <3>15. ASSUME NEW i \in DOMAIN s2.read, NEW f \in Range(d.edges), f.from = s2.read[i]
           PROVE  \/ f \in Range(s2.pending) \/ f.to \in Range(s2.read)
                  \/ \E k \in i..Len(s2.read) : ~EvalCondition(f.cond, Earlier(s2.read, k), reader)
      <4>1. CASE i \in 1..n
        <5>1. \/ f \in Range(s.pending) \/ f.to \in here
              \/ \E k \in i..n : ~EvalCondition(f.cond, Earlier(s.read, k), reader)
          BY <4>1, <3>5, <3>7, <3>9, <3>15 DEF WalkRuns
        <5>2. CASE f \in Range(s.pending)
          BY <5>2, <2>2, <3>5, <3>6, <3>7
        <5>3. CASE \E k \in i..n : ~EvalCondition(f.cond, Earlier(s.read, k), reader)
          <6>1. PICK k \in i..n : ~EvalCondition(f.cond, Earlier(s.read, k), reader)
            BY <5>3
          <6>2. k \in 0..n /\ k \in i..(n + 1)
            BY <4>1, <3>9
          <6> QED BY <6>1, <6>2, <3>5, <3>7, <3>10
        <5> QED BY <5>1, <5>2, <5>3, <3>5, <3>7
      <4>2. CASE i = n + 1
        <5>1. f.from = e.to
          BY <4>2, <3>5, <3>7, <3>15
        <5>2. PICK j \in DOMAIN d.edges : f = d.edges[j]
          BY DEF Range
        <5>3. j \in EdgesFrom(d, e.to)
          BY <5>1, <5>2 DEF EdgesFrom
        <5>4. f \in Range(list)
          BY <5>2, <5>3, <3>2
        <5> QED BY <5>4, <3>6, <3>7
      <4> QED BY <4>1, <4>2, <3>7, <3>9
    <3>16. WalkRuns(d, reader, starts, s2)
      BY <3>5, <3>7, <3>8, <3>11, <3>12, <3>13, <3>14, <3>15 DEF WalkRuns
    <3>17. /\ Cardinality(OutOf(d, Range(s2.read))) \in Nat
           /\ Cardinality(OutOf(d, Range(s2.read))) + Cardinality(EdgesFrom(d, e.to)) = Cardinality(OutOf(d, here))
      BY <2>8, <3>5, <3>7, OutLess
    <3>18. WalkLeft(d, s2) = WalkLeft(d, s) - 1 /\ WalkLeft(d, s2) \in Nat
      <4>1. Len(s2.pending) = Len(list) + Len(rest) /\ Len(list) \in Nat
        BY <3>2, <3>6, <3>7
      <4> DEFINE a == Cardinality(OutOf(d, Range(s2.read)))
                 b == Cardinality(OutOf(d, here))
                 c == Cardinality(EdgesFrom(d, e.to))
      <4>2. a \in Nat /\ b \in Nat /\ c \in Nat /\ a + c = b /\ Len(list) = c
        BY <2>3, <3>2, <3>17
      <4>3. WalkLeft(d, s2) = Len(s2.pending) + a /\ WalkLeft(d, s) = Len(s.pending) + b
        BY DEF WalkLeft
      <4> HIDE DEF a, b, c
      <4> QED BY <2>2, <4>1, <4>2, <4>3
    <3> QED BY <1>2, <2>4, <3>16, <3>18 DEF s2
  <2> QED BY <2>7, <2>8
<1> QED BY <1>1, <1>2

-----------------------------------------------------------------------------
(* A walk runs until nothing is left to look at. *)
LEMMA WalkEnds ==
  ASSUME NEW d, Doc(d), NEW reader, NEW starts, IsList(starts)
  PROVE  \E s : /\ WalkRuns(d, reader, starts, s) /\ s.pending = <<>>
                /\ ConditionalWalk(d, reader, starts) = s.read
<1> DEFINE X == NodeIDs(d) \union Range(starts)
           P == Waiting(d, starts)
           all == Len(starts) + Len(d.edges)
           first == [i \in DOMAIN starts |-> Entry(starts[i])]
<1>1. all \in Nat /\ Len(d.edges) \in Nat /\ Len(starts) \in Nat /\ DOMAIN starts = 1..Len(starts)
  <2>1. Len(d.edges) \in Nat /\ Len(starts) \in Nat /\ DOMAIN starts = 1..Len(starts)
    BY NodesCounted, ListIs
  <2>2. \A a, b \in Nat : a + b \in Nat
    OBVIOUS
  <2>3. all \in Nat
    BY <2>1, <2>2, Zenon
  <2> QED BY <2>1, <2>3
<1> DEFINE A == {s \in [read : Seq(X), pending : Seq(P)] : WalkRuns(d, reader, starts, s)}
           start == [read |-> <<>>, pending |-> first]
           step == [s \in A |-> WalkStep(d, reader, s)]
           run == CHOOSE f : f = [k \in 0..all |->
                               IF k = 0 THEN start ELSE WalkStep(d, reader, f[k - 1])]
<1>2. \A s : s \in A <=> WalkRuns(d, reader, starts, s)
  BY DEF WalkRuns
<1>3. ConditionalWalk(d, reader, starts) = run[all].read
  BY DEF ConditionalWalk
<1>4. WalkRuns(d, reader, starts, start) /\ WalkLeft(d, start) = all
  <2>1. \A i \in 1..Len(starts) : first[i] = Entry(starts[i]) /\ first[i] \in P
    BY <1>1 DEF Waiting, Range
  <2>2. Range(first) = {Entry(x) : x \in Range(starts)}
    BY <1>1 DEF Range
  <2>3. first \in Seq(P) /\ Len(first) = Len(starts)
    <3> HIDE DEF P
    <3>1. first \in [1..Len(starts) -> P]
      BY <1>1, <2>1
    <3>2. DOMAIN first = 1..Len(starts)
      BY <3>1
    <3> HIDE DEF first
    <3> QED BY <1>1, <3>1, <3>2
  <2>4. OutOf(d, {}) = DOMAIN d.edges /\ DOMAIN d.edges = 1..Len(d.edges)
    BY NodesCounted DEF OutOf
  <2>5. Cardinality(OutOf(d, {})) = Len(d.edges)
    <3>1. \A m \in Nat : Cardinality(1..m) = m
      BY FS_Interval
    <3> QED BY <1>1, <2>4, <3>1, Zenon
  <2>6. Range(<<>>) = {} /\ start.read = <<>> /\ start.pending = first /\ DOMAIN start.read = {}
    BY DEF Range
  <2> HIDE DEF first
  <2>7. start \in [read : Seq(X), pending : Seq(P)]
    <3>1. <<>> \in Seq(X)
      OBVIOUS
    <3> HIDE DEF X, P
    <3> QED BY <2>3, <3>1
  <2>8. IsInjective(start.read)
    BY <2>6 DEF IsInjective
  <2>9. WalkLeft(d, start) = all
    BY <1>1, <2>3, <2>5, <2>6 DEF WalkLeft
  <2> HIDE DEF start
  <2>10. WalkRuns(d, reader, starts, start)
    <3>1. Range(start.read) = {}
      BY <2>6
    <3>2. \A x \in Range(starts) : Entry(x) \in Range(start.pending)
      BY <2>2, <2>6
    <3>3. \A e \in Range(start.pending) : \E x \in Range(starts) : e = Entry(x)
      BY <2>2, <2>6
    <3>4. start.pending = [i \in DOMAIN starts |-> Entry(starts[i])]
      BY <2>6 DEF first
    <3> QED BY <2>6, <2>7, <2>8, <3>1, <3>2, <3>3, <3>4 DEF WalkRuns
  <2> QED BY <2>9, <2>10
<1> HIDE DEF all, A, start, run, first
<1>5. start \in A
  BY <1>2, <1>4
<1>6. \A s \in A : WalkStep(d, reader, s) \in A
  BY <1>2, WalkSteps
<1>7. step \in [A -> A]
  BY <1>6
<1> HIDE DEF step
<1>8. PICK f \in [0..all -> A] : IsLoop(f, all, start, step)
  BY <1>1, <1>5, <1>7, LoopFn
<1>9. f = [k \in 0..all |-> IF k = 0 THEN start ELSE WalkStep(d, reader, f[k - 1])]
  <2>1. ASSUME NEW k \in 0..all, k # 0 PROVE f[k] = WalkStep(d, reader, f[k - 1])
    <3>1. k \in 1..all /\ k - 1 \in 0..all
      BY <2>1, <1>1
    <3>2. f[k - 1] \in A /\ f[k] = step[f[k - 1]]
      BY <3>1, <1>8 DEF IsLoop
    <3> QED BY <3>2 DEF step
  <2>2. f[0] = start
    BY <1>8 DEF IsLoop
  <2> QED BY <2>1, <2>2
<1>10. run = [k \in 0..all |-> IF k = 0 THEN start ELSE WalkStep(d, reader, run[k - 1])]
  BY <1>9 DEF run
<1>11. run[0] = start /\ \A k \in 1..all : run[k] = WalkStep(d, reader, run[k - 1])
  BY <1>10, <1>1
<1> DEFINE Over(k) == run[k].pending = <<>> \/ WalkLeft(d, run[k]) = all - k
           T == {k \in 0..all : run[k] \in A /\ Over(k)}
<1>12. 0 \in T
  BY <1>1, <1>4, <1>5, <1>11
<1>13. ASSUME NEW k \in 1..all, k - 1 \in T PROVE k \in T
  <2> DEFINE s == run[k - 1]
             s2 == WalkStep(d, reader, s)
  <2>1. s \in A /\ (s.pending = <<>> \/ WalkLeft(d, s) = all - (k - 1)) /\ run[k] = s2
    BY <1>11, <1>13
  <2> HIDE DEF s
  <2>2. WalkRuns(d, reader, starts, s)
    BY <2>1, <1>2
  <2>3. /\ WalkRuns(d, reader, starts, s2)
        /\ s.pending = <<>> => s2 = s
        /\ s.pending # <<>> => /\ WalkLeft(d, s) \in Nat /\ WalkLeft(d, s2) \in Nat
                               /\ WalkLeft(d, s2) = WalkLeft(d, s) - 1
    BY <2>2, WalkSteps
  <2> HIDE DEF s2
  <2>4. run[k] \in A
    BY <2>1, <2>3, <1>2
  <2>5. Over(k)
    BY <2>1, <2>3, <1>1
  <2> QED BY <2>4, <2>5
<1> HIDE DEF T
<1>14. all \in T
  <2>1. \A k \in 0..all : k \in T
    BY <1>1, <1>12, <1>13, UptoN
  <2> QED BY <2>1, <1>1
<1> DEFINE e == run[all]
<1>15. WalkRuns(d, reader, starts, e) /\ (e.pending = <<>> \/ WalkLeft(d, e) = 0)
  BY <1>14, <1>2, <1>1 DEF T
<1> HIDE DEF e
<1>16. e.pending = <<>>
  <2>1. Cardinality(OutOf(d, Range(e.read))) \in Nat
    <3>1. OutOf(d, Range(e.read)) \in SUBSET (1..Len(d.edges))
      BY NodesCounted DEF OutOf
    <3> QED BY <1>1, <3>1, PlacesFinite
  <2>2. e.pending \in Seq(P)
    BY <1>15 DEF WalkRuns
  <2> HIDE DEF P
  <2>3. WalkLeft(d, e) = 0 => Len(e.pending) = 0
    BY <2>1, <2>2 DEF WalkLeft
  <2> QED BY <1>15, <2>2, <2>3
<1> QED BY <1>3, <1>15, <1>16 DEF e

(* ConditionalWalk of any document, from any starts, for any reader: it *)
(* visits no node twice, enters each node by an edge whose condition held for *)
(* what had been read by then, unless it starts there, and leaves none out *)
(* whose condition held ever since the edge was passed (dag/traverse.go). *)
THEOREM WalkRight ==
  ASSUME NEW d, Doc(d), NEW reader, NEW starts, IsList(starts)
  PROVE  WalkSound(d, reader, starts)
<1> DEFINE path == ConditionalWalk(d, reader, starts)
           ReadBy(i) == Range(SubSeq(path, 1, i))
<1>1. PICK s : WalkRuns(d, reader, starts, s) /\ s.pending = <<>> /\ path = s.read
  BY WalkEnds
<1> HIDE DEF path
<1>2. Range(<<>>) = {}
  BY DEF Range
<1>3. path \in Seq(NodeIDs(d) \union Range(starts)) /\ Len(path) \in Nat /\ DOMAIN path = 1..Len(path)
  BY <1>1 DEF WalkRuns
<1>4. \A i \in 0..Len(path) : ReadBy(i) = Earlier(path, i)
  BY <1>3, EarlierIs
<1>5. IsInjective(path) /\ Range(starts) \subseteq Range(path)
  BY <1>1, <1>2 DEF WalkRuns
<1>6. starts # <<>> => path[1] = starts[1]
  <2> SUFFICES ASSUME starts # <<>> PROVE path[1] = starts[1]
    OBVIOUS
  <2>1. starts \in Seq(Range(starts)) /\ Len(starts) \in Nat /\ \A i \in 1..Len(starts) : starts[i] \in Range(starts)
    BY ListIs
  <2>2. 1 \in 1..Len(starts)
    BY <2>1
  <2>3. starts[1] \in Range(path)
    BY <2>1, <2>2, <1>5
  <2>4. s.read # <<>>
    BY <1>1, <1>2, <2>3
  <2> QED BY <1>1, <2>4 DEF WalkRuns
<1>7. ASSUME NEW i \in DOMAIN path
      PROVE  \/ path[i] \in Range(starts)
             \/ \E j \in 1..(i - 1), e \in Range(d.edges) :
                  e.from = path[j] /\ e.to = path[i] /\ EvalCondition(e.cond, ReadBy(i - 1), reader)
  <2>1. ReadBy(i - 1) = Earlier(path, i - 1)
    <3>1. i - 1 \in 0..Len(path)
      BY <1>3
    <3> HIDE DEF ReadBy
    <3> QED BY <1>4, <3>1
  <2> HIDE DEF ReadBy
  <2> QED BY <1>1, <2>1 DEF WalkRuns
<1>8. ASSUME NEW i \in DOMAIN path, NEW e \in Range(d.edges), e.from = path[i], e.to \notin Range(path)
      PROVE  \E k \in i..Len(path) : ~EvalCondition(e.cond, ReadBy(k), reader)
  <2> HIDE DEF ReadBy
  <2>1. PICK k \in i..Len(path) : ~EvalCondition(e.cond, Earlier(path, k), reader)
    BY <1>1, <1>2, <1>8 DEF WalkRuns
  <2>2. k \in 0..Len(path)
    BY <1>3
  <2>3. ReadBy(k) = Earlier(path, k)
    BY <1>4, <2>2
  <2> QED BY <2>1, <2>3
<1> QED BY <1>5, <1>6, <1>7, <1>8 DEF WalkSound, path

-----------------------------------------------------------------------------
\* The spans a list of texts quotes.
Keys(s) == {SpanKey(s[i]) : i \in DOMAIN s}

\* No span is quoted twice.
KeysApart(s) == \A i, j \in DOMAIN s : SpanKey(s[i]) = SpanKey(s[j]) => i = j

\* The texts more says nothing that chunks and what more added have not said.
Gathers(chunks, keys, more) ==
    /\ Len(chunks) <= Len(more) /\ \A i \in 1..Len(chunks) : more[i] = chunks[i]
    /\ KeysApart(more) /\ Keys(more) = Keys(chunks) \union keys

(* Collecting one text. *)
LEMMA CollectIs ==
  ASSUME NEW U, NEW chunks \in Seq(U), NEW item \in U, KeysApart(chunks)
  PROVE  Collect(chunks, item) \in Seq(U) /\ Gathers(chunks, {SpanKey(item)}, Collect(chunks, item))
<1> DEFINE n == Len(chunks)
           more == Append(chunks, item)
<1>1. n \in Nat /\ DOMAIN chunks = 1..n
  OBVIOUS
<1>2. CASE \E i \in DOMAIN chunks : SpanKey(chunks[i]) = SpanKey(item)
  <2>1. Collect(chunks, item) = chunks
    BY <1>2 DEF Collect
  <2>2. SpanKey(item) \in Keys(chunks)
    BY <1>2 DEF Keys
  <2> QED BY <1>1, <2>1, <2>2 DEF Gathers
<1>3. CASE \A i \in DOMAIN chunks : SpanKey(chunks[i]) # SpanKey(item)
  <2>1. Collect(chunks, item) = more
    BY <1>3 DEF Collect
  <2>2. more \in Seq(U) /\ Len(more) = n + 1 /\ (\A i \in 1..n : more[i] = chunks[i]) /\ more[n + 1] = item
    BY AppendIs
  <2> HIDE DEF more
  <2>3. DOMAIN more = 1..(n + 1)
    BY <2>2
  <2> HIDE DEF n
  <2>4. \A i \in 1..(n + 1) : i \in 1..n \/ i = n + 1
    BY <1>1
  <2>5. \A i \in 1..n : i \in 1..(n + 1)
    BY <1>1
  <2>6. KeysApart(more)
    <3> SUFFICES ASSUME NEW i \in 1..(n + 1), NEW j \in 1..(n + 1), SpanKey(more[i]) = SpanKey(more[j])
                 PROVE  i = j
      BY <2>3 DEF KeysApart
    <3> QED BY <1>1, <1>3, <2>2, <2>4 DEF KeysApart
  <2>7. Keys(more) = Keys(chunks) \union {SpanKey(item)}
    <3>1. \A k \in Keys(more) : k \in Keys(chunks) \union {SpanKey(item)}
      BY <1>1, <2>2, <2>3, <2>4 DEF Keys
    <3>2. \A k \in Keys(chunks) : k \in Keys(more)
      BY <1>1, <2>2, <2>3, <2>5 DEF Keys
    <3>3. n + 1 \in 1..(n + 1)
      BY <1>1
    <3>4. SpanKey(item) \in Keys(more)
      BY <2>2, <2>3, <3>3 DEF Keys
    <3> QED BY <3>1, <3>2, <3>4
  <2> QED BY <1>1, <2>1, <2>2, <2>6, <2>7 DEF Gathers, n
<1> QED BY <1>2, <1>3

(* One gathering after another. *)
LEMMA GatherOn ==
  ASSUME NEW U, NEW a \in Seq(U), NEW b \in Seq(U), NEW c \in Seq(U), NEW k1, NEW k2,
         Gathers(a, k1, b), Gathers(b, k2, c)
  PROVE  Gathers(a, k1 \union k2, c)
<1>1. Len(a) \in Nat /\ Len(b) \in Nat /\ Len(c) \in Nat
  OBVIOUS
<1>2. Len(a) <= Len(c) /\ \A i \in 1..Len(a) : i \in 1..Len(b) /\ c[i] = a[i]
  BY <1>1 DEF Gathers
<1>3. KeysApart(c) /\ Keys(c) = Keys(a) \union (k1 \union k2)
  BY DEF Gathers
<1> QED BY <1>2, <1>3 DEF Gathers

(* Collecting a list of texts. *)
LEMMA CollectsAll ==
  ASSUME NEW U, NEW chunks \in Seq(U), NEW list \in Seq(U), KeysApart(chunks)
  PROVE  /\ FoldLeft(Collect, chunks, list) \in Seq(U)
         /\ Gathers(chunks, Keys(list), FoldLeft(Collect, chunks, list))
<1> DEFINE n == Len(list)
           A == Seq(U)
           step == [x \in (1..n) \X A |-> Collect(x[2], list[x[1]])]
           it == CHOOSE it : it = [s \in SUBSET (DOMAIN list) |->
                                     IF s = {} THEN chunks ELSE Collect(it[s \ {Max(s)}], list[Max(s)])]
<1>1. DOMAIN list = 1..n /\ n \in Nat /\ \A i \in 1..n : list[i] \in U
  OBVIOUS
<1>2. \A c \in A, u \in U : Collect(c, u) \in A
  <2> TAKE c \in A, u \in U
  <2>1. Append(c, u) \in A
    OBVIOUS
  <2> QED BY <2>1 DEF Collect
<1> HIDE DEF A, n
<1>3. step \in [(1..n) \X A -> A]
  <2>1. ASSUME NEW x \in (1..n) \X A PROVE Collect(x[2], list[x[1]]) \in A
    BY <1>1, <1>2
  <2> QED BY <2>1
<1> HIDE DEF step
<1>4. PICK g \in [SUBSET (1..n) -> A] : IsFold(g, n, chunks, step)
  <2>1. chunks \in A
    BY DEF A
  <2> QED BY <2>1, <1>1, <1>3, FoldFn
<1>5. g = [s \in SUBSET (DOMAIN list) |-> IF s = {} THEN chunks ELSE Collect(g[s \ {Max(s)}], list[Max(s)])]
  <2>1. ASSUME NEW s \in SUBSET (1..n), s # {}
        PROVE  step[<<Max(s), g[s \ {Max(s)}]>>] = Collect(g[s \ {Max(s)}], list[Max(s)])
    <3>1. Max(s) \in 1..n /\ g[s \ {Max(s)}] \in A
      BY <2>1, <1>1, <1>4, TopIn
    <3> QED BY <3>1 DEF step
  <2> QED BY <1>1, <1>4, <2>1 DEF IsFold
<1>6. FoldLeft(Collect, chunks, list) = it[DOMAIN list]
  BY DEF FoldLeft, MapThenFoldSet
<1>7. it = [s \in SUBSET (DOMAIN list) |-> IF s = {} THEN chunks ELSE Collect(it[s \ {Max(s)}], list[Max(s)])]
  BY <1>5
<1> HIDE DEF it
<1> DEFINE acc == [k \in 0..n |-> it[1..k]]
<1>8. acc[0] = chunks /\ acc[n] = FoldLeft(Collect, chunks, list)
      /\ \A k \in 1..n : acc[k] = Collect(acc[k - 1], list[k])
  <2>1. ASSUME NEW k \in 1..n PROVE it[1..k] = Collect(it[1..(k - 1)], list[k])
    <3>1. k \in Nat /\ k > 0 /\ 1..k \in SUBSET (1..n)
      BY <1>1
    <3>2. Max(1..k) = k /\ (1..k) \ {k} = 1..(k - 1) /\ 1..k # {}
      BY <3>1, TopUpto
    <3>3. it[1..k] = Collect(it[(1..k) \ {Max(1..k)}], list[Max(1..k)])
      BY <1>1, <1>7, <3>1, <3>2, Zenon
    <3> QED BY <3>2, <3>3
  <2>2. it[1..0] = chunks
    <3>1. 1..0 = {} /\ {} \in SUBSET (1..n)
      OBVIOUS
    <3> QED BY <1>1, <1>7, <3>1
  <2> QED BY <1>1, <1>6, <2>1, <2>2
<1> HIDE DEF acc
<1> DEFINE Said(k) == {SpanKey(list[i]) : i \in 1..k}
           T == {k \in 0..n : acc[k] \in Seq(U) /\ Gathers(chunks, Said(k), acc[k])}
<1>9. 0 \in T
  <2>1. Said(0) = {} /\ Len(chunks) \in Nat
    OBVIOUS
  <2> QED BY <2>1, <1>1, <1>8 DEF Gathers
<1>10. ASSUME NEW k \in 1..n, k - 1 \in T PROVE k \in T
  <2>1. acc[k - 1] \in Seq(U) /\ Gathers(chunks, Said(k - 1), acc[k - 1])
    BY <1>10
  <2>2. acc[k] \in Seq(U) /\ Gathers(acc[k - 1], {SpanKey(list[k])}, acc[k])
    <3>1. KeysApart(acc[k - 1])
      BY <2>1 DEF Gathers
    <3> QED BY <3>1, <2>1, <1>1, <1>8, CollectIs
  <2>3. Said(k) = Said(k - 1) \union {SpanKey(list[k])}
    <3>1. \A i \in 1..k : i \in 1..(k - 1) \/ i = k
      BY <1>1
    <3>2. \A i \in 1..(k - 1) : i \in 1..k
      BY <1>1
    <3>3. k \in 1..k
      BY <1>1
    <3> QED BY <3>1, <3>2, <3>3
  <2> HIDE DEF Said
  <2>4. Gathers(chunks, Said(k), acc[k])
    BY <2>1, <2>2, <2>3, GatherOn
  <2> QED BY <2>2, <2>4, <1>1
<1> HIDE DEF T
<1>11. n \in T
  <2>1. \A k \in 0..n : k \in T
    BY <1>1, <1>9, <1>10, UptoN
  <2> QED BY <2>1, <1>1
<1>12. Said(n) = Keys(list)
  BY <1>1 DEF Keys
<1> HIDE DEF Said
<1> QED BY <1>8, <1>11, <1>12 DEF T

-----------------------------------------------------------------------------
\* The m-th node of an order is the first of them to offer the span.
FirstAt(d, order, key, m) ==
    /\ key \in Keys(Offered(d, order[m]))
    /\ \A j \in 1..(m - 1) : key \notin Keys(Offered(d, order[j]))

\* What the first k nodes of an order offer.
OfferedBy(d, order, k) == UNION {Keys(Offered(d, order[m])) : m \in 1..k}

\* What holds of the texts collected along the first k nodes.
CollectedBy(d, order, k, chunks) ==
    /\ KeysApart(chunks) /\ Keys(chunks) = OfferedBy(d, order, k)
    /\ \A i \in DOMAIN chunks : \E m \in 1..k : FirstAt(d, order, SpanKey(chunks[i]), m)
    /\ \A i, j \in DOMAIN chunks, a, b \in 1..k :
         i < j /\ FirstAt(d, order, SpanKey(chunks[i]), a) /\ FirstAt(d, order, SpanKey(chunks[j]), b)
           => a <= b

(* A node's texts are collected after all those of the nodes before it. *)
LEMMA CollectsOn ==
  ASSUME NEW d, NEW U, NEW order, NEW k \in Nat, k > 0, Offered(d, order[k]) \in Seq(U),
         NEW chunks \in Seq(U), CollectedBy(d, order, k - 1, chunks)
  PROVE  /\ CollectFrom(d, chunks, order[k]) \in Seq(U)
         /\ CollectedBy(d, order, k, CollectFrom(d, chunks, order[k]))
<1> DEFINE more == CollectFrom(d, chunks, order[k])
           keys == Keys(Offered(d, order[k]))
           n == Len(chunks)
<1>1. more \in Seq(U) /\ Gathers(chunks, keys, more)
  BY CollectsAll DEF CollectFrom, CollectedBy
<1>2. n \in Nat /\ DOMAIN chunks = 1..n /\ Len(more) \in Nat /\ DOMAIN more = 1..Len(more)
  BY <1>1
<1> HIDE DEF more, n
<1>3. /\ n <= Len(more) /\ KeysApart(more) /\ Keys(more) = Keys(chunks) \union keys
      /\ \A i \in 1..n : more[i] = chunks[i]
  BY <1>1 DEF Gathers, n
<1>4. OfferedBy(d, order, k) = OfferedBy(d, order, k - 1) \union keys
  <2>1. \A m \in 1..k : m \in 1..(k - 1) \/ m = k
    OBVIOUS
  <2>2. \A m \in 1..(k - 1) : m \in 1..k
    OBVIOUS
  <2>3. k \in 1..k
    OBVIOUS
  <2> QED BY <2>1, <2>2, <2>3 DEF OfferedBy
<1> HIDE DEF keys
<1>5. \A i \in 1..n : SpanKey(more[i]) \in OfferedBy(d, order, k - 1)
  BY <1>2, <1>3 DEF CollectedBy, Keys
<1>6. ASSUME NEW i \in DOMAIN more, i \notin 1..n PROVE FirstAt(d, order, SpanKey(more[i]), k)
  <2>1. SpanKey(more[i]) \notin Keys(chunks)
    <3> SUFFICES ASSUME NEW j \in 1..n, SpanKey(more[i]) = SpanKey(chunks[j]) PROVE FALSE
      BY <1>2 DEF Keys
    <3>1. j \in DOMAIN more /\ more[j] = chunks[j]
      BY <1>2, <1>3
    <3> QED BY <3>1, <1>3, <1>6 DEF KeysApart
  <2>2. SpanKey(more[i]) \in keys
    BY <2>1, <1>3 DEF Keys
  <2>3. SpanKey(more[i]) \notin OfferedBy(d, order, k - 1)
    BY <2>1 DEF CollectedBy
  <2> QED BY <2>2, <2>3 DEF FirstAt, OfferedBy, keys
<1>7. \A i \in 1..n : \E m \in 1..(k - 1) : FirstAt(d, order, SpanKey(more[i]), m)
  BY <1>2, <1>3 DEF CollectedBy
<1>8. \A i \in 1..n : ~FirstAt(d, order, SpanKey(more[i]), k)
  BY <1>5 DEF FirstAt, OfferedBy
<1>9. \A i \in DOMAIN more : \E m \in 1..k : FirstAt(d, order, SpanKey(more[i]), m)
  <2>1. k \in 1..k /\ \A m \in 1..(k - 1) : m \in 1..k
    OBVIOUS
  <2> QED BY <2>1, <1>6, <1>7
<1>10. ASSUME NEW i \in DOMAIN more, NEW j \in DOMAIN more, NEW a \in 1..k, NEW b \in 1..k,
              i < j, FirstAt(d, order, SpanKey(more[i]), a), FirstAt(d, order, SpanKey(more[j]), b)
       PROVE  a <= b
  <2>1. CASE j \in 1..n
    <3>1. i \in 1..n
      BY <2>1, <1>2, <1>10
    <3>2. a # k /\ b # k
      BY <2>1, <3>1, <1>8, <1>10
    <3>3. a \in 1..(k - 1) /\ b \in 1..(k - 1)
      BY <3>2
    <3>4. more[i] = chunks[i] /\ more[j] = chunks[j] /\ i \in DOMAIN chunks /\ j \in DOMAIN chunks
      BY <2>1, <3>1, <1>2, <1>3
    <3> QED BY <3>3, <3>4, <1>10 DEF CollectedBy
  <2>2. CASE j \notin 1..n
    <3>1. FirstAt(d, order, SpanKey(more[j]), k)
      BY <2>2, <1>6
    <3>2. ~(b < k)
      <4>1. b < k => b \in 1..(k - 1)
        OBVIOUS
      <4> QED BY <4>1, <3>1, <1>10 DEF FirstAt
    <3> QED BY <3>2
  <2> QED BY <2>1, <2>2
<1>11. CollectedBy(d, order, k, more)
  <2>1. Keys(more) = OfferedBy(d, order, k)
    BY <1>3, <1>4 DEF CollectedBy
  <2> QED BY <2>1, <1>3, <1>9, <1>10 DEF CollectedBy
<1> QED BY <1>1, <1>11 DEF more

\* What the nodes of an order offer are lists.
OffersLists(d, order) == \A i \in DOMAIN order : IsList(Offered(d, order[i]))

(* The texts collected along an order are what its nodes offer, each span *)
(* once, where it is first used. *)
LEMMA CollectsRight ==
  ASSUME NEW d, NEW order, IsList(order), OffersLists(d, order)
  PROVE  /\ IsList(collectChunks(d, order))
         /\ CollectedBy(d, order, Len(order), collectChunks(d, order))
<1> DEFINE n == Len(order)
           U == UNION {Range(Offered(d, order[i])) : i \in DOMAIN order}
           A == Seq(U)
           next(c, i) == CollectFrom(d, c, order[i])
           it == CHOOSE it : it = [s \in SUBSET (DOMAIN order) |->
                                     IF s = {} THEN <<>> ELSE next(it[s \ {Max(s)}], Max(s))]
<1>1. DOMAIN order = 1..n /\ n \in Nat
  BY ListIs
<1>2. \A i \in 1..n : Offered(d, order[i]) \in Seq(U)
  <2> TAKE i \in 1..n
  <2>1. Offered(d, order[i]) \in Seq(Range(Offered(d, order[i])))
    BY <1>1, ListIs DEF OffersLists
  <2>2. Range(Offered(d, order[i])) \subseteq U
    BY <1>1
  <2> DEFINE list == Offered(d, order[i])
             R == Range(Offered(d, order[i]))
  <2>3. list \in Seq(R) /\ R \subseteq U
    BY <2>1, <2>2
  <2> HIDE DEF list, R, U
  <2>4. list \in Seq(U)
    BY <2>3
  <2> QED BY <2>4 DEF list
<1> HIDE DEF U
<1>3. <<>> \in A
  OBVIOUS
<1> HIDE DEF n
<1> DEFINE B == {c \in A : KeysApart(c)}
           walk == [x \in (1..n) \X B |-> next(x[2], x[1])]
<1>4. <<>> \in B
  BY <1>3 DEF KeysApart
<1>5. \A c \in B, i \in 1..n : next(c, i) \in B
  <2> TAKE c \in B, i \in 1..n
  <2>1. next(c, i) \in Seq(U) /\ Gathers(c, Keys(Offered(d, order[i])), next(c, i))
    BY <1>2, CollectsAll DEF CollectFrom
  <2> QED BY <2>1 DEF Gathers
<1> HIDE DEF B, next
<1>6. walk \in [(1..n) \X B -> B]
  <2>1. ASSUME NEW x \in (1..n) \X B PROVE next(x[2], x[1]) \in B
    BY <1>5
  <2> QED BY <2>1
<1> HIDE DEF walk
<1>7. PICK g \in [SUBSET (1..n) -> B] : IsFold(g, n, <<>>, walk)
  BY <1>1, <1>4, <1>6, FoldFn
<1>8. g = [s \in SUBSET (DOMAIN order) |-> IF s = {} THEN <<>> ELSE next(g[s \ {Max(s)}], Max(s))]
  <2>1. ASSUME NEW s \in SUBSET (1..n), s # {}
        PROVE  walk[<<Max(s), g[s \ {Max(s)}]>>] = next(g[s \ {Max(s)}], Max(s))
    <3>1. Max(s) \in 1..n /\ g[s \ {Max(s)}] \in B
      BY <2>1, <1>1, <1>7, TopIn
    <3> QED BY <3>1 DEF walk
  <2> QED BY <1>1, <1>7, <2>1 DEF IsFold
<1>9. collectChunks(d, order) = it[DOMAIN order]
  BY DEF collectChunks, FoldLeft, MapThenFoldSet, next
<1>10. it = [s \in SUBSET (DOMAIN order) |-> IF s = {} THEN <<>> ELSE next(it[s \ {Max(s)}], Max(s))]
  BY <1>8
<1> HIDE DEF it
<1> DEFINE acc == [k \in 0..n |-> it[1..k]]
<1>11. acc[0] = <<>> /\ acc[n] = collectChunks(d, order) /\ \A k \in 1..n : acc[k] = next(acc[k - 1], k)
  <2>1. ASSUME NEW k \in 1..n PROVE it[1..k] = next(it[1..(k - 1)], k)
    <3>1. k \in Nat /\ k > 0 /\ 1..k \in SUBSET (1..n)
      BY <1>1
    <3>2. Max(1..k) = k /\ (1..k) \ {k} = 1..(k - 1) /\ 1..k # {}
      BY <3>1, TopUpto
    <3>3. it[1..k] = next(it[(1..k) \ {Max(1..k)}], Max(1..k))
      BY <1>1, <1>10, <3>1, <3>2, Zenon
    <3> QED BY <3>2, <3>3
  <2>2. it[1..0] = <<>>
    <3>1. 1..0 = {} /\ {} \in SUBSET (1..n)
      OBVIOUS
    <3> QED BY <1>1, <1>10, <3>1
  <2> QED BY <1>1, <1>9, <2>1, <2>2
<1> HIDE DEF acc
<1> DEFINE T == {k \in 0..n : acc[k] \in Seq(U) /\ CollectedBy(d, order, k, acc[k])}
<1>12. 0 \in T
  <2>1. Keys(<<>>) = {} /\ KeysApart(<<>>)
    BY DEF Keys, KeysApart
  <2>2. OfferedBy(d, order, 0) = {}
    BY DEF OfferedBy
  <2>3. <<>> \in Seq(U) /\ DOMAIN <<>> = {}
    OBVIOUS
  <2>4. CollectedBy(d, order, 0, <<>>)
    BY <2>1, <2>2, <2>3 DEF CollectedBy
  <2>5. acc[0] \in Seq(U) /\ CollectedBy(d, order, 0, acc[0])
    BY <2>3, <2>4, <1>11, Zenon
  <2>6. 0 \in 0..n
    BY <1>1
  <2> QED BY <2>5, <2>6
<1>13. ASSUME NEW k \in 1..n, k - 1 \in T PROVE k \in T
  <2>1. acc[k - 1] \in Seq(U) /\ CollectedBy(d, order, k - 1, acc[k - 1]) /\ k \in Nat /\ k > 0
    BY <1>1, <1>13
  <2>2. acc[k] = CollectFrom(d, acc[k - 1], order[k]) /\ Offered(d, order[k]) \in Seq(U)
    BY <1>2, <1>11 DEF next
  <2>3. acc[k] \in Seq(U) /\ CollectedBy(d, order, k, acc[k])
    BY <2>1, <2>2, CollectsOn
  <2> QED BY <2>3, <1>1
<1> HIDE DEF T
<1>14. n \in T
  <2>1. \A k \in 0..n : k \in T
    BY <1>1, <1>12, <1>13, UptoN
  <2> QED BY <2>1, <1>1
<1>15. collectChunks(d, order) \in Seq(U) /\ CollectedBy(d, order, n, collectChunks(d, order))
  BY <1>11, <1>14 DEF T
<1> QED BY <1>15 DEF IsList, n

-----------------------------------------------------------------------------
\* The i-th text of a manuscript, as Stitch sets it.
TextOf(chunks, i) == [type |-> "chunk", index |-> i, item |-> chunks[i]]

\* What the first k texts are stitched to.
StitchedTo(chunks, k, spans) ==
    /\ IsList(spans) /\ Len(spans) = IF k = 0 THEN 0 ELSE 2 * k - 1
    /\ \A i \in 1..k : spans[2 * i - 1] = TextOf(chunks, i)
    /\ \A i \in 1..(k - 1) : spans[2 * i] = Glue


(* Setting the next text keeps glue between any two. *)
LEMMA StitchesOn ==
  ASSUME NEW chunks, NEW k \in Nat, k > 0, NEW B, Glue \in B, TextOf(chunks, k) \in B,
         NEW spans \in Seq(B), StitchedTo(chunks, k - 1, spans)
  PROVE  LET more == spans \o (IF k > 1 THEN <<Glue>> ELSE <<>>) \o <<TextOf(chunks, k)>>
         IN  more \in Seq(B) /\ StitchedTo(chunks, k, more)
<1> DEFINE glued == spans \o (IF k > 1 THEN <<Glue>> ELSE <<>>)
           text == TextOf(chunks, k)
           more == glued \o <<text>>
<1>1. Len(spans) = (IF k = 1 THEN 0 ELSE 2 * (k - 1) - 1) /\ Len(spans) \in Nat
  BY DEF StitchedTo
<1>2. (\A i \in 1..(k - 1) : spans[2 * i - 1] = TextOf(chunks, i)) /\ (\A i \in 1..(k - 2) : spans[2 * i] = Glue)
  BY DEF StitchedTo
<1> HIDE DEF text
<1>3. glued \in Seq(B) /\ Len(glued) = 2 * k - 2 /\ (\A i \in 1..Len(spans) : glued[i] = spans[i])
      /\ (k > 1 => glued[2 * k - 2] = Glue)
  <2>1. CASE k = 1
    <3>1. glued = spans \o <<>>
      BY <2>1
    <3>2. spans = <<>>
      BY <1>1, <2>1
    <3>3. glued = <<>>
      BY <3>1, <3>2
    <3> HIDE DEF glued
    <3> QED BY <2>1, <3>2, <3>3
  <2>2. CASE k > 1
    <3>1. glued = spans \o <<Glue>>
      BY <2>2
    <3> HIDE DEF glued
    <3>2. <<Glue>> \in Seq(B) /\ Len(<<Glue>>) = 1 /\ <<Glue>>[1] = Glue
      BY DEF Glue
    <3>3. glued \in Seq(B) /\ Len(glued) = Len(spans) + 1 /\ (\A i \in 1..Len(spans) : glued[i] = spans[i])
          /\ glued[Len(spans) + 1] = Glue
      <4>1. /\ spans \o <<Glue>> \in Seq(B) /\ Len(spans \o <<Glue>>) = Len(spans) + Len(<<Glue>>)
            /\ \A i \in 1..Len(spans) : (spans \o <<Glue>>)[i] = spans[i]
            /\ \A i \in 1..Len(<<Glue>>) : (spans \o <<Glue>>)[Len(spans) + i] = <<Glue>>[i]
        BY <3>2, JoinIs
      <4>2. 1 \in 1..Len(<<Glue>>)
        BY <3>2
      <4> QED BY <3>1, <3>2, <4>1, <4>2
    <3>4. Len(spans) + 1 = 2 * k - 2
      BY <1>1, <2>2
    <3> QED BY <3>3, <3>4
  <2> QED BY <2>1, <2>2
<1> HIDE DEF glued
<1>4. more \in Seq(B) /\ Len(more) = 2 * k - 1 /\ (\A i \in 1..(2 * k - 2) : more[i] = glued[i])
      /\ more[2 * k - 1] = text
  <2> DEFINE last == <<text>>
  <2>1. last \in Seq(B) /\ Len(last) = 1 /\ last[1] = text
    BY DEF text
  <2> HIDE DEF last
  <2>2. /\ glued \o last \in Seq(B) /\ Len(glued \o last) = Len(glued) + Len(last)
        /\ \A i \in 1..Len(glued) : (glued \o last)[i] = glued[i]
        /\ \A i \in 1..Len(last) : (glued \o last)[Len(glued) + i] = last[i]
    <3>1. glued \in Seq(B) /\ last \in Seq(B)
      BY <1>3, <2>1
    <3> QED BY <3>1, JoinIs
  <2>3. more = glued \o last
    BY DEF last
  <2> HIDE DEF more
  <2>4. 1 \in 1..Len(last) /\ Len(glued) + 1 = 2 * k - 1
    BY <1>3, <2>1
  <2> QED BY <1>3, <2>1, <2>2, <2>3, <2>4
<1> HIDE DEF more
<1>5. \A i \in 1..Len(spans) : more[i] = spans[i]
  <2>1. \A i \in 1..Len(spans) : i \in 1..(2 * k - 2)
    BY <1>1
  <2> QED BY <2>1, <1>3, <1>4
<1>6. ASSUME NEW i \in 1..k PROVE more[2 * i - 1] = TextOf(chunks, i)
  <2>1. CASE i = k
    BY <2>1, <1>4 DEF text
  <2>2. CASE i < k
    <3>1. i \in 1..(k - 1) /\ 2 * i - 1 \in 1..Len(spans)
      BY <2>2, <1>1
    <3> QED BY <3>1, <1>2, <1>5
  <2> QED BY <2>1, <2>2
<1>7. ASSUME NEW i \in 1..(k - 1) PROVE more[2 * i] = Glue
  <2>1. CASE i = k - 1
    <3>1. 2 * i = 2 * k - 2 /\ 2 * i \in 1..(2 * k - 2) /\ k > 1
      BY <2>1
    <3> QED BY <3>1, <1>3, <1>4
  <2>2. CASE i < k - 1
    <3>1. i \in 1..(k - 2) /\ 2 * i \in 1..Len(spans)
      BY <2>2, <1>1
    <3> QED BY <3>1, <1>2, <1>5
  <2> QED BY <2>1, <2>2
<1>8. IsList(more)
  BY <1>4 DEF IsList
<1>9. StitchedTo(chunks, k, more)
  BY <1>4, <1>6, <1>7, <1>8 DEF StitchedTo
<1> QED BY <1>4, <1>9 DEF more, glued, text

(* A manuscript alternates texts and glue, and begins and ends with a text. *)
LEMMA StitchIs ==
  ASSUME NEW chunks, IsList(chunks)
  PROVE  StitchedTo(chunks, Len(chunks), Stitch(chunks))
<1> DEFINE n == Len(chunks)
           B == {Glue} \union {TextOf(chunks, i) : i \in DOMAIN chunks}
           A == Seq(B)
           next(spans, i) == spans \o (IF i > 1 THEN <<Glue>> ELSE <<>>) \o <<TextOf(chunks, i)>>
           places == [i \in DOMAIN chunks |-> i]
           step == [x \in (1..n) \X A |-> next(x[2], x[1])]
           it == CHOOSE it : it = [s \in SUBSET (DOMAIN places) |->
                                     IF s = {} THEN <<>> ELSE next(it[s \ {Max(s)}], places[Max(s)])]
<1>1. DOMAIN chunks = 1..n /\ n \in Nat
  BY ListIs
<1>2. DOMAIN places = 1..n /\ \A i \in 1..n : places[i] = i
  BY <1>1
<1>3. Glue \in B /\ \A i \in 1..n : TextOf(chunks, i) \in B
  BY <1>1
<1> HIDE DEF B, n, places
<1>4. <<>> \in A
  OBVIOUS
<1>5. \A spans \in A, i \in 1..n : next(spans, i) \in A
  <2> TAKE spans \in A, i \in 1..n
  <2> DEFINE g == IF i > 1 THEN <<Glue>> ELSE <<>>
             t == TextOf(chunks, i)
  <2>1. t \in B /\ <<Glue>> \in Seq(B) /\ <<>> \in Seq(B)
    <3>1. \A x \in B : <<x>> \in Seq(B)
      OBVIOUS
    <3> QED BY <1>3, <3>1
  <2>2. g \in Seq(B)
    BY <2>1
  <2> HIDE DEF g, t
  <2>3. <<t>> \in Seq(B)
    BY <2>1
  <2>4. spans \o g \in Seq(B)
    BY <2>2, JoinIs
  <2>5. (spans \o g) \o <<t>> \in Seq(B)
    BY <2>3, <2>4, JoinIs
  <2> QED BY <2>5 DEF g, t
<1> HIDE DEF A, next
<1>6. step \in [(1..n) \X A -> A]
  <2>1. ASSUME NEW x \in (1..n) \X A PROVE next(x[2], x[1]) \in A
    BY <1>5
  <2> QED BY <2>1
<1> HIDE DEF step
<1>7. PICK g \in [SUBSET (1..n) -> A] : IsFold(g, n, <<>>, step)
  BY <1>1, <1>4, <1>6, FoldFn
<1>8. g = [s \in SUBSET (DOMAIN places) |-> IF s = {} THEN <<>> ELSE next(g[s \ {Max(s)}], places[Max(s)])]
  <2>1. ASSUME NEW s \in SUBSET (1..n), s # {}
        PROVE  step[<<Max(s), g[s \ {Max(s)}]>>] = next(g[s \ {Max(s)}], places[Max(s)])
    <3>1. Max(s) \in 1..n /\ g[s \ {Max(s)}] \in A
      BY <2>1, <1>1, <1>7, TopIn
    <3> QED BY <3>1, <1>2 DEF step
  <2> QED BY <1>2, <1>7, <2>1 DEF IsFold
<1>9. Stitch(chunks) = it[DOMAIN places]
  BY DEF Stitch, FoldLeft, MapThenFoldSet, next, places, TextOf
<1>10. it = [s \in SUBSET (DOMAIN places) |-> IF s = {} THEN <<>> ELSE next(it[s \ {Max(s)}], places[Max(s)])]
  BY <1>8
<1> HIDE DEF it
<1> DEFINE acc == [k \in 0..n |-> it[1..k]]
<1>11. acc[0] = <<>> /\ acc[n] = Stitch(chunks) /\ \A k \in 1..n : acc[k] = next(acc[k - 1], k)
  <2>1. ASSUME NEW k \in 1..n PROVE it[1..k] = next(it[1..(k - 1)], k)
    <3>1. k \in Nat /\ k > 0 /\ 1..k \in SUBSET (1..n)
      BY <1>1
    <3>2. Max(1..k) = k /\ (1..k) \ {k} = 1..(k - 1) /\ 1..k # {}
      BY <3>1, TopUpto
    <3>3. it[1..k] = next(it[(1..k) \ {Max(1..k)}], places[Max(1..k)])
      BY <1>2, <1>10, <3>1, <3>2, Zenon
    <3> QED BY <1>2, <3>2, <3>3
  <2>2. it[1..0] = <<>>
    <3>1. 1..0 = {} /\ {} \in SUBSET (1..n)
      OBVIOUS
    <3> QED BY <1>2, <1>10, <3>1
  <2> QED BY <1>1, <1>2, <1>9, <2>1, <2>2
<1> HIDE DEF acc
<1> DEFINE T == {k \in 0..n : acc[k] \in Seq(B) /\ StitchedTo(chunks, k, acc[k])}
<1>12. 0 \in T
  <2>1. <<>> \in Seq(B) /\ Len(<<>>) = 0
    OBVIOUS
  <2>2. StitchedTo(chunks, 0, <<>>)
    BY <2>1 DEF StitchedTo, IsList
  <2>3. acc[0] \in Seq(B) /\ StitchedTo(chunks, 0, acc[0])
    BY <2>1, <2>2, <1>11, Zenon
  <2>4. 0 \in 0..n
    BY <1>1
  <2> QED BY <2>3, <2>4
<1>13. ASSUME NEW k \in 1..n, k - 1 \in T PROVE k \in T
  <2>1. acc[k - 1] \in Seq(B) /\ StitchedTo(chunks, k - 1, acc[k - 1]) /\ k \in Nat /\ k > 0
    BY <1>1, <1>13
  <2>2. next(acc[k - 1], k) \in Seq(B) /\ StitchedTo(chunks, k, next(acc[k - 1], k))
    BY <2>1, <1>3, StitchesOn DEF next
  <2> QED BY <2>2, <1>1, <1>11
<1> HIDE DEF T
<1>14. n \in T
  <2>1. \A k \in 0..n : k \in T
    BY <1>1, <1>12, <1>13, UptoN
  <2> QED BY <2>1, <1>1
<1> QED BY <1>11, <1>14 DEF T, n

-----------------------------------------------------------------------------
\* A document whose thread and excerpts are lists, the thread of its nodes.
Readable(d) ==
    /\ Doc(d) /\ IsList(d.thread) /\ \A i \in DOMAIN d.thread : d.thread[i] \in NodeIDs(d)
    /\ \A n \in NodeIDs(d) : IsList(d.evidence[n])

(* What Linearize reads of such a document is a list of its nodes; without a *)
(* thread, of all of them. *)
LEMMA LinearizeIs ==
  ASSUME NEW d, Readable(d), NEW mode, Linearize(d, mode) # Failed
  PROVE  LET order == Linearize(d, mode)
         IN  /\ IsList(order) /\ Range(order) \subseteq NodeIDs(d) /\ OffersLists(d, order)
             /\ mode # "thread" => Range(order) = NodeIDs(d)
<1> DEFINE order == Linearize(d, mode)
<1>1. IsList(order) /\ Range(order) \subseteq NodeIDs(d) /\ (mode # "thread" => Range(order) = NodeIDs(d))
  <2>1. CASE mode = "thread"
    <3>1. order = d.thread
      BY <2>1 DEF Linearize
    <3> HIDE DEF order
    <3> QED BY <2>1, <3>1 DEF Readable, Range
  <2>2. CASE mode # "thread"
    <3>1. order = TopologicalSort(d)
      BY <2>2 DEF Linearize
    <3> HIDE DEF order
    <3>2. Acyclic(d)
      BY <3>1, NotFailed DEF Readable, order
    <3>3. order \in Seq(NodeIDs(d)) /\ Range(order) = NodeIDs(d)
      BY <3>1, <3>2, SortLists DEF Readable
    <3> QED BY <3>3 DEF IsList
  <2> QED BY <2>1, <2>2
<1> HIDE DEF order
<1>2. OffersLists(d, order)
  <2> SUFFICES ASSUME NEW i \in DOMAIN order PROVE IsList(Offered(d, order[i]))
    BY DEF OffersLists
  <2>1. order[i] \in NodeIDs(d)
    BY <1>1 DEF Range
  <2> DEFINE n == order[i]
             b == BodyOf(n)
  <2>2. IsList(d.evidence[n])
    BY <2>1 DEF Readable
  <2> HIDE DEF n, b
  <2>3. IsList(<<b>>) /\ IsList(<<>>)
    <3>1. <<b>> \in Seq({b}) /\ <<>> \in Seq({b})
      OBVIOUS
    <3> QED BY <3>1 DEF IsList
  <2>4. IsList(Offered(d, n))
    BY <2>2, <2>3 DEF Offered, b
  <2> QED BY <2>4 DEF n
<1> QED BY <1>1, <1>2 DEF order

(* The texts of a manuscript are at its odd places. *)
LEMMA TextsInOrder ==
  ASSUME NEW chunks, IsList(chunks), NEW spans, StitchedTo(chunks, Len(chunks), spans)
  PROVE  /\ \A i \in DOMAIN spans : spans[i].type = "chunk" <=> i % 2 # 0
         /\ \A i \in DOMAIN spans : spans[i] = Glue <=> i % 2 = 0
         /\ \A i \in DOMAIN spans : spans[i].type = "chunk" =>
              \E a \in DOMAIN chunks : i = 2 * a - 1 /\ spans[i].item = chunks[a]
         /\ \A a \in DOMAIN chunks : /\ 2 * a - 1 \in DOMAIN spans /\ spans[2 * a - 1].type = "chunk"
                                     /\ spans[2 * a - 1].item = chunks[a]
         /\ spans # <<>> => Last(spans) # Glue
<1> DEFINE n == Len(chunks)
<1>1. n \in Nat /\ DOMAIN chunks = 1..n
  BY ListIs
<1>2. /\ Len(spans) \in Nat /\ DOMAIN spans = 1..Len(spans) /\ (n = 0 => Len(spans) = 0)
      /\ (n # 0 => Len(spans) = 2 * n - 1)
      /\ (\A a \in 1..n : spans[2 * a - 1] = TextOf(chunks, a)) /\ \A a \in 1..(n - 1) : spans[2 * a] = Glue
  BY <1>1, ListIs DEF StitchedTo
<1> HIDE DEF n
<1>3. Glue.type = "glue" /\ \A a : TextOf(chunks, a).type = "chunk" /\ TextOf(chunks, a).item = chunks[a]
  BY DEF Glue, TextOf
<1>4. \A a : TextOf(chunks, a) # Glue
  BY <1>3
<1>5. ASSUME NEW i \in DOMAIN spans
      PROVE  \/ i % 2 # 0 /\ \E a \in 1..n : i = 2 * a - 1
             \/ i % 2 = 0 /\ \E a \in 1..(n - 1) : i = 2 * a
  <2>1. i \in Nat /\ i > 0 /\ n # 0 /\ i <= 2 * n - 1
    BY <1>1, <1>2
  <2>2. i % 2 \in {0, 1} /\ i = 2 * (i \div 2) + (i % 2) /\ i \div 2 \in Nat
    BY <2>1
  <2> DEFINE h == i \div 2
             r == i % 2
  <2>3. h \in Nat /\ r \in {0, 1} /\ i = 2 * h + r
    BY <2>2
  <2> HIDE DEF h, r
  <2>4. CASE r = 0
    <3>1. h \in 1..(n - 1) /\ i = 2 * h
      BY <2>1, <2>3, <2>4, <1>1
    <3> QED BY <3>1, <2>4 DEF r
  <2>5. CASE r = 1
    <3>1. h + 1 \in 1..n /\ i = 2 * (h + 1) - 1
      BY <2>1, <2>3, <2>5, <1>1
    <3>2. i % 2 # 0
      BY <2>5 DEF r
    <3> QED BY <3>1, <3>2
  <2> QED BY <2>3, <2>4, <2>5
<1>6. \A a \in 1..n : 2 * a - 1 \in DOMAIN spans
  BY <1>1, <1>2
<1>7. spans # <<>> => Last(spans) # Glue
  <2> SUFFICES ASSUME spans # <<>> PROVE Last(spans) # Glue
    OBVIOUS
  <2>1. Len(spans) # 0
    <3>1. \A S : \A s \in Seq(S) : Len(s) = 0 => s = <<>>
      OBVIOUS
    <3>2. PICK S : spans \in Seq(S)
      BY DEF StitchedTo, IsList
    <3> QED BY <3>1, <3>2
  <2>2. n \in 1..n /\ Len(spans) = 2 * n - 1
    BY <2>1, <1>1, <1>2
  <2>3. Last(spans) = TextOf(chunks, n)
    BY <2>2, <1>2 DEF Last
  <2> QED BY <2>3, <1>4
<1>8. \A i \in DOMAIN spans : \/ i % 2 # 0 /\ (\E a \in 1..n : i = 2 * a - 1 /\ spans[i] = TextOf(chunks, a))
                              \/ i % 2 = 0 /\ spans[i] = Glue
  <2> TAKE i \in DOMAIN spans
  <2> DEFINE odd == i % 2 # 0
  <2>1. \/ odd /\ \E a \in 1..n : i = 2 * a - 1
        \/ ~odd /\ \E a \in 1..(n - 1) : i = 2 * a
    BY <1>5
  <2> HIDE DEF odd
  <2>2. \/ odd /\ (\E a \in 1..n : i = 2 * a - 1 /\ spans[i] = TextOf(chunks, a))
        \/ ~odd /\ spans[i] = Glue
    BY <2>1, <1>2
  <2> QED BY <2>2 DEF odd
<1>9. \A i \in DOMAIN spans : (spans[i].type = "chunk" <=> i % 2 # 0) /\ (spans[i] = Glue <=> i % 2 = 0)
  <2> TAKE i \in DOMAIN spans
  <2> DEFINE r == i % 2
  <2>1. \/ r # 0 /\ (\E a \in 1..n : spans[i] = TextOf(chunks, a))
        \/ r = 0 /\ spans[i] = Glue
    BY <1>8
  <2> HIDE DEF r
  <2>2. (spans[i].type = "chunk" <=> r # 0) /\ (spans[i] = Glue <=> r = 0)
    BY <2>1, <1>3, <1>4
  <2> QED BY <2>2 DEF r
<1>10. \A i \in DOMAIN spans : spans[i].type = "chunk" =>
         \E a \in DOMAIN chunks : i = 2 * a - 1 /\ spans[i].item = chunks[a]
  <2> TAKE i \in DOMAIN spans
  <2> HAVE spans[i].type = "chunk"
  <2>1. PICK a \in 1..n : i = 2 * a - 1 /\ spans[i] = TextOf(chunks, a)
    BY <1>8, <1>9
  <2> QED BY <2>1, <1>1, <1>3
<1>11. \A a \in DOMAIN chunks : /\ 2 * a - 1 \in DOMAIN spans /\ spans[2 * a - 1].type = "chunk"
                                /\ spans[2 * a - 1].item = chunks[a]
  BY <1>1, <1>2, <1>3, <1>6
<1> QED BY <1>7, <1>9, <1>10, <1>11

-----------------------------------------------------------------------------
(* ManuscriptSound for every readable document, with a thread or without. *)
THEOREM ManuscriptRight ==
  ASSUME NEW d, Readable(d), NEW mode
  PROVE  ManuscriptSound(d, mode)
<1> DEFINE order == Linearize(d, mode)
           spans == LinearizeAndStitch(d, mode)
           texts == {i \in DOMAIN spans : spans[i].type = "chunk"}
           Key(i) == SpanKey(spans[i].item)
           FirstUse(k) == CHOOSE n \in DOMAIN order :
                            /\ \E it \in Range(Offered(d, order[n])) : SpanKey(it) = k
                            /\ \A m \in 1..(n - 1) :
                                 \A it \in Range(Offered(d, order[m])) : SpanKey(it) # k
           chunks == collectChunks(d, order)
           n == Len(order)
<1> SUFFICES ASSUME order # Failed
             PROVE  /\ {Key(i) : i \in texts}
                         = UNION {{SpanKey(it) : it \in Range(Offered(d, x))} : x \in Range(order)}
                    /\ \A i, j \in texts : i < j =>
                         Key(i) # Key(j) /\ FirstUse(Key(i)) <= FirstUse(Key(j))
                    /\ \A i \in DOMAIN spans : (spans[i] = Glue) <=> (i % 2 = 0)
                    /\ spans # <<>> => Last(spans) # Glue
                    /\ mode = "manuscript" => Broken(d, order) = {}
  BY Zenon DEF ManuscriptSound
<1>1. /\ IsList(order) /\ Range(order) \subseteq NodeIDs(d) /\ OffersLists(d, order)
      /\ mode # "thread" => Range(order) = NodeIDs(d)
  BY LinearizeIs
<1>2. spans = Stitch(chunks)
  BY DEF LinearizeAndStitch
<1> HIDE DEF order, spans, chunks
<1>3. IsList(chunks) /\ CollectedBy(d, order, n, chunks)
  BY <1>1, CollectsRight DEF chunks
<1>4. StitchedTo(chunks, Len(chunks), spans)
  BY <1>2, <1>3, StitchIs
<1>5. /\ \A i \in DOMAIN spans : spans[i].type = "chunk" <=> i % 2 # 0
      /\ \A i \in DOMAIN spans : spans[i] = Glue <=> i % 2 = 0
      /\ \A i \in DOMAIN spans : spans[i].type = "chunk" =>
           \E a \in DOMAIN chunks : i = 2 * a - 1 /\ spans[i].item = chunks[a]
      /\ \A a \in DOMAIN chunks : /\ 2 * a - 1 \in DOMAIN spans /\ spans[2 * a - 1].type = "chunk"
                                  /\ spans[2 * a - 1].item = chunks[a]
      /\ spans # <<>> => Last(spans) # Glue
  BY <1>3, <1>4, TextsInOrder
<1>6. n \in Nat /\ DOMAIN order = 1..n /\ DOMAIN chunks = 1..Len(chunks) /\ Len(chunks) \in Nat
  BY <1>1, <1>3, ListIs
<1> HIDE DEF n
<1>7. \A s : Keys(s) = {SpanKey(it) : it \in Range(s)}
  BY DEF Keys, Range
<1>8. {Key(i) : i \in texts} = Keys(chunks)
  <2>1. \A i \in texts : Key(i) \in Keys(chunks)
    BY <1>5 DEF Keys
  <2>2. \A a \in DOMAIN chunks : 2 * a - 1 \in texts /\ Key(2 * a - 1) = SpanKey(chunks[a])
    BY <1>5
  <2> HIDE DEF texts, Key
  <2>3. \A k \in Keys(chunks) : \E i \in texts : k = Key(i)
    BY <2>2 DEF Keys
  <2> QED BY <2>1, <2>3
<1>9. Keys(chunks) = UNION {{SpanKey(it) : it \in Range(Offered(d, x))} : x \in Range(order)}
  <2>1. Keys(chunks) = UNION {Keys(Offered(d, order[m])) : m \in 1..n}
    BY <1>3 DEF CollectedBy, OfferedBy
  <2>2. UNION {Keys(Offered(d, order[m])) : m \in 1..n} = UNION {Keys(Offered(d, x)) : x \in Range(order)}
    BY <1>6 DEF Range
  <2> QED BY <2>1, <2>2, <1>7
<1>10. ASSUME NEW a \in DOMAIN chunks PROVE FirstUse(SpanKey(chunks[a])) \in 1..n
                                           /\ FirstAt(d, order, SpanKey(chunks[a]), FirstUse(SpanKey(chunks[a])))
  <2> DEFINE k == SpanKey(chunks[a])
  <2>1. PICK m \in 1..n : FirstAt(d, order, k, m)
    BY <1>3 DEF CollectedBy
  <2> HIDE DEF k
  <2>2. \A x : FirstAt(d, order, k, x) <=>
                 /\ \E it \in Range(Offered(d, order[x])) : SpanKey(it) = k
                 /\ \A y \in 1..(x - 1) : \A it \in Range(Offered(d, order[y])) : SpanKey(it) # k
    BY <1>7 DEF FirstAt
  <2>3. FirstUse(k) \in 1..n /\ FirstAt(d, order, k, FirstUse(k))
    BY <1>6, <2>1, <2>2
  <2> QED BY <2>3 DEF k
<1> HIDE DEF FirstUse
<1>11. ASSUME NEW i \in texts, NEW j \in texts, i < j
       PROVE  Key(i) # Key(j) /\ FirstUse(Key(i)) <= FirstUse(Key(j))
  <2>1. PICK a \in DOMAIN chunks : i = 2 * a - 1 /\ spans[i].item = chunks[a]
    BY <1>5
  <2>2. PICK b \in DOMAIN chunks : j = 2 * b - 1 /\ spans[j].item = chunks[b]
    BY <1>5
  <2>3. a < b
    BY <1>6, <1>11, <2>1, <2>2
  <2>4. Key(i) = SpanKey(chunks[a]) /\ Key(j) = SpanKey(chunks[b])
    BY <2>1, <2>2
  <2> HIDE DEF Key
  <2>5. SpanKey(chunks[a]) # SpanKey(chunks[b])
    BY <1>3, <1>6, <2>3 DEF CollectedBy, KeysApart
  <2>6. FirstUse(SpanKey(chunks[a])) <= FirstUse(SpanKey(chunks[b]))
    BY <1>3, <1>10, <2>3 DEF CollectedBy
  <2> QED BY <2>4, <2>5, <2>6
<1>12. mode = "manuscript" => Broken(d, order) = {}
  <2> SUFFICES ASSUME mode = "manuscript", NEW i \in DOMAIN d.edges PROVE d.edges[i].to \in Range(order)
    BY DEF Broken, Links, Anchors
  <2>1. Range(order) = NodeIDs(d)
    BY <1>1
  <2> QED BY <2>1 DEF Readable, Doc
<1> HIDE DEF Key, texts
<1> QED BY <1>5, <1>8, <1>9, <1>11, <1>12

-----------------------------------------------------------------------------
\* What the instance asks about documents.
ReadAsked ==
    /\ Asked("order") => Readable(input) /\ {"nodes", "edges"} \subseteq DOMAIN input
    /\ Asked("walk") => Doc(input)
    /\ Asked("stitch") => Readable(input)

(* A list whose length is known, as a function on its places. *)
LEMMA ListFrom ==
  ASSUME NEW n \in Nat, NEW E, NEW f \in [1..n -> E]
  PROVE  IsList(f) /\ DOMAIN f = 1..n
<1>1. f \in Seq(E)
  BY ListOf
<1> QED BY <1>1 DEF IsList

(* What the instance asks to be put in order, walked and stitched are *)
(* documents. *)
LEMMA OrderAsked ==
  ASSUME AskOrder
  PROVE  Readable(input)' /\ {"nodes", "edges"} \subseteq DOMAIN input'
<1>1. PICK P \in SUBSET {i \in 1..16 : PairsInOrder[i][1] # PairsInOrder[i][2]} :
        input' = Document(<<1, 2, 3, 4>>,
                          [i \in DOMAIN Picked(PairsInOrder, P) |->
                             Plain(Picked(PairsInOrder, P)[i][1], Picked(PairsInOrder, P)[i][2])])
  BY DEF AskOrder
<1> DEFINE pairs == Picked(PairsInOrder, P)
           m == Cardinality(P)
           V == {1, 2, 3, 4}
           W == V \X V
           E == [from : V, to : V, type : {"linear"}, cond : {<<"">>}]
           edges == [i \in DOMAIN pairs |-> Plain(pairs[i][1], pairs[i][2])]
           nodes == <<1, 2, 3, 4>>
<1>2. PairsInOrder \in [1..16 -> W]
  <2>1. ASSUME NEW i \in 1..16 PROVE <<1 + ((i - 1) % 4), 1 + ((i - 1) \div 4)>> \in W
    <3>1. 1 + ((i - 1) % 4) \in V
      OBVIOUS
    <3>2. 1 + ((i - 1) \div 4) \in V
      OBVIOUS
    <3> QED BY <3>1, <3>2
  <2> HIDE DEF W
  <2> QED BY <2>1 DEF PairsInOrder
<1>3. m \in Nat /\ pairs \in [1..m -> W]
  <2>1. PairsInOrder \in Seq(W) /\ Len(PairsInOrder) = 16
    <3>1. 16 \in Nat
      OBVIOUS
    <3>2. PairsInOrder \in Seq(W)
      BY <1>2, <3>1, ListOf, Zenon
    <3>3. DOMAIN PairsInOrder = 1..16
      BY <1>2
    <3> HIDE DEF W
    <3> QED BY <3>2, <3>3
  <2>2. P \in SUBSET (1..16)
    OBVIOUS
  <2>3. IsList(PairsInOrder) /\ P \in SUBSET (1..Len(PairsInOrder))
    BY <2>1, <2>2 DEF IsList
  <2>4. m \in Nat /\ \A k \in 1..m : Nth(P, k) \in P
    BY <2>3, PickedRight
  <2>5. pairs = [k \in 1..m |-> PairsInOrder[Nth(P, k)]]
    BY DEF Picked
  <2> HIDE DEF m, pairs, W
  <2> QED BY <1>2, <2>2, <2>4, <2>5
<1> HIDE DEF m, pairs
<1>4. DOMAIN pairs = 1..m /\ \A i \in 1..m : pairs[i][1] \in V /\ pairs[i][2] \in V
  BY <1>3
<1>5. edges \in [1..m -> E]
  <2>1. ASSUME NEW i \in 1..m PROVE Plain(pairs[i][1], pairs[i][2]) \in E
    BY <1>4 DEF Plain
  <2> HIDE DEF E
  <2> QED BY <1>4, <2>1
<1>6. \A i \in 1..m : edges[i].from \in V /\ edges[i].to \in V
  BY <1>5
<1>7. IsList(edges) /\ DOMAIN edges = 1..m
  <2> HIDE DEF edges, E
  <2> QED BY <1>3, <1>5, ListFrom
<1>8. IsList(nodes) /\ Range(nodes) = V /\ IsInjective(nodes)
  <2>1. nodes \in Seq(V)
    OBVIOUS
  <2>2. DOMAIN nodes = {1, 2, 3, 4} /\ nodes[1] = 1 /\ nodes[2] = 2 /\ nodes[3] = 3 /\ nodes[4] = 4
    OBVIOUS
  <2> HIDE DEF nodes
  <2> QED BY <2>1, <2>2 DEF IsList, Range, IsInjective
<1>9. input' = [nodes |-> nodes, edges |-> edges, thread |-> <<>>,
                evidence |-> [n \in Range(nodes) |-> <<>>], body |-> [n \in Range(nodes) |-> TRUE]]
  BY <1>1 DEF Document, pairs
<1> HIDE DEF edges, nodes
<1>10. /\ input'.nodes = nodes /\ input'.edges = edges /\ input'.thread = <<>>
       /\ \A n \in Range(nodes) : input'.evidence[n] = <<>>
       /\ {"nodes", "edges"} \subseteq DOMAIN input'
  BY <1>9
<1>11. IsList(<<>>)
  <2>1. <<>> \in Seq({})
    OBVIOUS
  <2> QED BY <2>1 DEF IsList
<1>12. Readable(input')
  <2>1. NodeIDs(input') = V /\ 0 \notin V
    BY <1>8, <1>10 DEF NodeIDs
  <2>2. Doc(input')
    BY <1>6, <1>7, <1>8, <1>10, <2>1 DEF Doc
  <2> QED BY <1>8, <1>10, <1>11, <2>1, <2>2 DEF Readable
<1> QED BY <1>10, <1>12

-----------------------------------------------------------------------------
(* So are the documents walked. *)
LEMMA WalkAsked ==
  ASSUME AskWalk
  PROVE  Doc(input)'
<1>k. PICK k \in 0..MaxEdges : \E edges \in [1..k -> WalkEdges] : input' = Document(<<1, 2, 3>>, edges)
  BY DEF AskWalk
<1>1. PICK edges \in [1..k -> WalkEdges] : input' = Document(<<1, 2, 3>>, edges)
  BY <1>k
<1> DEFINE V == {1, 2, 3}
           nodes == <<1, 2, 3>>
<1>2. \A e \in WalkEdges : e.from \in V /\ e.to \in V
  <2> SUFFICES ASSUME NEW e \in WalkEdges PROVE e.from \in 1..3 /\ e.to \in 1..3
    OBVIOUS
  <2> QED BY DEF WalkEdges
<1>3. k \in Nat
  OBVIOUS
<1>4. IsList(edges) /\ \A i \in DOMAIN edges : edges[i].from \in V /\ edges[i].to \in V
  BY <1>2, <1>3, ListFrom
<1>5. IsList(nodes) /\ Range(nodes) = V /\ IsInjective(nodes)
  <2>1. nodes \in Seq(V)
    OBVIOUS
  <2>2. DOMAIN nodes = {1, 2, 3} /\ nodes[1] = 1 /\ nodes[2] = 2 /\ nodes[3] = 3
    OBVIOUS
  <2> HIDE DEF nodes
  <2> QED BY <2>1, <2>2 DEF IsList, Range, IsInjective
<1>6. input'.nodes = nodes /\ input'.edges = edges
  BY <1>1 DEF Document
<1> HIDE DEF nodes
<1>7. NodeIDs(input') = V /\ 0 \notin V
  BY <1>5, <1>6 DEF NodeIDs
<1> QED BY <1>4, <1>5, <1>6, <1>7 DEF Doc

(* And the documents stitched, with any thread and any excerpts. *)
LEMMA StitchAsked ==
  ASSUME AskStitch
  PROVE  Readable(input)'
<1> DEFINE V == {1, 2, 3}
           nodes == <<1, 2, 3>>
           a == Plain(1, 2)
           b == Exit(2, 1, "jump")
           c == Plain(3, 1)
           e == Exit(3, 2, "branch")
<1>1. PICK edges \in {<<>>, <<a, b>>, <<c, e>>}, evidence \in [1..3 -> Quotes],
           thread \in {<<>>, <<2, 1>>, <<3, 1, 2>>, <<1>>} :
        /\ input'.nodes = nodes /\ input'.edges = edges /\ input'.evidence = evidence
        /\ input'.thread = thread
  BY DEF AskStitch
<1>2. \A x \in {a, b, c, e} : x.from \in V /\ x.to \in V
  <2>1. a.from = 1 /\ a.to = 2 /\ c.from = 3 /\ c.to = 1
    BY DEF Plain
  <2>2. b.from = 2 /\ b.to = 1
    BY DEF Plain, Exit
  <2>3. e.from = 3 /\ e.to = 2
    BY DEF Plain, Exit
  <2> HIDE DEF a, b, c, e
  <2> QED BY <2>1, <2>2, <2>3
<1> HIDE DEF a, b, c, e
<1>3. IsList(edges) /\ \A i \in DOMAIN edges : edges[i].from \in V /\ edges[i].to \in V
  <2> DEFINE E == {a, b, c, e}
  <2>1. edges \in Seq(E)
    <3>1. a \in E /\ b \in E /\ c \in E /\ e \in E
      OBVIOUS
    <3> HIDE DEF E
    <3>2. <<>> \in Seq(E) /\ <<a, b>> \in Seq(E) /\ <<c, e>> \in Seq(E)
      BY <3>1
    <3> QED BY <3>2
  <2>2. \A i \in DOMAIN edges : edges[i] \in E
    BY <2>1
  <2> HIDE DEF E
  <2> QED BY <1>2, <2>1, <2>2 DEF IsList, E
<1>4. IsList(nodes) /\ Range(nodes) = V /\ IsInjective(nodes)
  <2>1. nodes \in Seq(V)
    OBVIOUS
  <2>2. DOMAIN nodes = {1, 2, 3} /\ nodes[1] = 1 /\ nodes[2] = 2 /\ nodes[3] = 3
    OBVIOUS
  <2> HIDE DEF nodes
  <2> QED BY <2>1, <2>2 DEF IsList, Range, IsInjective
<1> HIDE DEF nodes
<1>5. IsList(thread) /\ \A i \in DOMAIN thread : thread[i] \in V
  <2>1. thread \in Seq(V)
    <3>1. <<>> \in Seq(V) /\ <<2, 1>> \in Seq(V) /\ <<3, 1, 2>> \in Seq(V) /\ <<1>> \in Seq(V)
      OBVIOUS
    <3> HIDE DEF V
    <3> QED BY <3>1
  <2> QED BY <2>1 DEF IsList
<1>6. \A n \in V : IsList(evidence[n])
  <2>1. \A q \in Quotes : IsList(q)
    <3> DEFINE x == Cited(0, "w")
               y == Cited(2, "w")
               z == Cited(0, "rewritten")
               E == {x, y, z}
    <3>1. Quotes = {<<>>, <<x>>, <<y>>, <<x, y>>, <<z>>}
      BY DEF Quotes
    <3> HIDE DEF x, y, z
    <3>2. x \in E /\ y \in E /\ z \in E
      OBVIOUS
    <3> HIDE DEF E
    <3>3. /\ <<>> \in Seq(E) /\ <<x>> \in Seq(E) /\ <<y>> \in Seq(E) /\ <<x, y>> \in Seq(E)
          /\ <<z>> \in Seq(E)
      BY <3>2
    <3>4. \A q \in {<<>>, <<x>>, <<y>>, <<x, y>>, <<z>>} : q \in Seq(E)
      BY <3>3
    <3> QED BY <3>1, <3>4 DEF IsList
  <2>2. \A n \in V : evidence[n] \in Quotes
    OBVIOUS
  <2> QED BY <2>1, <2>2
<1>7. NodeIDs(input') = V /\ 0 \notin V
  BY <1>1, <1>4 DEF NodeIDs
<1>8. Doc(input')
  BY <1>1, <1>3, <1>4, <1>7 DEF Doc
<1> QED BY <1>1, <1>5, <1>6, <1>7, <1>8 DEF Readable

(* SortRight, CycleCheckRight, PaneRight, WalkRight and ManuscriptRight for *)
(* what the instance asks. *)
THEOREM ReadingStaysSound == AlgorithmsSpec => []ReadingSound
<1>1. MCInit => ReadAsked
  BY DEF MCInit, ReadAsked, Asked
<1>2. ReadAsked /\ [MCNext]_mcVars => ReadAsked'
  <2> SUFFICES ASSUME ReadAsked, [MCNext]_mcVars, area \in {"order", "walk", "stitch"} PROVE ReadAsked'
    BY StaysInArea DEF ReadAsked, Asked
  <2>1. area' = area /\ (input' = input \/ (area = "order" /\ AskOrder) \/ (area = "walk" /\ AskWalk)
                         \/ (area = "stitch" /\ AskStitch))
    BY StaysInArea
  <2>2. CASE input' = input
    BY <2>1, <2>2 DEF ReadAsked, Asked
  <2>3. CASE area = "order" /\ AskOrder
    BY <2>1, <2>3, OrderAsked DEF ReadAsked, Asked
  <2>4. CASE area = "walk" /\ AskWalk
    BY <2>1, <2>4, WalkAsked DEF ReadAsked, Asked
  <2>5. CASE area = "stitch" /\ AskStitch
    BY <2>1, <2>5, StitchAsked DEF ReadAsked, Asked
  <2> QED BY <2>1, <2>2, <2>3, <2>4, <2>5
<1>3. ReadAsked => ReadingSound
  <2>1. ASSUME ReadAsked, Asked("order")
        PROVE  SortSound(input) /\ CycleCheckSound(input) /\ PaneSound(input)
    BY <2>1, SortRight, CycleCheckRight, PaneRight DEF ReadAsked, Readable
  <2>2. ASSUME ReadAsked, Asked("walk")
        PROVE  WalkSound(input, Novice, <<1>>) /\ WalkSound(input, Novice, <<2, 1, 3>>)
    <3>1. IsList(<<1>>) /\ IsList(<<2, 1, 3>>)
      <4>1. <<1>> \in Seq(Nat) /\ <<2, 1, 3>> \in Seq(Nat)
        OBVIOUS
      <4> QED BY <4>1 DEF IsList
    <3>2. Doc(input)
      BY <2>2 DEF ReadAsked
    <3> QED BY <3>1, <3>2, WalkRight
  <2>3. ASSUME ReadAsked, Asked("stitch")
        PROVE  ManuscriptSound(input, IF input.thread = <<>> THEN "manuscript" ELSE "thread")
    <3>1. \A mode : ManuscriptSound(input, mode)
      BY <2>3, ManuscriptRight DEF ReadAsked
    <3> QED BY <3>1
  <2> QED BY <2>1, <2>2, <2>3 DEF ReadingSound
<1> QED BY <1>1, <1>2, <1>3, PTL DEF AlgorithmsSpec

-----------------------------------------------------------------------------
(* The candidates beside a bullet.  Pages: PagesSound for every ranking. *)

-----------------------------------------------------------------------------
(* The candidates beside a bullet: PagesSound, IndexSound, FusionSound, *)
(* SnippetSound and StableSound, for every input. *)

(* What is picked from two parts of a list, the second after the first. *)
LEMMA PickedJoin ==
  ASSUME NEW s, IsList(s), NEW I \in SUBSET (1..Len(s)), NEW J \in SUBSET (1..Len(s)),
         \A i \in I, j \in J : i < j
  PROVE  Picked(s, I \union J) = Picked(s, I) \o Picked(s, J)
<1> DEFINE K == I \union J
           n == Cardinality(I)
           m == Cardinality(J)
           a == Picked(s, I)
           b == Picked(s, J)
           c == Picked(s, K)
           R == Range(s)
           f == [k \in 1..(n + m) |-> IF k <= n THEN Nth(I, k) ELSE Nth(J, k - n)]
<1>1. Len(s) \in Nat /\ K \in SUBSET (1..Len(s))
  BY ListIs
<1>2. /\ n \in Nat /\ a \in Seq(R) /\ Len(a) = n
      /\ \A k \in 1..n : Nth(I, k) \in I /\ a[k] = s[Nth(I, k)]
      /\ \A j, k \in 1..n : j < k <=> Nth(I, j) < Nth(I, k)
  BY PickedRight
<1>3. /\ m \in Nat /\ b \in Seq(R) /\ Len(b) = m
      /\ \A k \in 1..m : Nth(J, k) \in J /\ b[k] = s[Nth(J, k)]
      /\ \A j, k \in 1..m : j < k <=> Nth(J, j) < Nth(J, k)
  BY PickedRight
<1>4. IsFiniteSet(I) /\ IsFiniteSet(J) /\ IsFiniteSet(K)
  BY <1>1, PlacesFinite
<1>5. Cardinality(K) = n + m
  <2>1. I \cap J = {}
    <3> SUFFICES ASSUME NEW x \in I, x \in J PROVE FALSE
      OBVIOUS
    <3>1. x < x /\ x \in Int
      BY <1>1
    <3> QED BY <3>1
  <2>2. Cardinality(I \cap J) = 0
    BY <2>1, FS_EmptySet
  <2>3. Cardinality(I \union J) = Cardinality(I) + Cardinality(J) - Cardinality(I \cap J)
    BY <1>4, FS_Union
  <2> HIDE DEF n, m
  <2>4. Cardinality(K) = n + m - 0
    BY <2>2, <2>3 DEF n, m
  <2> QED BY <2>4, <1>2, <1>3
<1>6. c \in Seq(R) /\ Len(c) = n + m /\ \A k \in 1..(n + m) : c[k] = s[Nth(K, k)]
  <2> HIDE DEF K, n, m
  <2>1. /\ c \in Seq(R) /\ Len(c) = Cardinality(K)
        /\ \A k \in 1..Cardinality(K) : c[k] = s[Nth(K, k)]
    BY <1>1, PickedRight
  <2> QED BY <2>1, <1>5
<1> HIDE DEF a, b, c, n, m, K, R
<1>7. \A k \in 1..(n + m) : \/ (k <= n /\ k \in 1..n)
                            \/ (~(k <= n) /\ k - n \in 1..m /\ n + (k - n) = k)
  BY <1>2, <1>3
<1>8. f \in [1..(n + m) -> K]
  <2>1. ASSUME NEW k \in 1..(n + m) PROVE (IF k <= n THEN Nth(I, k) ELSE Nth(J, k - n)) \in K
    BY <1>2, <1>3, <1>7 DEF K
  <2> QED BY <2>1
<1>9. ASSUME NEW j \in 1..(n + m), NEW k \in 1..(n + m), j < k PROVE f[j] < f[k]
  <2>1. CASE k <= n
    <3>1. j <= n /\ j \in 1..n /\ k \in 1..n
      BY <2>1, <1>9, <1>2, <1>3
    <3> QED BY <2>1, <3>1, <1>9, <1>2
  <2>2. CASE j <= n /\ ~(k <= n)
    <3>1. j \in 1..n /\ k - n \in 1..m
      BY <2>2, <1>7
    <3>2. Nth(I, j) \in I /\ Nth(J, k - n) \in J
      BY <3>1, <1>2, <1>3
    <3> QED BY <2>2, <3>2
  <2>3. CASE ~(j <= n)
    <3>1. ~(k <= n) /\ j - n \in 1..m /\ k - n \in 1..m /\ j - n < k - n
      BY <2>3, <1>9, <1>2, <1>3
    <3>2. Nth(J, j - n) < Nth(J, k - n)
      BY <3>1, <1>3
    <3> QED BY <2>3, <3>1, <3>2
  <2> QED BY <2>1, <2>2, <2>3
<1>10. \A k \in 1..(n + m) : f[k] = Nth(K, k)
  <2>1. K \in SUBSET Int
    BY <1>1
  <2> HIDE DEF f
  <2> QED BY <1>4, <1>5, <1>8, <1>9, <2>1, SameList
<1>11. /\ a \o b \in Seq(R) /\ Len(a \o b) = n + m
       /\ \A i \in 1..n : (a \o b)[i] = a[i]
       /\ \A i \in 1..m : (a \o b)[n + i] = b[i]
  <2>1. a \in Seq(R) /\ b \in Seq(R)
    BY <1>2, <1>3
  <2>2. /\ a \o b \in Seq(R) /\ Len(a \o b) = Len(a) + Len(b)
        /\ \A i \in 1..Len(a) : (a \o b)[i] = a[i]
        /\ \A i \in 1..Len(b) : (a \o b)[Len(a) + i] = b[i]
    BY <2>1, JoinIs
  <2> QED BY <2>2, <1>2, <1>3
<1> DEFINE u == a \o b
<1>12. \A k \in 1..(n + m) : u[k] = c[k]
  <2> TAKE k \in 1..(n + m)
  <2>1. c[k] = s[f[k]]
    BY <1>6, <1>10
  <2> HIDE DEF u
  <2>2. CASE k <= n /\ k \in 1..n
    <3>1. u[k] = a[k]
      BY <2>2, <1>11 DEF u
    <3> QED BY <2>1, <2>2, <3>1, <1>2
  <2>3. CASE ~(k <= n) /\ k - n \in 1..m /\ n + (k - n) = k
    <3>1. u[n + (k - n)] = b[k - n]
      BY <2>3, <1>11 DEF u
    <3> QED BY <2>1, <2>3, <3>1, <1>3
  <2> QED BY <2>2, <2>3, <1>7
<1>13. u = c
  <2>1. u \in Seq(R) /\ Len(u) = n + m
    BY <1>11
  <2> HIDE DEF u
  <2> QED BY <1>6, <1>12, <2>1
<1> QED BY <1>13 DEF u, a, b, c, K

(* The size clamped to is one of those offered. *)
LEMMA ClampOffers ==
  ASSUME NEW options, IsList(options), options # <<>>, NEW asked
  PROVE  ClampPageSize(asked, options) \in Range(options)
<1> DEFINE n == Len(options)
           A == Range(options)
           next(best, o) == IF Distance(o, asked) < Distance(best, asked) THEN o ELSE best
           step == [x \in (1..n) \X A |-> next(x[2], options[x[1]])]
           it == CHOOSE it : it = [s \in SUBSET (DOMAIN options) |->
                                     IF s = {} THEN options[1] ELSE next(it[s \ {Max(s)}], options[Max(s)])]
<1>1. n \in Nat /\ DOMAIN options = 1..n /\ (\A i \in 1..n : options[i] \in A) /\ n # 0
  <2>1. n \in Nat /\ DOMAIN options = 1..n /\ (\A i \in 1..n : options[i] \in A) /\ options \in Seq(A)
    BY ListIs
  <2>2. n = 0 => options = <<>>
    BY <2>1
  <2> QED BY <2>1, <2>2
<1>2. options[1] \in A
  BY <1>1
<1> HIDE DEF n, A
<1>3. step \in [(1..n) \X A -> A]
  <2>1. ASSUME NEW x \in (1..n) \X A PROVE next(x[2], options[x[1]]) \in A
    BY <1>1
  <2> QED BY <2>1
<1> HIDE DEF step
<1>4. PICK g \in [SUBSET (1..n) -> A] : IsFold(g, n, options[1], step)
  BY <1>1, <1>2, <1>3, FoldFn
<1>5. g = [s \in SUBSET (DOMAIN options) |->
             IF s = {} THEN options[1] ELSE next(g[s \ {Max(s)}], options[Max(s)])]
  <2>1. ASSUME NEW s \in SUBSET (1..n), s # {}
        PROVE  step[<<Max(s), g[s \ {Max(s)}]>>] = next(g[s \ {Max(s)}], options[Max(s)])
    <3>1. Max(s) \in 1..n /\ g[s \ {Max(s)}] \in A
      BY <2>1, <1>1, <1>4, TopIn
    <3> HIDE DEF next
    <3> QED BY <3>1 DEF step
  <2> HIDE DEF next
  <2> QED BY <1>1, <1>4, <2>1 DEF IsFold
<1>6. it = [s \in SUBSET (DOMAIN options) |->
             IF s = {} THEN options[1] ELSE next(it[s \ {Max(s)}], options[Max(s)])]
  <2> HIDE DEF next
  <2> QED BY <1>5
<1>7. asked <= 0 \/ ClampPageSize(asked, options) = it[DOMAIN options]
  BY DEF ClampPageSize, FoldLeft, MapThenFoldSet
<1> HIDE DEF it, next
<1> DEFINE T == {k \in 0..n : it[1..k] \in A}
<1>8. 0 \in T
  <2>1. 1..0 = {} /\ {} \in SUBSET (1..n)
    OBVIOUS
  <2>2. it[1..0] = options[1]
    BY <1>1, <1>6, <2>1
  <2> QED BY <2>2, <1>1, <1>2
<1>9. ASSUME NEW k \in 1..n, k - 1 \in T PROVE k \in T
  <2>1. k \in Nat /\ k > 0 /\ 1..k \in SUBSET (1..n)
    BY <1>1
  <2>2. Max(1..k) = k /\ (1..k) \ {k} = 1..(k - 1) /\ 1..k # {}
    BY <2>1, TopUpto
  <2>3. it[1..k] = next(it[(1..k) \ {Max(1..k)}], options[Max(1..k)])
    BY <1>1, <1>6, <2>1, <2>2, Zenon
  <2>4. it[1..k] = next(it[1..(k - 1)], options[k])
    BY <2>2, <2>3
  <2>5. it[1..k] \in A
    BY <2>4, <1>1, <1>9 DEF next
  <2> QED BY <2>5, <1>1
<1> HIDE DEF T
<1>10. n \in T
  <2>1. \A k \in 0..n : k \in T
    BY <1>1, <1>8, <1>9, UptoN
  <2> QED BY <2>1, <1>1
<1>11. it[DOMAIN options] \in A
  BY <1>1, <1>10 DEF T
<1> QED BY <1>2, <1>7, <1>11 DEF ClampPageSize, A

(* There are as many pages as the ranking needs: the last one is not empty, *)
(* and it reaches its end. *)
LEMMA PagesReach ==
  ASSUME NEW total \in Nat, NEW size \in Nat \ {0}
  PROVE  LET T == TotalPages(total, size)
         IN  /\ T \in Nat /\ T > 0 /\ T * size >= total
             /\ \A p \in 1..T : total # 0 => (p - 1) * size < total
<1> DEFINE T == TotalPages(total, size)
<1>1. CASE total = 0
  <2>1. T = 1
    BY <1>1 DEF TotalPages
  <2> HIDE DEF T
  <2>2. T * size >= total
    BY <1>1, <2>1
  <2> QED BY <1>1, <2>1, <2>2 DEF T
<1>2. CASE total # 0
  <2> DEFINE a == total + size - 1
  <2>1. a \in Nat /\ T = a \div size
    BY <1>2 DEF TotalPages
  <2>2. T \in Nat /\ T * size <= a /\ a < (T + 1) * size
    <3> HIDE DEF a, T
    <3> QED BY <2>1
  <2> HIDE DEF T
  <2>3. (T + 1) * size = T * size + size
    BY <2>2
  <2>4. T * size >= total
    BY <2>2, <2>3
  <2>5. T > 0
    <3>1. T = 0 => T * size = 0
      OBVIOUS
    <3> QED BY <1>2, <2>2, <2>4, <3>1
  <2>6. ASSUME NEW p \in 1..T PROVE (p - 1) * size < total
    <3>1. (T - p) * size >= 0
      BY <2>2
    <3>2. (p - 1) * size = T * size - (T - p) * size - size
      BY <2>2
    <3>3. T * size \in Int /\ (T - p) * size \in Int /\ (p - 1) * size \in Int
      BY <2>2
    <3> QED BY <2>2, <3>1, <3>2, <3>3
  <2> QED BY <2>2, <2>4, <2>5, <2>6 DEF T
<1> QED BY <1>1, <1>2

(* Whatever size is asked for, the pages of one ranking hold every stored *)
(* chunk of it exactly once, in its order (web/evidence.go): PagesSound for *)
(* every ranking and every list of sizes. *)
THEOREM PagesRight ==
  ASSUME NEW ranking, IsList(ranking), NEW stored, NEW asked, NEW options, IsList(options),
         options # <<>>, Range(options) \subseteq Nat \ {0}
  PROVE  PagesSound(ranking, stored, asked, options)
<1> DEFINE size == ClampPageSize(asked, options)
           n == Len(ranking)
           T == TotalPages(n, size)
           page(p) == FindPage(ranking, stored, p, size)
           pages == [p \in 1..T |-> page(p)]
           held == {i \in DOMAIN ranking : ranking[i].chunk \in stored}
           upto(p) == {i \in held : i <= p * size}
           on(p) == {i \in held : (p - 1) * size < i /\ i <= p * size}
<1>1. size \in Nat \ {0}
  BY ClampOffers
<1>2. n \in Nat /\ DOMAIN ranking = 1..n
  BY ListIs
<1> HIDE DEF size, n
<1>3. /\ T \in Nat /\ T > 0 /\ T * size >= n
      /\ \A p \in 1..T : n # 0 => (p - 1) * size < n
  BY <1>1, <1>2, PagesReach
<1>4. /\ \A p \in Int : EffectivePage(p, n, size) \in 1..T
      /\ \A p \in 1..T : EffectivePage(p, n, size) = p
  <2> HIDE DEF T
  <2>1. \A p : EffectivePage(p, n, size) = IF p < 1 THEN 1 ELSE IF p > T THEN T ELSE p
    BY DEF EffectivePage, T
  <2> QED BY <1>3, <2>1
<1>5. ASSUME NEW p \in 1..T PROVE page(p) = Picked(ranking, on(p)) /\ on(p) \in SUBSET (1..n)
  <2> DEFINE e == IF p * size > n THEN n ELSE p * size
             I == {i \in ((p - 1) * size + 1)..e : ranking[i].chunk \in stored}
  <2>1. page(p) = Picked(ranking, I)
    BY <1>4 DEF FindPage, n
  <2>2. p * size \in Nat /\ (p - 1) * size \in Nat /\ p - 1 \in Nat
    <3>1. p \in Nat /\ p - 1 \in Nat
      BY <1>3
    <3>2. \A a, b \in Nat : a * b \in Nat
      OBVIOUS
    <3> QED BY <3>1, <3>2, <1>1
  <2> DEFINE a == (p - 1) * size
             b == p * size
  <2> HIDE DEF a, b
  <2>3. ((a + 1)..(IF b > n THEN n ELSE b)) = {i \in 1..n : a < i /\ i <= b}
    BY <2>2, <1>2 DEF a, b
  <2>4. I = on(p)
    BY <2>3, <1>2 DEF a, b
  <2> QED BY <2>1, <2>4, <1>2
<1> DEFINE list(p) == Picked(ranking, upto(p))
           g == [p \in 1..T |-> list(p)]
<1>6. \A p \in Nat : p * size \in Nat
  BY <1>1
<1>7. ASSUME NEW p \in 2..T PROVE list(p) = list(p - 1) \o pages[p]
  <2>1. upto(p - 1) \in SUBSET (1..n) /\ on(p) \in SUBSET (1..n)
    BY <1>2
  <2>2. \A i \in upto(p - 1), j \in on(p) : i < j
    <3>1. (p - 1) * size \in Int
      BY <1>3, <1>6
    <3> QED BY <3>1, <1>2
  <2>3. upto(p) = upto(p - 1) \union on(p)
    <3> DEFINE a == (p - 1) * size
               b == p * size
    <3>1. a \in Nat /\ b \in Nat /\ a <= b
      <4>1. p \in Int /\ size \in Int /\ size >= 0
        BY <1>1
      <4>2. a = b - size
        BY <4>1
      <4>3. a \in Nat /\ b \in Nat
        BY <1>3, <1>6
      <4> HIDE DEF a, b
      <4> QED BY <4>1, <4>2, <4>3
    <3> HIDE DEF a, b
    <3>2. \A i \in 1..n : i <= b <=> i <= a \/ (a < i /\ i <= b)
      BY <3>1, <1>2
    <3> QED BY <3>2, <1>2 DEF a, b
  <2> HIDE DEF upto, on
  <2>4. Picked(ranking, upto(p - 1) \union on(p)) = Picked(ranking, upto(p - 1)) \o Picked(ranking, on(p))
    BY <2>1, <2>2, PickedJoin DEF n
  <2>5. pages[p] = Picked(ranking, on(p))
    <3>1. p \in 1..T
      BY <1>3
    <3> QED BY <1>5, <3>1
  <2> QED BY <2>3, <2>4, <2>5
<1>8. list(1) = pages[1]
  <2>1. 1 \in 1..T
    BY <1>3
  <2>2. on(1) = upto(1)
    <3>1. (1 - 1) * size = 0
      BY <1>1
    <3>2. \A i \in held : i > 0
      BY <1>2
    <3> QED BY <3>1, <3>2
  <2>3. page(1) = Picked(ranking, upto(1))
    BY <1>5, <2>1, <2>2
  <2> QED BY <2>1, <2>3
<1>9. Len(pages) = T
  <2> HIDE DEF T, page
  <2> QED BY <1>3
<1> DEFINE flat == CHOOSE f : f = [i \in 1..Len(pages) |->
                                     IF i = 1 THEN pages[i] ELSE f[i - 1] \o pages[i]]
<1>10. FlattenSeq(pages) = flat[T]
  <2> HIDE DEF T, pages
  <2> QED BY <1>3, <1>9 DEF FlattenSeq
<1> HIDE DEF T, pages, list
<1>11. g = [i \in 1..Len(pages) |-> IF i = 1 THEN pages[i] ELSE g[i - 1] \o pages[i]]
  <2>1. ASSUME NEW i \in 1..T
        PROVE  g[i] = IF i = 1 THEN pages[i] ELSE g[i - 1] \o pages[i]
    <3>1. CASE i = 1
      BY <3>1, <1>8
    <3>2. CASE i # 1
      <4>1. i \in 2..T /\ i - 1 \in 1..T
        BY <3>2, <1>3
      <4> QED BY <3>2, <4>1, <1>7
    <3> QED BY <3>1, <3>2
  <2> QED BY <1>9, <2>1
<1> HIDE DEF g
<1>12. flat = [i \in 1..T |-> IF i = 1 THEN pages[i] ELSE flat[i - 1] \o pages[i]]
  BY <1>9, <1>11
<1> HIDE DEF flat
<1> DEFINE same == {i \in 0..T : i = 0 \/ flat[i] = list(i)}
<1>13. T \in same
  <2>1. 0 \in same
    BY <1>3
  <2>2. ASSUME NEW i \in 1..T, i - 1 \in same PROVE i \in same
    <3>1. CASE i = 1
      <4>1. flat[1] = pages[1]
        BY <1>3, <1>12
      <4> QED BY <3>1, <4>1, <1>8, <1>3
    <3>2. CASE i # 1
      <4>1. i \in 2..T /\ i - 1 # 0
        BY <3>2, <1>3
      <4>2. flat[i] = flat[i - 1] \o pages[i]
        BY <3>2, <1>12
      <4>3. flat[i] = list(i)
        BY <4>1, <4>2, <2>2, <1>7
      <4> QED BY <4>3, <1>3
    <3> QED BY <3>1, <3>2
  <2> HIDE DEF same
  <2>3. \A i \in 0..T : i \in same
    BY <1>3, <2>1, <2>2, UptoN
  <2> QED BY <2>3, <1>3
<1>14. FlattenSeq(pages) = Picked(ranking, held)
  <2>1. FlattenSeq(pages) = list(T)
    BY <1>3, <1>10, <1>13
  <2>2. upto(T) = held
    <3> DEFINE b == T * size
    <3>1. b \in Nat /\ b >= n
      BY <1>3, <1>6
    <3> HIDE DEF b
    <3>2. \A i \in 1..n : i <= b
      BY <3>1, <1>2
    <3> QED BY <3>2, <1>2 DEF b
  <2> QED BY <2>1, <2>2 DEF list
<1>15. ASSUME NEW p \in -1..(n + 2) PROVE page(p) \in Range(pages)
  <2>1. EffectivePage(p, n, size) \in 1..T
    BY <1>4
  <2> DEFINE q == EffectivePage(p, n, size)
  <2>2. page(p) = page(q)
    <3>1. EffectivePage(q, n, size) = q
      BY <2>1, <1>4
    <3> QED BY <3>1 DEF FindPage, n
  <2>3. DOMAIN pages = 1..T /\ pages[q] = page(q)
    BY <2>1 DEF pages
  <2> QED BY <2>1, <2>2, <2>3 DEF Range
<1>16. ranking # <<>> => \A p \in DOMAIN pages : (p - 1) * size < n
  <2>1. ranking # <<>> => n # 0
    BY ListIs DEF n
  <2>2. DOMAIN pages = 1..T
    BY DEF pages
  <2> QED BY <2>1, <2>2, <1>3
<1> HIDE DEF page, held
<1> QED BY <1>14, <1>15, <1>16 DEF PagesSound, pages, T, size, n, held, page

-----------------------------------------------------------------------------
(* Nothing flickers while one types: StableSound for every list of answers. *)

(* The elements of a list. *)
LEMMA ListIn ==
  ASSUME NEW S, NEW s \in Seq(S)
  PROVE  /\ Len(s) \in Nat /\ DOMAIN s = 1..Len(s)
         /\ \A i \in DOMAIN s : s[i] \in S
         /\ Range(s) \subseteq S
<1>1. Len(s) \in Nat /\ DOMAIN s = 1..Len(s) /\ \A i \in DOMAIN s : s[i] \in S
  OBVIOUS
<1> QED BY <1>1 DEF Range

\* What is shown, and seen, when fresh arrives while shown is shown.
StabilizedTo(D, shown, fresh, now) ==
    /\ now.shown \in Seq(D) /\ now.cands \in Seq(D)
    /\ fresh = <<>> => now.shown = shown /\ now.cands = fresh
    /\ fresh # <<>> => now.shown = now.cands
    /\ DOMAIN now.cands = DOMAIN fresh
    /\ \A i \in DOMAIN fresh : now.cands[i].chunk = fresh[i].chunk
    /\ fresh # <<>> /\ candidateSig(shown) = candidateSig(fresh) => Range(now.cands) \subseteq Range(shown)
    /\ fresh # <<>> /\ candidateSig(shown) # candidateSig(fresh) => now.cands = fresh

(* What is shown has the chunks of the fresh answer, in its order; it is made *)
(* of what was shown when both have the same chunks, and the answer when not. *)
LEMMA StabilizeIs ==
  ASSUME NEW C, NEW W, NEW shown \in Seq([chunk : C, window : W]), NEW fresh \in Seq([chunk : C, window : W])
  PROVE  StabilizedTo([chunk : C, window : W], shown, fresh, stabilize(shown, fresh))
<1> DEFINE D == [chunk : C, window : W]
           now == stabilize(shown, fresh)
           prior(c) == CHOOSE o \in Range(shown) : o.chunk = c.chunk
           kept == [i \in DOMAIN fresh |-> [fresh[i] EXCEPT !.window = prior(fresh[i]).window]]
<1>1. CASE fresh = <<>>
  <2>1. now = [shown |-> shown, cands |-> fresh]
    BY <1>1 DEF stabilize
  <2> HIDE DEF now
  <2>2. now.shown = shown /\ now.cands = fresh
    BY <2>1
  <2> QED BY <1>1, <2>2 DEF now, StabilizedTo
<1>2. CASE fresh # <<>> /\ candidateSig(shown) # candidateSig(fresh)
  <2>1. now = [shown |-> fresh, cands |-> fresh]
    BY <1>2 DEF stabilize
  <2> HIDE DEF now
  <2>2. now.shown = fresh /\ now.cands = fresh
    BY <2>1
  <2> QED BY <1>2, <2>2 DEF now, StabilizedTo
<1>3. CASE fresh # <<>> /\ candidateSig(shown) = candidateSig(fresh)
  <2>1. now = [shown |-> kept, cands |-> kept]
    BY <1>3 DEF stabilize
  <2>2. ASSUME NEW i \in DOMAIN fresh
        PROVE  kept[i] \in Range(shown) /\ kept[i] \in D /\ kept[i].chunk = fresh[i].chunk
    <3> DEFINE o == prior(fresh[i])
    <3>1. fresh[i].chunk \in candidateSig(fresh)
      BY DEF candidateSig, Range
    <3>2. \E x \in Range(shown) : x.chunk = fresh[i].chunk
      BY <3>1, <1>3 DEF candidateSig
    <3>3. o \in Range(shown) /\ o.chunk = fresh[i].chunk
      BY <3>2
    <3>4. Range(shown) \subseteq D /\ fresh[i] \in D
      <4>1. shown \in Seq(D) /\ fresh \in Seq(D)
        OBVIOUS
      <4> HIDE DEF D
      <4> QED BY <4>1, ListIn
    <3>5. o \in D /\ fresh[i] \in D
      <4> HIDE DEF D, o
      <4> QED BY <3>3, <3>4
    <3>6. kept[i] = [fresh[i] EXCEPT !.window = o.window]
      OBVIOUS
    <3> HIDE DEF o, kept
    <3>7. kept[i] = o
      BY <3>3, <3>5, <3>6
    <3> QED BY <3>3, <3>5, <3>7
  <2>3. DOMAIN kept = DOMAIN fresh
    OBVIOUS
  <2> HIDE DEF kept, now, D
  <2>4. kept \in Seq(D)
    <3>1. Len(fresh) \in Nat /\ DOMAIN fresh = 1..Len(fresh)
      OBVIOUS
    <3>2. kept \in [1..Len(fresh) -> D]
      <4>1. kept = [i \in 1..Len(fresh) |-> kept[i]]
        BY <3>1 DEF kept
      <4> QED BY <2>2, <3>1, <4>1
    <3> QED BY <3>1, <3>2, ListOf
  <2>5. Range(kept) \subseteq Range(shown)
    <3>1. \A x \in Range(kept) : \E i \in DOMAIN fresh : x = kept[i]
      BY <2>3 DEF Range
    <3> QED BY <3>1, <2>2
  <2>6. now.shown = kept /\ now.cands = kept
    BY <2>1
  <2> QED BY <1>3, <2>2, <2>3, <2>4, <2>5, <2>6 DEF D, now, StabilizedTo
<1> QED BY <1>1, <1>2, <1>3

\* The answers that hold something, and since when their chunks are those of i.
FilledIn(answers) == {i \in DOMAIN answers : answers[i] # <<>>}

SameSince(answers, i) ==
    {j \in FilledIn(answers) : j <= i /\ \A k \in FilledIn(answers) : (j <= k /\ k <= i) =>
                                 candidateSig(answers[k]) = candidateSig(answers[i])}

SinceWhen(answers, i) == CHOOSE j \in SameSince(answers, i) : \A k \in SameSince(answers, i) : j <= k

(* Since when that is. *)
LEMMA SinceIs ==
  ASSUME NEW answers, IsList(answers), NEW i \in FilledIn(answers)
  PROVE  /\ SinceWhen(answers, i) \in SameSince(answers, i)
         /\ \A k \in SameSince(answers, i) : SinceWhen(answers, i) <= k
         /\ \A j \in SameSince(answers, i) :
              (\A k \in SameSince(answers, i) : j <= k) => j = SinceWhen(answers, i)
<1> DEFINE S == SameSince(answers, i)
<1>1. DOMAIN answers = 1..Len(answers) /\ Len(answers) \in Nat
  BY ListIs
<1>2. i \in S /\ S \in SUBSET Nat
  BY <1>1 DEF SameSince, FilledIn
<1>3. S # {} /\ S \in SUBSET Nat
  BY <1>2
<1> HIDE DEF S
<1>4. \E x \in S : \A y \in S : x <= y
  BY <1>3, Least
<1>5. SinceWhen(answers, i) \in S /\ \A k \in S : SinceWhen(answers, i) <= k
  BY <1>4 DEF SinceWhen, S
<1>6. ASSUME NEW j \in S, \A k \in S : j <= k PROVE j = SinceWhen(answers, i)
  <2>1. j <= SinceWhen(answers, i) /\ SinceWhen(answers, i) <= j /\ j \in Nat /\ SinceWhen(answers, i) \in Nat
    BY <1>3, <1>5, <1>6
  <2> QED BY <2>1
<1> QED BY <1>5, <1>6 DEF S

\* What is shown after k answers was shown since the chunks are what they are.
ShownSince(answers, k, shown) ==
    \/ shown = <<>> /\ \A j \in 1..k : answers[j] = <<>>
    \/ \E m \in 1..k : /\ answers[m] # <<>> /\ \A j \in (m + 1)..k : answers[j] = <<>>
                       /\ candidateSig(shown) = candidateSig(answers[m])
                       /\ Range(shown) \subseteq Range(answers[SinceWhen(answers, m)])

\* What the writer saw of the i-th answer.
SeenRight(answers, i, cands) ==
    /\ DOMAIN cands = DOMAIN answers[i] /\ \A n \in DOMAIN cands : cands[n].chunk = answers[i][n].chunk
    /\ \A c \in Range(cands) : c \in Range(answers[SinceWhen(answers, i)])

(* One answer more keeps it so. *)
LEMMA ShowsOn ==
  ASSUME NEW C, NEW W, NEW answers \in Seq(Seq([chunk : C, window : W])), NEW k \in 1..Len(answers),
         NEW shown \in Seq([chunk : C, window : W]), ShownSince(answers, k - 1, shown)
  PROVE  LET now == stabilize(shown, answers[k])
         IN  ShownSince(answers, k, now.shown) /\ SeenRight(answers, k, now.cands)
<1> DEFINE D == [chunk : C, window : W]
           fresh == answers[k]
           now == stabilize(shown, fresh)
           n == Len(answers)
<1>1. IsList(answers) /\ n \in Nat /\ DOMAIN answers = 1..n /\ fresh \in Seq(D) /\ k \in Nat /\ k > 0
  BY DEF IsList
<1>2. StabilizedTo(D, shown, fresh, now)
  BY <1>1, StabilizeIs
<1>7. /\ now.shown \in Seq(D) /\ now.cands \in Seq(D)
      /\ fresh = <<>> => now.shown = shown /\ now.cands = fresh
      /\ fresh # <<>> => now.shown = now.cands
      /\ DOMAIN now.cands = DOMAIN fresh
      /\ \A i \in DOMAIN fresh : now.cands[i].chunk = fresh[i].chunk
      /\ fresh # <<>> /\ candidateSig(shown) = candidateSig(fresh) => Range(now.cands) \subseteq Range(shown)
      /\ fresh # <<>> /\ candidateSig(shown) # candidateSig(fresh) => now.cands = fresh
  <2> HIDE DEF now, D, fresh
  <2> QED BY <1>2 DEF StabilizedTo
<1> HIDE DEF now
<1>3. \A j \in 1..k : j \in 1..(k - 1) \/ j = k
  BY <1>1
<1>4. \A j \in 1..(k - 1) : j \in 1..k /\ j < k /\ j \in DOMAIN answers /\ j \in Nat
  BY <1>1
<1>5. CASE fresh = <<>>
  <2>1. SeenRight(answers, k, now.cands)
    BY <1>7, <1>5 DEF SeenRight, Range
  <2>2. ASSUME NEW m \in 1..(k - 1), \A j \in (m + 1)..(k - 1) : answers[j] = <<>>
        PROVE  \A j \in (m + 1)..k : answers[j] = <<>>
    <3> TAKE j \in (m + 1)..k
    <3>1. j \in (m + 1)..(k - 1) \/ j = k
      BY <1>1
    <3> QED BY <3>1, <2>2, <1>5
  <2>3. ShownSince(answers, k, shown)
    BY <1>3, <1>4, <1>5, <2>2 DEF ShownSince
  <2> QED BY <1>7, <1>5, <2>1, <2>3 DEF now
<1>6. CASE fresh # <<>>
  <2>1. k \in FilledIn(answers)
    BY <1>1, <1>6 DEF FilledIn
  <2>2. candidateSig(now.cands) = candidateSig(fresh)
    <3> DEFINE a == now.cands
    <3>1. DOMAIN a = DOMAIN fresh /\ \A i \in DOMAIN fresh : a[i].chunk = fresh[i].chunk
      BY <1>7
    <3> HIDE DEF a, fresh
    <3>2. \A s : candidateSig(s) = {s[i].chunk : i \in DOMAIN s}
      BY DEF candidateSig, Range
    <3> QED BY <3>1, <3>2 DEF a
  <2>3. Range(now.cands) \subseteq Range(answers[SinceWhen(answers, k)])
    <3>1. CASE candidateSig(shown) = candidateSig(fresh)
      <4>1. candidateSig(fresh) # {}
        <5>1. 1 \in DOMAIN fresh
          BY <1>1, <1>6
        <5> HIDE DEF fresh
        <5>2. fresh[1] \in Range(fresh)
          BY <5>1 DEF Range
        <5> QED BY <5>2 DEF candidateSig
      <4>2. shown # <<>>
        <5>1. candidateSig(<<>>) = {}
          BY DEF candidateSig, Range
        <5> QED BY <4>1, <3>1, <5>1
      <4>3. PICK m \in 1..(k - 1) :
              /\ answers[m] # <<>> /\ \A j \in (m + 1)..(k - 1) : answers[j] = <<>>
              /\ candidateSig(shown) = candidateSig(answers[m])
              /\ Range(shown) \subseteq Range(answers[SinceWhen(answers, m)])
        BY <4>2 DEF ShownSince
      <4>4. m \in FilledIn(answers) /\ m < k /\ m \in Nat
        BY <4>3, <1>4 DEF FilledIn
      <4>5. \A j \in FilledIn(answers) : j <= k => j <= m \/ j = k
        <5> TAKE j \in FilledIn(answers)
        <5> HAVE j <= k
        <5>1. j \in 1..n /\ answers[j] # <<>>
          BY <1>1 DEF FilledIn
        <5>2. j \in (m + 1)..(k - 1) \/ j <= m \/ j = k
          BY <5>1, <4>4, <1>1
        <5> QED BY <5>1, <5>2, <4>3
      <4>6. SameSince(answers, k) = SameSince(answers, m) \union {k}
        <5>1. \A j \in FilledIn(answers) : j \in Nat
          BY <1>1 DEF FilledIn
        <5>2. candidateSig(answers[m]) = candidateSig(answers[k])
          BY <3>1, <4>3
        <5>3. \A j \in SameSince(answers, k) : j \in SameSince(answers, m) \union {k}
          BY <4>4, <4>5, <5>1, <5>2, <1>1 DEF SameSince
        <5>4. \A j \in SameSince(answers, m) : j \in SameSince(answers, k)
          BY <4>4, <4>5, <5>1, <5>2, <1>1 DEF SameSince
        <5>5. k \in SameSince(answers, k)
          <6>1. \A x \in FilledIn(answers) : k <= x /\ x <= k => x = k
            BY <5>1, <1>1
          <6> QED BY <2>1, <6>1, <1>1 DEF SameSince
        <5> QED BY <5>3, <5>4, <5>5
      <4>7. SinceWhen(answers, m) = SinceWhen(answers, k)
        <5> DEFINE s == SinceWhen(answers, m)
        <5>1. s \in SameSince(answers, m) /\ \A x \in SameSince(answers, m) : s <= x
          BY <1>1, <4>4, SinceIs
        <5>2. s <= m /\ s \in Nat
          BY <5>1, <1>1 DEF SameSince, FilledIn
        <5> HIDE DEF s
        <5>3. s \in SameSince(answers, k) /\ \A x \in SameSince(answers, k) : s <= x
          BY <4>4, <4>6, <5>1, <5>2, <1>1
        <5> QED BY <1>1, <2>1, <5>3, SinceIs DEF s
      <4> QED BY <1>7, <1>6, <3>1, <4>3, <4>7
    <3>2. CASE candidateSig(shown) # candidateSig(fresh)
      <4>1. \A j \in SameSince(answers, k) : j = k
        <5> TAKE j \in SameSince(answers, k)
        <5>1. j \in 1..n /\ answers[j] # <<>> /\ j <= k /\ j \in FilledIn(answers)
          BY <1>1 DEF SameSince, FilledIn
        <5> SUFFICES ASSUME j # k PROVE FALSE
          OBVIOUS
        <5>2. j \in 1..(k - 1)
          BY <5>1, <1>1
        <5>3. PICK m \in 1..(k - 1) :
                /\ answers[m] # <<>> /\ \A x \in (m + 1)..(k - 1) : answers[x] = <<>>
                /\ candidateSig(shown) = candidateSig(answers[m])
          BY <5>1, <5>2 DEF ShownSince
        <5>4. ~(j \in (m + 1)..(k - 1))
          BY <5>1, <5>3
        <5>5. j <= m /\ m <= k
          BY <5>2, <5>4, <1>1
        <5>6. m \in FilledIn(answers)
          BY <5>3, <1>4 DEF FilledIn
        <5>7. candidateSig(answers[m]) = candidateSig(answers[k])
          BY <5>5, <5>6 DEF SameSince
        <5> QED BY <5>3, <5>7, <3>2
      <4>2. SinceWhen(answers, k) = k
        BY <1>1, <2>1, <4>1, SinceIs
      <4> QED BY <1>7, <1>6, <3>2, <4>2
    <3> QED BY <3>1, <3>2
  <2>4. SeenRight(answers, k, now.cands)
    BY <1>7, <2>3 DEF SeenRight
  <2>5. ShownSince(answers, k, now.shown)
    <3>1. k \in 1..k /\ \A j \in (k + 1)..k : answers[j] = <<>>
      BY <1>1
    <3> QED BY <1>7, <1>6, <2>2, <2>3, <3>1 DEF ShownSince
  <2> QED BY <2>4, <2>5 DEF now
<1> QED BY <1>5, <1>6

(* StableSound for every list of answers. *)
THEOREM StableRight ==
  ASSUME NEW C, NEW W, NEW answers \in Seq(Seq([chunk : C, window : W]))
  PROVE  StableSound(answers)
<1> DEFINE D == [chunk : C, window : W]
           n == Len(answers)
           A == [shown : Seq(D), seen : Seq(Seq(D))]
           start == [shown |-> <<>>, seen |-> <<>>]
           step == [x \in (1..n) \X A |-> Shows(x[2], answers[x[1]])]
           it == CHOOSE it : it = [s \in SUBSET (DOMAIN answers) |->
                                     IF s = {} THEN start ELSE Shows(it[s \ {Max(s)}], answers[Max(s)])]
<1>1. n \in Nat /\ DOMAIN answers = 1..n /\ (\A i \in 1..n : answers[i] \in Seq(D)) /\ IsList(answers)
  <2>1. answers \in Seq(Seq(D)) /\ IsList(answers)
    BY DEF IsList
  <2> HIDE DEF D
  <2> QED BY <2>1, ListIn
<1>2. start \in A
  <2>1. <<>> \in Seq(D) /\ <<>> \in Seq(Seq(D))
    OBVIOUS
  <2> HIDE DEF D
  <2> QED BY <2>1
<1>3. ASSUME NEW a \in A, NEW k \in 1..n
      PROVE  LET now == stabilize(a.shown, answers[k])
             IN  /\ now.shown \in Seq(D) /\ now.cands \in Seq(D)
                 /\ Shows(a, answers[k]) = [shown |-> now.shown, seen |-> Append(a.seen, now.cands)]
                 /\ Shows(a, answers[k]) \in A
  <2> DEFINE now == stabilize(a.shown, answers[k])
  <2>1. a.shown \in Seq(D) /\ a.seen \in Seq(Seq(D)) /\ answers[k] \in Seq(D)
    <3> HIDE DEF D
    <3> QED BY <1>1
  <2>2. StabilizedTo(D, a.shown, answers[k], now)
    BY <2>1, StabilizeIs
  <2>3. Shows(a, answers[k]) = [shown |-> now.shown, seen |-> Append(a.seen, now.cands)]
    BY DEF Shows
  <2> HIDE DEF now, D
  <2>4. now.shown \in Seq(D) /\ now.cands \in Seq(D)
    BY <2>2 DEF StabilizedTo
  <2>5. Append(a.seen, now.cands) \in Seq(Seq(D))
    BY <2>1, <2>4
  <2> QED BY <2>3, <2>4, <2>5 DEF now
<1> HIDE DEF n, A, start
<1>4. step \in [(1..n) \X A -> A]
  <2>1. ASSUME NEW x \in (1..n) \X A PROVE Shows(x[2], answers[x[1]]) \in A
    BY <1>3
  <2> QED BY <2>1
<1> HIDE DEF step
<1>5. PICK g \in [SUBSET (1..n) -> A] : IsFold(g, n, start, step)
  BY <1>1, <1>2, <1>4, FoldFn
<1>6. g = [s \in SUBSET (DOMAIN answers) |->
             IF s = {} THEN start ELSE Shows(g[s \ {Max(s)}], answers[Max(s)])]
  <2>1. ASSUME NEW s \in SUBSET (1..n), s # {}
        PROVE  step[<<Max(s), g[s \ {Max(s)}]>>] = Shows(g[s \ {Max(s)}], answers[Max(s)])
    <3>1. Max(s) \in 1..n /\ g[s \ {Max(s)}] \in A
      BY <2>1, <1>1, <1>5, TopIn
    <3> QED BY <3>1 DEF step
  <2> QED BY <1>1, <1>5, <2>1 DEF IsFold
<1>7. it = [s \in SUBSET (DOMAIN answers) |->
             IF s = {} THEN start ELSE Shows(it[s \ {Max(s)}], answers[Max(s)])]
  BY <1>6
<1>8. Seen(answers) = it[DOMAIN answers].seen
  BY DEF Seen, FoldLeft, MapThenFoldSet, start
<1> HIDE DEF it
<1> DEFINE Tracked(a, k) == /\ a \in A /\ Len(a.seen) = k /\ ShownSince(answers, k, a.shown)
                         /\ \A i \in 1..k : SeenRight(answers, i, a.seen[i])
           T == {k \in 0..n : Tracked(it[1..k], k)}
<1>9. 0 \in T
  <2>1. 1..0 = {} /\ {} \in SUBSET (1..n)
    OBVIOUS
  <2>2. it[1..0] = start
    BY <1>1, <1>7, <2>1
  <2>3. Tracked(start, 0)
    <3>1. start.shown = <<>> /\ start.seen = <<>>
      BY DEF start
    <3> QED BY <3>1, <1>2 DEF ShownSince
  <2> HIDE DEF Tracked
  <2> QED BY <2>2, <2>3, <1>1
<1>10. ASSUME NEW k \in 1..n, k - 1 \in T PROVE k \in T
  <2>1. k \in Nat /\ k > 0 /\ 1..k \in SUBSET (1..n)
    BY <1>1
  <2>2. Max(1..k) = k /\ (1..k) \ {k} = 1..(k - 1) /\ 1..k # {}
    BY <2>1, TopUpto
  <2>3. it[1..k] = Shows(it[(1..k) \ {Max(1..k)}], answers[Max(1..k)])
    BY <1>1, <1>7, <2>1, <2>2, Zenon
  <2>4. it[1..k] = Shows(it[1..(k - 1)], answers[k])
    BY <2>2, <2>3
  <2> DEFINE a == it[1..(k - 1)]
             now == stabilize(a.shown, answers[k])
             b == it[1..k]
  <2>5. Tracked(a, k - 1)
    BY <1>10
  <2>6. /\ now.shown \in Seq(D) /\ now.cands \in Seq(D) /\ b \in A
        /\ b = [shown |-> now.shown, seen |-> Append(a.seen, now.cands)]
    BY <1>3, <2>4, <2>5
  <2>7. b.shown = now.shown /\ b.seen = Append(a.seen, now.cands)
    BY <2>6
  <2>8. a.shown \in Seq(D) /\ a.seen \in Seq(Seq(D)) /\ ShownSince(answers, k - 1, a.shown) /\ Len(a.seen) = k - 1
    <3> HIDE DEF D
    <3> QED BY <2>5 DEF A
  <2>9. ShownSince(answers, k, now.shown) /\ SeenRight(answers, k, now.cands)
    <3>1. answers \in Seq(Seq([chunk : C, window : W])) /\ k \in 1..Len(answers)
          /\ a.shown \in Seq([chunk : C, window : W]) /\ ShownSince(answers, k - 1, a.shown)
      BY <2>8 DEF n
    <3> HIDE DEF a
    <3> QED BY <3>1, ShowsOn
  <2> HIDE DEF a, now, b, D
  <2>10. /\ Len(b.seen) = k /\ b.seen[k] = now.cands
         /\ \A i \in 1..(k - 1) : b.seen[i] = a.seen[i]
    BY <2>1, <2>6, <2>7, <2>8
  <2>11. \A i \in 1..k : i \in 1..(k - 1) \/ i = k
    BY <2>1
  <2>12. Tracked(b, k)
    BY <2>5, <2>6, <2>7, <2>9, <2>10, <2>11
  <2>13. Tracked(it[1..k], k) /\ k \in 0..n
    BY <2>12, <1>1 DEF b
  <2> HIDE DEF Tracked
  <2> QED BY <2>13
<1> HIDE DEF T
<1>11. n \in T
  <2>1. \A k \in 0..n : k \in T
    BY <1>1, <1>9, <1>10, UptoN
  <2> QED BY <2>1, <1>1
<1>12. \A i \in 1..n : SeenRight(answers, i, Seen(answers)[i])
  BY <1>1, <1>8, <1>11 DEF T
<1> DEFINE seen == Seen(answers)
<1>13. ASSUME NEW i \in DOMAIN answers
       PROVE  /\ [m \in DOMAIN seen[i] |-> seen[i][m].chunk]
                   = [m \in DOMAIN answers[i] |-> answers[i][m].chunk]
              /\ \A c \in Range(seen[i]) : c \in Range(answers[SinceWhen(answers, i)])
  <2> HIDE DEF seen
  <2>1. SeenRight(answers, i, seen[i])
    BY <1>1, <1>12 DEF seen
  <2> QED BY <2>1 DEF SeenRight
<1> HIDE DEF seen
<1> QED BY <1>13 DEF StableSound, SinceWhen, SameSince, FilledIn, seen

-----------------------------------------------------------------------------
(* The index counts what it holds: IndexSound for every list of additions. *)

\* What the index holds when its documents are ids, with the texts of text.
TokenPlaces(ids, text) == UNION {{d} \X DOMAIN text[d] : d \in ids}

PostingsOf(ids, text) ==
    UNION {{[term |-> t, doc |-> d, count |-> Frequency(text[d], t)] : t \in Range(text[d])} : d \in ids}

IndexOf(ids, text) ==
    [docLen |-> [d \in ids |-> Len(text[d])], postings |-> PostingsOf(ids, text),
     total |-> Cardinality(TokenPlaces(ids, text)), numDocs |-> Cardinality(ids)]

(* The tokens of the documents, with those of one document apart. *)
LEMMA TokensCount ==
  ASSUME NEW ids, IsFiniteSet(ids), NEW text, \A d \in ids : IsList(text[d])
  PROVE  /\ IsFiniteSet(TokenPlaces(ids, text)) /\ Cardinality(TokenPlaces(ids, text)) \in Nat
         /\ \A id \in ids : Cardinality(TokenPlaces(ids, text))
              = Cardinality(TokenPlaces(ids \ {id}, text)) + Len(text[id])
<1> DEFINE Of(d) == {d} \X DOMAIN text[d]
<1>1. ASSUME NEW d \in ids
      PROVE  IsFiniteSet(Of(d)) /\ Cardinality(Of(d)) = Len(text[d]) /\ Len(text[d]) \in Nat
  <2>1. DOMAIN text[d] = 1..Len(text[d]) /\ Len(text[d]) \in Nat
    BY ListIs
  <2>2. IsFiniteSet(DOMAIN text[d]) /\ Cardinality(DOMAIN text[d]) = Len(text[d])
    BY <2>1, FS_Interval
  <2>3. IsFiniteSet({d}) /\ Cardinality({d}) = 1
    BY FS_Singleton
  <2>4. IsFiniteSet(Of(d)) /\ Cardinality(Of(d)) = 1 * Len(text[d])
    BY <2>2, <2>3, FS_Product
  <2> HIDE DEF Of
  <2> QED BY <2>1, <2>4
<1> HIDE DEF Of
<1>2. ASSUME NEW S \in SUBSET ids PROVE IsFiniteSet(TokenPlaces(S, text)) /\ Cardinality(TokenPlaces(S, text)) \in Nat
  <2> DEFINE All == {Of(d) : d \in S}
  <2>1. IsFiniteSet(S)
    BY FS_Subset
  <2>2. IsFiniteSet(All)
    <3> DEFINE f == [d \in S |-> Of(d)]
    <3>1. f \in Surjection(S, All)
      BY DEF Surjection
    <3> HIDE DEF f, All
    <3> QED BY <2>1, <3>1, FS_Surjection
  <2>3. \A x \in All : IsFiniteSet(x)
    BY <1>1
  <2>4. TokenPlaces(S, text) = UNION All
    BY DEF TokenPlaces, Of
  <2> HIDE DEF All
  <2>5. IsFiniteSet(TokenPlaces(S, text))
    BY <2>2, <2>3, <2>4, FS_UNION
  <2> QED BY <2>5, FS_CardinalityType
<1>3. ASSUME NEW id \in ids
      PROVE  Cardinality(TokenPlaces(ids, text)) = Cardinality(TokenPlaces(ids \ {id}, text)) + Len(text[id])
  <2> DEFINE rest == TokenPlaces(ids \ {id}, text)
  <2>1. TokenPlaces(ids, text) = rest \union Of(id)
    BY DEF TokenPlaces, Of
  <2>2. rest \intersect Of(id) = {}
    BY DEF TokenPlaces, Of
  <2>3. IsFiniteSet(rest) /\ Cardinality(rest) \in Nat
    BY <1>2
  <2> HIDE DEF rest
  <2>4. Cardinality(rest \union Of(id)) = Cardinality(rest) + Cardinality(Of(id)) - Cardinality(rest \intersect Of(id))
    BY <1>1, <2>3, FS_Union
  <2>5. Cardinality(rest \intersect Of(id)) = 0
    BY <2>2, FS_EmptySet
  <2> QED BY <1>1, <2>1, <2>3, <2>4, <2>5 DEF rest
<1> QED BY <1>2, <1>3

(* Only the texts of its documents count. *)
LEMMA SameIndex ==
  ASSUME NEW ids, NEW text, NEW other, \A d \in ids : text[d] = other[d]
  PROVE  IndexOf(ids, text) = IndexOf(ids, other)
<1>1. TokenPlaces(ids, text) = TokenPlaces(ids, other)
  BY DEF TokenPlaces
<1>2. PostingsOf(ids, text) = PostingsOf(ids, other)
  BY DEF PostingsOf
<1>3. [d \in ids |-> Len(text[d])] = [d \in ids |-> Len(other[d])]
  OBVIOUS
<1> QED BY <1>1, <1>2, <1>3 DEF IndexOf

(* Removing a document takes it, and nothing else, out of the index. *)
LEMMA RemoveDocIs ==
  ASSUME NEW ids, IsFiniteSet(ids), NEW text, \A d \in ids : IsList(text[d]), NEW id
  PROVE  RemoveDoc(IndexOf(ids, text), id) = IndexOf(ids \ {id}, text)
<1> DEFINE idx == IndexOf(ids, text)
           left == ids \ {id}
<1>1. /\ idx.docLen = [d \in ids |-> Len(text[d])] /\ idx.postings = PostingsOf(ids, text)
      /\ idx.total = Cardinality(TokenPlaces(ids, text)) /\ idx.numDocs = Cardinality(ids)
  BY DEF IndexOf
<1> HIDE DEF idx
<1>2. CASE id \notin ids
  <2>1. left = ids
    BY <1>2
  <2>2. RemoveDoc(idx, id) = idx
    BY <1>1, <1>2 DEF RemoveDoc
  <2> QED BY <2>1, <2>2 DEF idx
<1>3. CASE id \in ids
  <2>1. RemoveDoc(idx, id) = [docLen |-> [d \in left |-> idx.docLen[d]],
                              postings |-> {p \in idx.postings : p.doc # id},
                              total |-> idx.total - idx.docLen[id],
                              numDocs |-> idx.numDocs - 1]
    BY <1>1, <1>3 DEF RemoveDoc
  <2>2. [d \in left |-> idx.docLen[d]] = [d \in left |-> Len(text[d])]
    BY <1>1
  <2>3. {p \in idx.postings : p.doc # id} = PostingsOf(left, text)
    <3>1. ASSUME NEW p \in PostingsOf(ids, text), p.doc # id PROVE p \in PostingsOf(left, text)
      <4>1. PICK d \in ids : \E t \in Range(text[d]) : p = [term |-> t, doc |-> d, count |-> Frequency(text[d], t)]
        BY DEF PostingsOf
      <4>2. p.doc = d
        BY <4>1
      <4> QED BY <4>1, <4>2, <3>1 DEF PostingsOf
    <3>2. ASSUME NEW p \in PostingsOf(left, text) PROVE p \in PostingsOf(ids, text) /\ p.doc # id
      <4>1. PICK d \in left : \E t \in Range(text[d]) : p = [term |-> t, doc |-> d, count |-> Frequency(text[d], t)]
        BY DEF PostingsOf
      <4>2. p.doc = d
        BY <4>1
      <4> QED BY <4>1, <4>2 DEF PostingsOf
    <3> QED BY <1>1, <3>1, <3>2
  <2>4. idx.total - idx.docLen[id] = Cardinality(TokenPlaces(left, text))
    <3> DEFINE a == Cardinality(TokenPlaces(ids, text))
               b == Cardinality(TokenPlaces(left, text))
               c == Len(text[id])
    <3>1. IsFiniteSet(left)
      BY FS_RemoveElement
    <3>2. a \in Nat /\ a = b + c
      BY <1>3, TokensCount
    <3>3. b \in Nat
      BY <3>1, TokensCount
    <3>4. c \in Nat
      BY <1>3, ListIs
    <3>5. idx.total = a /\ idx.docLen[id] = c
      BY <1>1, <1>3
    <3> HIDE DEF a, b, c
    <3>6. idx.total - idx.docLen[id] = b
      BY <3>2, <3>3, <3>4, <3>5
    <3> QED BY <3>6 DEF b
  <2>5. idx.numDocs - 1 = Cardinality(left)
    BY <1>1, <1>3, FS_RemoveElement
  <2> HIDE DEF left
  <2> QED BY <2>1, <2>2, <2>3, <2>4, <2>5 DEF IndexOf, idx, left
<1> QED BY <1>2, <1>3

\* The texts of the documents ids are lists; in new, tokens is that of id.
ListsFor(text, ids) == \A d \in ids : IsList(text[d])

Replaces(new, text, ids, id, tokens) == new[id] = tokens /\ \A d \in ids \ {id} : new[d] = text[d]

(* Adding a document, new or again, leaves the index of the new texts. *)
LEMMA AddDocIs ==
  ASSUME NEW ids, IsFiniteSet(ids), NEW text, ListsFor(text, ids), NEW id, NEW tokens,
         IsList(tokens), NEW new, Replaces(new, text, ids, id, tokens)
  PROVE  AddDoc(IndexOf(ids, text), id, tokens) = IndexOf(ids \union {id}, new)
<1> DEFINE all == ids \union {id}
           left == ids \ {id}
           rest == RemoveDoc(IndexOf(ids, text), id)
<1>1. new[id] = tokens /\ \A d \in left : new[d] = text[d]
  BY DEF Replaces
<1>2. (\A d \in ids : IsList(text[d])) /\ \A d \in all : IsList(new[d])
  BY <1>1 DEF ListsFor
<1>3. IsFiniteSet(all) /\ IsFiniteSet(left) /\ left = all \ {id} /\ id \in all
      /\ Cardinality(all) = Cardinality(left) + 1
  <2>1. IsFiniteSet(left)
    BY FS_RemoveElement
  <2>2. all = left \union {id} /\ id \notin left
    OBVIOUS
  <2> HIDE DEF all, left
  <2>3. IsFiniteSet(left \union {id}) /\ Cardinality(left \union {id}) = Cardinality(left) + 1
    BY <2>1, <2>2, FS_AddElement
  <2> QED BY <2>1, <2>2, <2>3 DEF left, all
<1>4. rest = IndexOf(left, new)
  <2>1. rest = IndexOf(left, text)
    BY <1>2, RemoveDocIs
  <2> HIDE DEF left
  <2>2. IndexOf(left, text) = IndexOf(left, new)
    BY <1>1, SameIndex
  <2> QED BY <2>1, <2>2 DEF left
<1> HIDE DEF rest, all, left
<1>5. /\ rest.docLen = [d \in left |-> Len(new[d])] /\ rest.postings = PostingsOf(left, new)
      /\ rest.total = Cardinality(TokenPlaces(left, new)) /\ rest.numDocs = Cardinality(left)
  BY <1>4 DEF IndexOf
<1>6. AddDoc(IndexOf(ids, text), id, tokens) =
        [docLen |-> [d \in DOMAIN rest.docLen \union {id} |-> IF d = id THEN Len(tokens) ELSE rest.docLen[d]],
         postings |-> rest.postings \union
                        {[term |-> t, doc |-> id, count |-> Frequency(tokens, t)] : t \in Range(tokens)},
         total |-> rest.total + Len(tokens),
         numDocs |-> rest.numDocs + 1]
  BY DEF AddDoc, rest
<1>7. [d \in DOMAIN rest.docLen \union {id} |-> IF d = id THEN Len(tokens) ELSE rest.docLen[d]]
        = [d \in all |-> Len(new[d])]
  <2>1. DOMAIN rest.docLen \union {id} = all
    BY <1>5 DEF all, left
  <2>2. ASSUME NEW d \in all PROVE (IF d = id THEN Len(tokens) ELSE rest.docLen[d]) = Len(new[d])
    BY <1>1, <1>3, <1>5
  <2> QED BY <2>1, <2>2
<1>8. rest.postings \union {[term |-> t, doc |-> id, count |-> Frequency(tokens, t)] : t \in Range(tokens)}
        = PostingsOf(all, new)
  <2> DEFINE Post(d) == {[term |-> t, doc |-> d, count |-> Frequency(new[d], t)] : t \in Range(new[d])}
  <2>1. {[term |-> t, doc |-> id, count |-> Frequency(tokens, t)] : t \in Range(tokens)} = Post(id)
    BY <1>1
  <2>2. PostingsOf(all, new) = UNION {Post(d) : d \in all} /\ PostingsOf(left, new) = UNION {Post(d) : d \in left}
    BY DEF PostingsOf
  <2> HIDE DEF Post
  <2>3. UNION {Post(d) : d \in all} = (UNION {Post(d) : d \in left}) \union Post(id)
    BY <1>3
  <2> QED BY <1>5, <2>1, <2>2, <2>3, Zenon
<1>9. rest.total + Len(tokens) = Cardinality(TokenPlaces(all, new))
  <2> DEFINE a == Cardinality(TokenPlaces(all, new))
             b == Cardinality(TokenPlaces(left, new))
  <2>1. a = b + Len(tokens)
    BY <1>1, <1>2, <1>3, TokensCount
  <2> HIDE DEF a, b
  <2> QED BY <2>1, <1>5 DEF a, b
<1>10. rest.numDocs + 1 = Cardinality(all)
  BY <1>3, <1>5
<1> QED BY <1>6, <1>7, <1>8, <1>9, <1>10 DEF IndexOf, all

\* The documents of the first k additions, and the last text of each.
IdsAt(adds, k) == {adds[i].id : i \in 1..k}

LastAt(adds, k, d) == CHOOSE i \in 1..k : adds[i].id = d /\ \A j \in 1..k : adds[j].id = d => j <= i

TextsAt(adds, k, I) ==
    [d \in I |-> IF d \in IdsAt(adds, k) THEN adds[LastAt(adds, k, d)].tokens ELSE <<>>]

(* The last addition of a document. *)
LEMMA LastIs ==
  ASSUME NEW adds, NEW k \in Nat, NEW d \in IdsAt(adds, k)
  PROVE  LET i == LastAt(adds, k, d)
         IN  /\ i \in 1..k /\ adds[i].id = d
             /\ \A m \in 1..k : adds[m].id = d /\ (\A j \in 1..k : adds[j].id = d => j <= m) => m = i
<1> DEFINE S == {i \in 1..k : adds[i].id = d}
           i == LastAt(adds, k, d)
<1>1. S \in SUBSET (1..k) /\ S # {}
  BY DEF IdsAt
<1>2. Max(S) \in S /\ \A y \in S : y <= Max(S)
  <2> HIDE DEF S
  <2> QED BY <1>1, TopIn
<1>3. i \in 1..k /\ adds[i].id = d /\ \A j \in 1..k : adds[j].id = d => j <= i
  <2> DEFINE x == Max(S)
  <2>1. x \in 1..k /\ adds[x].id = d /\ \A j \in 1..k : adds[j].id = d => j <= x
    BY <1>2
  <2> HIDE DEF x
  <2> QED BY <2>1 DEF LastAt
<1>4. ASSUME NEW m \in 1..k, adds[m].id = d, \A j \in 1..k : adds[j].id = d => j <= m
      PROVE  m = i
  <2>1. m <= i /\ i <= m /\ m \in Int /\ i \in Int
    BY <1>3, <1>4
  <2> QED BY <2>1
<1> QED BY <1>3, <1>4

(* One addition more. *)
LEMMA TextsOn ==
  ASSUME NEW I, NEW adds, NEW k \in Nat, k > 0, \A i \in 1..k : adds[i].id \in I
  PROVE  /\ IdsAt(adds, k) = IdsAt(adds, k - 1) \union {adds[k].id}
         /\ \A d \in IdsAt(adds, k) :
              TextsAt(adds, k, I)[d] = [TextsAt(adds, k - 1, I) EXCEPT ![adds[k].id] = adds[k].tokens][d]
<1> DEFINE id == adds[k].id
           prior == TextsAt(adds, k - 1, I)
           new == TextsAt(adds, k, I)
<1>1. k \in 1..k /\ k - 1 \in Nat /\ \A i \in 1..k : i \in 1..(k - 1) \/ i = k
  OBVIOUS
<1>2. \A i \in 1..(k - 1) : i \in 1..k /\ i < k
  OBVIOUS
<1>3. IdsAt(adds, k) = IdsAt(adds, k - 1) \union {id}
  BY <1>1, <1>2 DEF IdsAt
<1>4. ASSUME NEW d \in IdsAt(adds, k) PROVE new[d] = [prior EXCEPT ![id] = adds[k].tokens][d]
  <2>1. id \in I /\ d \in I /\ DOMAIN prior = I
    BY <1>1 DEF IdsAt, TextsAt
  <2>2. new[d] = adds[LastAt(adds, k, d)].tokens
    BY <2>1 DEF TextsAt
  <2>3. CASE d = id
    <3>1. \A j \in 1..k : j <= k
      OBVIOUS
    <3>2. LastAt(adds, k, d) = k
      BY <1>1, <2>3, <3>1, LastIs
    <3> HIDE DEF new, prior
    <3> QED BY <2>1, <2>2, <2>3, <3>2
  <2>4. CASE d # id
    <3>1. d \in IdsAt(adds, k - 1)
      BY <1>3, <2>4
    <3> DEFINE m == LastAt(adds, k - 1, d)
    <3>2. m \in 1..(k - 1) /\ adds[m].id = d
      BY <1>1, <3>1, LastIs
    <3>3. \A j \in 1..(k - 1) : adds[j].id = d => j <= m
      <4> DEFINE S == {i \in 1..(k - 1) : adds[i].id = d}
      <4>1. S \in SUBSET (1..(k - 1)) /\ S # {}
        BY <3>2
      <4>2. Max(S) \in S /\ \A y \in S : y <= Max(S)
        <5> HIDE DEF S
        <5> QED BY <1>1, <4>1, TopIn
      <4>3. Max(S) \in 1..(k - 1) /\ adds[Max(S)].id = d /\ \A j \in 1..(k - 1) : adds[j].id = d => j <= Max(S)
        BY <4>2
      <4> HIDE DEF S
      <4>4. Max(S) = m
        BY <1>1, <3>1, <4>3, LastIs
      <4> HIDE DEF m
      <4> QED BY <4>3, <4>4
    <3> HIDE DEF m
    <3>4. m \in 1..k /\ \A j \in 1..k : adds[j].id = d => j <= m
      BY <1>1, <1>2, <2>4, <3>2, <3>3
    <3>5. LastAt(adds, k, d) = m
      BY <3>2, <3>4, LastIs
    <3>6. prior[d] = adds[m].tokens
      BY <2>1, <3>1 DEF TextsAt, m
    <3> HIDE DEF new, prior
    <3> QED BY <2>1, <2>2, <2>4, <3>5, <3>6
  <2> QED BY <2>3, <2>4
<1> QED BY <1>3, <1>4

(* The index after a list of additions. *)
LEMMA IndexedIs ==
  ASSUME NEW I, NEW E, NEW adds \in Seq([id : I, tokens : Seq(E)])
  PROVE  LET n == Len(adds)
         IN  /\ IsFiniteSet(IdsAt(adds, n)) /\ IdsAt(adds, n) \in SUBSET I
             /\ TextsAt(adds, n, I) \in [I -> Seq(E)]
             /\ Indexed(adds) = IndexOf(IdsAt(adds, n), TextsAt(adds, n, I))
<1> DEFINE n == Len(adds)
           R == [id : I, tokens : Seq(E)]
           F == {S \in SUBSET I : IsFiniteSet(S)}
           A == {IndexOf(p[1], p[2]) : p \in F \X [I -> Seq(E)]}
           next(idx, a) == AddDoc(idx, a.id, a.tokens)
           step == [x \in (1..n) \X A |-> next(x[2], adds[x[1]])]
           it == CHOOSE it : it = [s \in SUBSET (DOMAIN adds) |->
                                     IF s = {} THEN EmptyIndex ELSE next(it[s \ {Max(s)}], adds[Max(s)])]
<1>1. n \in Nat /\ DOMAIN adds = 1..n /\ \A i \in 1..n : adds[i].id \in I /\ adds[i].tokens \in Seq(E)
  <2>1. adds \in Seq(R)
    OBVIOUS
  <2>2. \A r \in R : r.id \in I /\ r.tokens \in Seq(E)
    OBVIOUS
  <2> HIDE DEF R
  <2> QED BY <2>1, <2>2, ListIn
<1> HIDE DEF n, R
<1>2. ASSUME NEW k \in 0..n
      PROVE  IdsAt(adds, k) \in F /\ TextsAt(adds, k, I) \in [I -> Seq(E)]
  <2>1. IsFiniteSet(1..k)
    BY FS_Interval
  <2>2. IsFiniteSet(IdsAt(adds, k))
    <3> DEFINE f == [i \in 1..k |-> adds[i].id]
    <3>1. f \in Surjection(1..k, IdsAt(adds, k))
      BY DEF Surjection, IdsAt
    <3> HIDE DEF f
    <3> QED BY <2>1, <3>1, FS_Surjection
  <2>3. \A i \in 1..k : i \in 1..n
    BY <1>1
  <2>4. IdsAt(adds, k) \in SUBSET I
    BY <1>1, <2>3 DEF IdsAt
  <2>5. ASSUME NEW d \in IdsAt(adds, k) PROVE adds[LastAt(adds, k, d)].tokens \in Seq(E)
    <3>1. LastAt(adds, k, d) \in 1..k
      BY <1>1, LastIs
    <3> QED BY <1>1, <2>3, <3>1
  <2>6. <<>> \in Seq(E)
    OBVIOUS
  <2> QED BY <2>2, <2>4, <2>5, <2>6 DEF TextsAt
<1>3. ASSUME NEW ids \in F, NEW text \in [I -> Seq(E)], NEW i \in 1..n
      PROVE  /\ next(IndexOf(ids, text), adds[i]) = IndexOf(ids \union {adds[i].id}, [text EXCEPT ![adds[i].id] = adds[i].tokens])
             /\ next(IndexOf(ids, text), adds[i]) \in A
  <2> DEFINE doc == adds[i].id
             all == ids \union {doc}
             after == [text EXCEPT ![doc] = adds[i].tokens]
  <2>1. doc \in I /\ adds[i].tokens \in Seq(E)
    BY <1>1
  <2>2. next(IndexOf(ids, text), adds[i]) = IndexOf(all, after)
    <3>1. ids \in SUBSET I /\ IsFiniteSet(ids)
      OBVIOUS
    <3> DEFINE words == adds[i].tokens
    <3>2. Replaces(after, text, ids, doc, words) /\ IsList(words) /\ ListsFor(text, ids)
      BY <2>1, <3>1 DEF IsList, Replaces, ListsFor
    <3> HIDE DEF F, A, words, doc, after
    <3>3. AddDoc(IndexOf(ids, text), doc, words) = IndexOf(ids \union {doc}, after)
      BY <3>1, <3>2, AddDocIs
    <3> QED BY <3>3 DEF words, doc
  <2>3. all \in F
    BY <2>1, FS_AddElement
  <2>4. after \in [I -> Seq(E)]
    BY <2>1
  <2> HIDE DEF all, after, F, next
  <2>5. IndexOf(all, after) \in A
    <3> DEFINE p == <<all, after>>
    <3>1. p \in F \X [I -> Seq(E)] /\ p[1] = all /\ p[2] = after
      BY <2>3, <2>4
    <3> HIDE DEF p
    <3> QED BY <3>1
  <2> QED BY <2>2, <2>5 DEF all, after
<1>4. EmptyIndex = IndexOf({}, [d \in I |-> <<>>])
  <2>1. \A t : TokenPlaces({}, t) = {} /\ PostingsOf({}, t) = {}
    BY DEF TokenPlaces, PostingsOf
  <2>2. \A t : [d \in {} |-> Len(t[d])] = <<>>
    OBVIOUS
  <2>3. Cardinality({}) = 0
    BY FS_EmptySet
  <2> QED BY <2>1, <2>2, <2>3 DEF EmptyIndex, IndexOf
<1>5. EmptyIndex \in A
  <2> DEFINE none == [d \in I |-> <<>>]
             p == <<{}, none>>
  <2>1. {} \in F
    BY FS_EmptySet
  <2>2. none \in [I -> Seq(E)]
    OBVIOUS
  <2>3. EmptyIndex = IndexOf({}, none)
    BY <1>4
  <2> HIDE DEF F, none
  <2>4. p \in F \X [I -> Seq(E)] /\ p[1] = {} /\ p[2] = none
    BY <2>1, <2>2
  <2> HIDE DEF p
  <2> QED BY <2>3, <2>4
<1>6. step \in [(1..n) \X A -> A]
  <2>1. ASSUME NEW x \in (1..n) \X A PROVE next(x[2], adds[x[1]]) \in A
    <3>1. PICK ids \in F, text \in [I -> Seq(E)] : x[2] = IndexOf(ids, text)
      OBVIOUS
    <3> HIDE DEF A, F, next
    <3> QED BY <1>3, <3>1
  <2> HIDE DEF A, next
  <2> QED BY <2>1
<1> HIDE DEF step, A, next, F
<1>7. PICK g \in [SUBSET (1..n) -> A] : IsFold(g, n, EmptyIndex, step)
  BY <1>1, <1>5, <1>6, FoldFn
<1>8. g = [s \in SUBSET (DOMAIN adds) |->
             IF s = {} THEN EmptyIndex ELSE next(g[s \ {Max(s)}], adds[Max(s)])]
  <2>1. ASSUME NEW s \in SUBSET (1..n), s # {}
        PROVE  step[<<Max(s), g[s \ {Max(s)}]>>] = next(g[s \ {Max(s)}], adds[Max(s)])
    <3>1. Max(s) \in 1..n /\ g[s \ {Max(s)}] \in A
      BY <2>1, <1>1, <1>7, TopIn
    <3> QED BY <3>1 DEF step
  <2> QED BY <1>1, <1>7, <2>1 DEF IsFold
<1>9. it = [s \in SUBSET (DOMAIN adds) |->
             IF s = {} THEN EmptyIndex ELSE next(it[s \ {Max(s)}], adds[Max(s)])]
  BY <1>8
<1>10. Indexed(adds) = it[DOMAIN adds]
  BY DEF Indexed, FoldLeft, MapThenFoldSet, next
<1> HIDE DEF it
<1> DEFINE T == {k \in 0..n : it[1..k] = IndexOf(IdsAt(adds, k), TextsAt(adds, k, I))}
<1>11. 0 \in T
  <2>1. 1..0 = {} /\ {} \in SUBSET (1..n)
    OBVIOUS
  <2>2. it[1..0] = EmptyIndex
    BY <1>1, <1>9, <2>1
  <2>3. IdsAt(adds, 0) = {}
    BY <2>1 DEF IdsAt
  <2>4. TextsAt(adds, 0, I) = [d \in I |-> <<>>]
    BY <2>3 DEF TextsAt
  <2>5. it[1..0] = IndexOf(IdsAt(adds, 0), TextsAt(adds, 0, I))
    BY <1>4, <2>2, <2>3, <2>4
  <2>6. 0 \in 0..n
    BY <1>1
  <2> QED BY <2>5, <2>6, Zenon
<1>12. ASSUME NEW k \in 1..n, k - 1 \in T PROVE k \in T
  <2>1. k \in Nat /\ k > 0 /\ 1..k \in SUBSET (1..n) /\ k - 1 \in 0..n
    BY <1>1
  <2>2. Max(1..k) = k /\ (1..k) \ {k} = 1..(k - 1) /\ 1..k # {}
    BY <2>1, TopUpto
  <2>3. it[1..k] = next(it[(1..k) \ {Max(1..k)}], adds[Max(1..k)])
    BY <1>1, <1>9, <2>1, <2>2, Zenon
  <2>4. it[1..k] = next(IndexOf(IdsAt(adds, k - 1), TextsAt(adds, k - 1, I)), adds[k])
    BY <1>12, <2>2, <2>3
  <2>5. IdsAt(adds, k - 1) \in F /\ TextsAt(adds, k - 1, I) \in [I -> Seq(E)]
    BY <1>2, <2>1
  <2> DEFINE other == [TextsAt(adds, k - 1, I) EXCEPT ![adds[k].id] = adds[k].tokens]
  <2>6. it[1..k] = IndexOf(IdsAt(adds, k - 1) \union {adds[k].id}, other)
    BY <1>3, <2>4, <2>5
  <2>7. \A i \in 1..k : adds[i].id \in I
    BY <1>1, <2>1
  <2>8. /\ IdsAt(adds, k) = IdsAt(adds, k - 1) \union {adds[k].id}
        /\ \A d \in IdsAt(adds, k) : TextsAt(adds, k, I)[d] = other[d]
    BY <2>1, <2>7, TextsOn
  <2> HIDE DEF other
  <2>9. IndexOf(IdsAt(adds, k), TextsAt(adds, k, I)) = IndexOf(IdsAt(adds, k), other)
    BY <2>8, SameIndex
  <2>10. it[1..k] = IndexOf(IdsAt(adds, k), TextsAt(adds, k, I))
    BY <2>6, <2>8, <2>9
  <2>11. k \in 0..n
    BY <1>1
  <2> QED BY <2>10, <2>11, Zenon
<1> HIDE DEF T
<1>13. n \in T /\ n \in 0..n
  <2>1. \A k \in 0..n : k \in T
    BY <1>1, <1>11, <1>12, UptoN
  <2> QED BY <2>1, <1>1
<1> QED BY <1>1, <1>2, <1>10, <1>13 DEF T, F, n

(* A query finds the documents that share a term with it. *)
LEMMA MatchingIs ==
  ASSUME NEW ids, NEW text, NEW terms
  PROVE  Matching(IndexOf(ids, text), terms) = {id \in ids : Range(text[id]) \intersect Range(terms) # {}}
<1> DEFINE M == Matching(IndexOf(ids, text), terms)
<1>1. IndexOf(ids, text).postings = PostingsOf(ids, text)
  BY DEF IndexOf
<1>2. M = {p.doc : p \in {q \in PostingsOf(ids, text) : q.term \in Range(terms)}}
  BY <1>1 DEF Matching
<1> HIDE DEF M
<1>3. ASSUME NEW d \in M PROVE d \in ids /\ Range(text[d]) \intersect Range(terms) # {}
  <2>1. PICK p \in PostingsOf(ids, text) : p.term \in Range(terms) /\ p.doc = d
    BY <1>2
  <2>2. PICK x \in ids : \E t \in Range(text[x]) : p = [term |-> t, doc |-> x, count |-> Frequency(text[x], t)]
    BY DEF PostingsOf
  <2>3. PICK t \in Range(text[x]) : p = [term |-> t, doc |-> x, count |-> Frequency(text[x], t)]
    BY <2>2
  <2>4. p.doc = x /\ p.term = t
    BY <2>3
  <2> QED BY <2>1, <2>4
<1>4. ASSUME NEW d \in ids, Range(text[d]) \intersect Range(terms) # {} PROVE d \in M
  <2>1. PICK t \in Range(text[d]) : t \in Range(terms)
    BY <1>4
  <2> DEFINE p == [term |-> t, doc |-> d, count |-> Frequency(text[d], t)]
  <2>2. p \in PostingsOf(ids, text)
    BY DEF PostingsOf
  <2>3. p.term = t /\ p.doc = d
    OBVIOUS
  <2> HIDE DEF p
  <2> QED BY <1>2, <2>1, <2>2, <2>3
<1> QED BY <1>3, <1>4 DEF M

(* A posting counts a term of a document's text. *)
LEMMA PostingCounts ==
  ASSUME NEW ids, NEW text, NEW p \in PostingsOf(ids, text)
  PROVE  p.doc \in ids /\ p.count = Frequency(text[p.doc], p.term)
<1>1. PICK x \in ids : \E t \in Range(text[x]) : p = [term |-> t, doc |-> x, count |-> Frequency(text[x], t)]
  BY DEF PostingsOf
<1>2. PICK t \in Range(text[x]) : p = [term |-> t, doc |-> x, count |-> Frequency(text[x], t)]
  BY <1>1
<1>3. p.doc = x /\ p.term = t /\ p.count = Frequency(text[x], t)
  BY <1>2
<1> QED BY <1>3

(* What is left of a query is of it, and is all of it or none of it idle. *)
LEMMA CleanRight ==
  ASSUME NEW query, IsList(query), query # <<>>, NEW idle
  PROVE  LET terms == CleanQuery(query, idle)
         IN  /\ terms # <<>> /\ Range(terms) \subseteq Range(query)
             /\ Range(terms) \intersect idle # {} => terms = query
<1> DEFINE I == {i \in DOMAIN query : query[i] \notin idle /\ \A j \in 1..(i - 1) : query[j] # query[i]}
           kept == Picked(query, I)
           terms == CleanQuery(query, idle)
<1>1. DOMAIN query = 1..Len(query)
  BY ListIs
<1>2. I \in SUBSET (1..Len(query))
  BY <1>1
<1>3. Range(kept) = {query[i] : i \in I}
  <2> HIDE DEF I
  <2> QED BY <1>2, PickedRight
<1>4. terms = IF kept = <<>> THEN query ELSE kept
  BY DEF CleanQuery
<1> HIDE DEF kept, terms
<1>5. Range(kept) \subseteq Range(query) /\ Range(kept) \intersect idle = {}
  BY <1>3 DEF Range
<1>6. terms # <<>> /\ Range(terms) \subseteq Range(query) /\ (Range(terms) \intersect idle # {} => terms = query)
  BY <1>4, <1>5
<1> QED BY <1>6 DEF terms

(* Short lists are lists. *)
LEMMA ShortLists ==
  ASSUME NEW x, NEW y
  PROVE  IsList(<<x>>) /\ IsList(<<y, x, y>>) /\ <<x>> # <<>> /\ <<y, x, y>> # <<>>
<1> DEFINE W == {x, y}
<1>1. <<x>> \in Seq(W) /\ <<y, x, y>> \in Seq(W)
  <2>1. x \in W /\ y \in W
    OBVIOUS
  <2> HIDE DEF W
  <2> QED BY <2>1
<1>2. <<x>> # <<>> /\ <<y, x, y>> # <<>>
  OBVIOUS
<1> QED BY <1>1, <1>2 DEF IsList

(* IndexSound for every list of additions. *)
THEOREM IndexRight ==
  ASSUME NEW I, NEW E, NEW adds \in Seq([id : I, tokens : Seq(E)])
  PROVE  IndexSound(adds)
<1> DEFINE n == Len(adds)
           ids == {a.id : a \in Range(adds)}
           text == TextsAt(adds, n, I)
           last(id) == adds[CHOOSE i \in DOMAIN adds : adds[i].id = id /\
                              \A j \in DOMAIN adds : adds[j].id = id => j <= i].tokens
           idx == Indexed(adds)
<1>1. n \in Nat /\ DOMAIN adds = 1..n
  OBVIOUS
<1>2. IdsAt(adds, n) \in SUBSET I /\ idx = IndexOf(IdsAt(adds, n), text)
  BY IndexedIs
<1>3. ids = IdsAt(adds, n)
  <2>1. \A a : a \in Range(adds) <=> \E i \in 1..n : a = adds[i]
    BY <1>1 DEF Range
  <2> HIDE DEF n
  <2> QED BY <2>1 DEF IdsAt
<1>4. ASSUME NEW id \in ids PROVE last(id) = text[id]
  <2>1. id \in I /\ id \in IdsAt(adds, n)
    BY <1>2, <1>3
  <2> HIDE DEF n, ids
  <2> QED BY <2>1, <1>1 DEF TextsAt, LastAt
<1> HIDE DEF n, ids, text, idx, last
<1>5. idx = IndexOf(ids, text)
  BY <1>2, <1>3
<1>6. /\ idx.numDocs = Cardinality(ids) /\ idx.total = Cardinality(TokenPlaces(ids, text))
      /\ idx.postings = PostingsOf(ids, text)
  BY <1>5 DEF IndexOf
<1>7. UNION {{id} \X DOMAIN last(id) : id \in ids} = TokenPlaces(ids, text)
  BY <1>4 DEF TokenPlaces
<1>8. ASSUME NEW terms
      PROVE  Matching(idx, terms) = {id \in ids : Range(last(id)) \intersect Range(terms) # {}}
  <2>1. Matching(idx, terms) = {id \in ids : Range(text[id]) \intersect Range(terms) # {}}
    BY <1>5, MatchingIs
  <2> QED BY <2>1, <1>4
<1>9. \A p \in idx.postings : p.count = Frequency(last(p.doc), p.term)
  BY <1>4, <1>6, PostingCounts
<1>10. ASSUME NEW query \in {<<"x">>, <<"y", "x", "y">>}, NEW idle
       PROVE  LET terms == CleanQuery(query, idle)
              IN  /\ terms # <<>> /\ (Range(terms) \intersect idle # {} => terms = query)
                  /\ Matching(idx, terms) \subseteq Matching(idx, query)
  <2> DEFINE terms == CleanQuery(query, idle)
  <2>1. IsList(query) /\ query # <<>>
    <3>1. query = <<"x">> \/ query = <<"y", "x", "y">>
      OBVIOUS
    <3> QED BY <3>1, ShortLists
  <2>2. terms # <<>> /\ Range(terms) \subseteq Range(query) /\ (Range(terms) \intersect idle # {} => terms = query)
    BY <2>1, CleanRight
  <2> HIDE DEF terms
  <2>3. Matching(idx, terms) \subseteq Matching(idx, query)
    BY <1>8, <2>2
  <2> QED BY <2>2, <2>3 DEF terms
<1> QED BY <1>6, <1>7, <1>8, <1>9, <1>10 DEF IndexSound, ids, idx, last

-----------------------------------------------------------------------------
(* Snippets: SnippetSound for every list of scored sentences. *)

\* A fold over a set, member by member.
Some(s) == CHOOSE x \in s : TRUE

IsSetFold(it, S, base, step) ==
    \A s \in SUBSET S : it[s] = IF s = {} THEN base ELSE step[<<Some(s), it[s \ {Some(s)}]>>]

(* A set that is not empty, without the member chosen, is smaller. *)
LEMMA SomeLess ==
  ASSUME NEW S, IsFiniteSet(S), NEW s \in SUBSET S, s # {}
  PROVE  /\ Some(s) \in s /\ s \ {Some(s)} \in SUBSET S
         /\ Cardinality(s) \in Nat /\ Cardinality(s \ {Some(s)}) = Cardinality(s) - 1
         /\ Cardinality(s) >= 1
<1>1. Some(s) \in s
  BY DEF Some
<1>2. IsFiniteSet(s) /\ Cardinality(s) \in Nat
  BY FS_Subset, FS_CardinalityType
<1>3. Cardinality(s) # 0
  BY <1>2, FS_EmptySet
<1>4. Cardinality(s \ {Some(s)}) = Cardinality(s) - 1
  BY <1>1, <1>2, FS_RemoveElement
<1>5. s \ {Some(s)} \in SUBSET S
  OBVIOUS
<1> DEFINE c == Cardinality(s)
<1>6. c \in Nat /\ c # 0
  BY <1>2, <1>3
<1> HIDE DEF c
<1>7. c >= 1
  BY <1>6
<1> QED BY <1>1, <1>2, <1>4, <1>5, <1>7 DEF c

(* A fold over a finite set is defined. *)
LEMMA SetFold ==
  ASSUME NEW S, IsFiniteSet(S), NEW A, NEW base \in A, NEW step \in [S \X A -> A]
  PROVE  \E it \in [SUBSET S -> A] : IsSetFold(it, S, base, step)
<1> DEFINE n == Cardinality(S)
           Small(k) == {s \in SUBSET S : Cardinality(s) <= k}
           Holds(it, k) == \A s \in Small(k) : it[s] = IF s = {} THEN base ELSE step[<<Some(s), it[s \ {Some(s)}]>>]
           T == {k \in 0..n : \E it \in [Small(k) -> A] : Holds(it, k)}
<1>1. n \in Nat /\ \A s \in SUBSET S : Cardinality(s) \in Nat /\ Cardinality(s) <= n /\ (s = {} <=> Cardinality(s) = 0)
  <2>1. n \in Nat
    BY FS_CardinalityType
  <2>2. \A s \in SUBSET S : IsFiniteSet(s) /\ Cardinality(s) <= n
    BY FS_Subset
  <2> HIDE DEF n
  <2> QED BY <2>1, <2>2, FS_CardinalityType, FS_EmptySet
<1> HIDE DEF n
<1>2. 0 \in T
  <2> DEFINE it == [s \in Small(0) |-> base]
  <2>1. \A s \in Small(0) : s = {}
    BY <1>1
  <2>2. it \in [Small(0) -> A] /\ Holds(it, 0)
    BY <2>1
  <2>3. 0 \in 0..n
    BY <1>1
  <2> HIDE DEF it, Holds, Small
  <2> QED BY <2>2, <2>3
<1>3. ASSUME NEW k \in 1..n, k - 1 \in T PROVE k \in T
  <2>1. PICK g \in [Small(k - 1) -> A] : Holds(g, k - 1)
    BY <1>3
  <2> DEFINE it == [s \in Small(k) |-> IF s \in Small(k - 1) THEN g[s] ELSE step[<<Some(s), g[s \ {Some(s)}]>>]]
  <2>2. \A s \in Small(k) : s # {} => s \ {Some(s)} \in Small(k - 1) /\ Some(s) \in S
    <3> TAKE s \in Small(k)
    <3> HAVE s # {}
    <3>1. s \in SUBSET S /\ Cardinality(s) <= k
      OBVIOUS
    <3>2. Some(s) \in s /\ s \ {Some(s)} \in SUBSET S /\ Cardinality(s) \in Nat
          /\ Cardinality(s \ {Some(s)}) = Cardinality(s) - 1
      BY <3>1, SomeLess
    <3>3. Cardinality(s \ {Some(s)}) <= k - 1
      BY <1>1, <3>1, <3>2
    <3> QED BY <3>1, <3>2, <3>3
  <2>3. \A s \in Small(k - 1) : s \in Small(k)
    BY <1>1
  <2>4. \A s \in Small(k) : s \notin Small(k - 1) => s # {}
    BY <1>1
  <2> HIDE DEF Small
  <2>5. it \in [Small(k) -> A]
    BY <2>2, <2>4
  <2>6. ASSUME NEW s \in Small(k), s # {}
        PROVE  it[s] = step[<<Some(s), it[s \ {Some(s)}]>>]
    <3>1. s \ {Some(s)} \in Small(k - 1) /\ it[s \ {Some(s)}] = g[s \ {Some(s)}]
      BY <2>2, <2>3, <2>6
    <3>2. s \in Small(k - 1) => it[s] = g[s] /\ g[s] = step[<<Some(s), g[s \ {Some(s)}]>>]
      BY <2>1, <2>6
    <3>3. s \notin Small(k - 1) => it[s] = step[<<Some(s), g[s \ {Some(s)}]>>]
      OBVIOUS
    <3> HIDE DEF it
    <3> QED BY <3>1, <3>2, <3>3
  <2>7. ASSUME NEW s \in Small(k), s = {} PROVE it[s] = base
    <3>1. s \in Small(k - 1)
      BY <2>4, <2>7
    <3> QED BY <2>1, <2>7, <3>1
  <2> HIDE DEF it
  <2>8. Holds(it, k)
    BY <2>6, <2>7
  <2>9. k \in 0..n
    BY <1>1
  <2> HIDE DEF Holds
  <2> QED BY <2>5, <2>8, <2>9
<1> HIDE DEF T
<1>4. n \in T
  <2>1. \A k \in 0..n : k \in T
    BY <1>1, <1>2, <1>3, UptoN
  <2> QED BY <2>1, <1>1
<1>5. Small(n) = SUBSET S
  BY <1>1
<1> QED BY <1>4, <1>5 DEF T, IsSetFold

\* Sentences as they are scored.
Scored(sents) ==
    IsList(sents) /\ \A i \in DOMAIN sents : {sents[i].start, sents[i].end, sents[i].score} \subseteq Int

(* The groups are finitely many pairs of places. *)
LEMMA GroupIs ==
  ASSUME NEW sents, Scored(sents)
  PROVE  /\ Len(sents) \in Nat /\ DOMAIN sents = 1..Len(sents) /\ IsFiniteSet(Groups(sents))
         /\ Selected(sents) \subseteq 1..Len(sents)
         /\ \A g \in Groups(sents) : /\ g = <<g[1], g[2]>> /\ g[1] \in 1..Len(sents) /\ g[2] \in 1..Len(sents)
                                     /\ g[1] <= g[2] /\ g[1]..g[2] \subseteq Selected(sents)
                                     /\ g[1] - 1 \notin Selected(sents) /\ g[2] + 1 \notin Selected(sents)
<1>1. Len(sents) \in Nat /\ DOMAIN sents = 1..Len(sents)
  BY ListIs DEF Scored
<1>2. IsFiniteSet(DOMAIN sents)
  BY <1>1, FS_Interval
<1>3. IsFiniteSet((DOMAIN sents) \X (DOMAIN sents))
  BY <1>2, FS_Product
<1>4. Groups(sents) \in SUBSET ((DOMAIN sents) \X (DOMAIN sents))
  BY DEF Groups
<1>5. IsFiniteSet(Groups(sents))
  BY <1>3, <1>4, FS_Subset
<1>6. Selected(sents) \subseteq 1..Len(sents)
  BY <1>1 DEF Selected
<1>7. ASSUME NEW g \in Groups(sents)
      PROVE  /\ g = <<g[1], g[2]>> /\ g[1] \in DOMAIN sents /\ g[2] \in DOMAIN sents
             /\ g[1] <= g[2] /\ g[1]..g[2] \subseteq Selected(sents)
             /\ g[1] - 1 \notin Selected(sents) /\ g[2] + 1 \notin Selected(sents)
  BY DEF Groups
<1> QED BY <1>1, <1>5, <1>6, <1>7

(* Two groups are apart. *)
LEMMA GroupsApart ==
  ASSUME NEW sents, Scored(sents), NEW g \in Groups(sents), NEW h \in Groups(sents), g # h
  PROVE  g[2] + 1 < h[1] \/ h[2] + 1 < g[1]
<1> DEFINE S == Selected(sents)
           a == g[1]
           b == g[2]
           c == h[1]
           e == h[2]
<1>1. /\ g = <<a, b>> /\ h = <<c, e>> /\ {a, b, c, e} \subseteq Nat /\ a <= b /\ c <= e
      /\ (a..b) \subseteq S /\ (c..e) \subseteq S
      /\ a - 1 \notin S /\ b + 1 \notin S /\ c - 1 \notin S /\ e + 1 \notin S
  BY GroupIs
<1> HIDE DEF S, a, b, c, e
<1> SUFFICES ASSUME b + 1 >= c, e + 1 >= a PROVE FALSE
  BY <1>1 DEF a, b, c, e
<1>2. a \in Nat /\ b \in Nat /\ c \in Nat /\ e \in Nat
  BY <1>1
<1>3. ~(a < c)
  <2> SUFFICES ASSUME a < c PROVE FALSE
    OBVIOUS
  <2>1. c - 1 \in a..b
    BY <1>2
  <2> QED BY <2>1, <1>1
<1>4. ~(c < a)
  <2> SUFFICES ASSUME c < a PROVE FALSE
    OBVIOUS
  <2>1. a - 1 \in c..e
    BY <1>2
  <2> QED BY <2>1, <1>1
<1>5. a = c
  BY <1>2, <1>3, <1>4
<1>6. ~(b < e)
  <2> SUFFICES ASSUME b < e PROVE FALSE
    OBVIOUS
  <2>1. b + 1 \in c..e
    BY <1>1, <1>2, <1>5
  <2> QED BY <2>1, <1>1
<1>7. ~(e < b)
  <2> SUFFICES ASSUME e < b PROVE FALSE
    OBVIOUS
  <2>1. e + 1 \in a..b
    BY <1>1, <1>2, <1>5
  <2> QED BY <2>1, <1>1
<1>8. b = e
  BY <1>2, <1>6, <1>7
<1> QED BY <1>1, <1>5, <1>8

(* Every selected sentence is in a group. *)
LEMMA InAGroup ==
  ASSUME NEW sents, Scored(sents), NEW i \in Selected(sents)
  PROVE  \E g \in Groups(sents) : i \in g[1]..g[2]
<1> DEFINE S == Selected(sents)
           n == Len(sents)
           L == {a \in 1..n : a <= i /\ (a..i) \subseteq S}
           H == {b \in 1..n : i <= b /\ (i..b) \subseteq S}
<1>1. n \in Nat /\ DOMAIN sents = 1..n /\ S \subseteq 1..n
  BY GroupIs
<1> HIDE DEF n, S
<1>2. i \in 1..n /\ i \in S
  BY <1>1 DEF S
<1>3. i..i = {i}
  BY <1>2
<1>4. L \in SUBSET Nat /\ i \in L /\ H \in SUBSET (1..n) /\ i \in H
  BY <1>1, <1>2, <1>3
<1>5. PICK a \in L : \A x \in L : a <= x
  <2>1. L \in SUBSET Nat /\ L # {}
    BY <1>4
  <2> HIDE DEF L
  <2> QED BY <2>1, Least
<1>6. PICK b \in H : \A x \in H : x <= b
  <2>1. H \in SUBSET (1..n) /\ H # {}
    BY <1>4
  <2> HIDE DEF H
  <2> QED BY <1>1, <2>1, TopIn
<1>7. a \in 1..n /\ b \in 1..n /\ a <= i /\ i <= b /\ (a..b) \subseteq S
  <2>1. a \in 1..n /\ b \in 1..n /\ a <= i /\ i <= b /\ (a..i) \subseteq S /\ (i..b) \subseteq S
    BY <1>5, <1>6
  <2>2. \A x \in a..b : x \in a..i \/ x \in i..b
    BY <1>2, <2>1
  <2> QED BY <2>1, <2>2
<1>8. a - 1 \notin S
  <2> SUFFICES ASSUME a - 1 \in S PROVE FALSE
    OBVIOUS
  <2>1. a - 1 \in 1..n /\ a - 1 <= i
    BY <1>1, <1>2, <1>7
  <2>2. \A x \in (a - 1)..i : x = a - 1 \/ x \in a..i
    BY <1>2, <1>7
  <2>3. (a..i) \subseteq S
    BY <1>5
  <2>4. a - 1 \in L
    BY <2>1, <2>2, <2>3
  <2>5. a <= a - 1
    BY <1>5, <2>4
  <2> QED BY <2>5, <1>7
<1>9. b + 1 \notin S
  <2> SUFFICES ASSUME b + 1 \in S PROVE FALSE
    OBVIOUS
  <2>1. b + 1 \in 1..n /\ i <= b + 1
    BY <1>1, <1>2, <1>7
  <2>2. \A x \in i..(b + 1) : x = b + 1 \/ x \in i..b
    BY <1>2, <1>7
  <2>3. (i..b) \subseteq S
    BY <1>6
  <2>4. b + 1 \in H
    BY <2>1, <2>2, <2>3
  <2>5. b + 1 <= b
    BY <1>6, <2>4
  <2> QED BY <2>5, <1>7
<1> DEFINE g == <<a, b>>
<1>10. g[1] = a /\ g[2] = b /\ g \in (1..n) \X (1..n)
  BY <1>7
<1>11. a <= b
  BY <1>2, <1>7
<1> HIDE DEF g, L, H
<1>12. g \in Groups(sents) /\ i \in g[1]..g[2]
  BY <1>1, <1>2, <1>7, <1>8, <1>9, <1>10, <1>11 DEF Groups, S
<1> QED BY <1>12

(* The score of a group is the best of its sentences. *)
LEMMA GroupScoreIs ==
  ASSUME NEW sents, Scored(sents), NEW g \in Groups(sents)
  PROVE  /\ GroupScore(sents, g) \in Int
         /\ \E i \in g[1]..g[2] : sents[i].score = GroupScore(sents, g)
         /\ \A i \in g[1]..g[2] : i \in DOMAIN sents /\ sents[i].score <= GroupScore(sents, g)
<1> DEFINE W == g[1]..g[2]
           X == {sents[i].score : i \in W}
           f == [i \in W |-> sents[i].score]
<1>1. /\ g[1] \in 1..Len(sents) /\ g[2] \in 1..Len(sents) /\ g[1] <= g[2] /\ Len(sents) \in Nat
      /\ DOMAIN sents = 1..Len(sents)
  BY GroupIs
<1>2. W \subseteq DOMAIN sents /\ W # {}
  <2>1. g[1] \in W
    BY <1>1
  <2> QED BY <1>1, <2>1
<1>3. IsFiniteSet(W)
  <2>1. \A a, b \in Int : IsFiniteSet(a..b)
    BY FS_Interval
  <2>2. g[1] \in Int /\ g[2] \in Int
    BY <1>1
  <2> QED BY <2>1, <2>2, Zenon
<1> HIDE DEF W
<1>4. X \in SUBSET Int /\ X # {}
  BY <1>2 DEF Scored
<1>5. IsFiniteSet(X)
  <2>1. f \in Surjection(W, X)
    BY DEF Surjection
  <2> HIDE DEF f, X
  <2> QED BY <1>3, <2>1, FS_Surjection
<1>6. \E x \in X : \A y \in X : y <= x
  <2> HIDE DEF X
  <2> QED BY <1>4, <1>5, Largest
<1>7. GroupScore(sents, g) \in X /\ \A y \in X : y <= GroupScore(sents, g)
  <2>1. GroupScore(sents, g) = CHOOSE x \in X : \A y \in X : y <= x
    BY DEF GroupScore, W
  <2> HIDE DEF X
  <2> QED BY <1>6, <2>1
<1>8. \E i \in W : sents[i].score = GroupScore(sents, g)
  BY <1>7
<1>9. \A i \in W : sents[i].score <= GroupScore(sents, g)
  BY <1>7
<1> QED BY <1>2, <1>4, <1>7, <1>8, <1>9 DEF W

\* The groups, the better first.
ByScore(sents) == {x \in Groups(sents) \X Groups(sents) : Before(sents, x[1], x[2])}

(* Of two groups one is the better. *)
LEMMA GroupsOrdered ==
  ASSUME NEW sents, Scored(sents)
  PROVE  /\ StrictTotal(Groups(sents), ByScore(sents))
         /\ \A g, h \in Groups(sents) : <<g, h>> \in ByScore(sents) <=> Before(sents, g, h)
<1> DEFINE G == Groups(sents)
           L == ByScore(sents)
           W == [g \in G |-> GroupScore(sents, g)]
<1>1. \A g, h \in G : <<g, h>> \in L <=> Before(sents, g, h)
  BY DEF ByScore
<1>2. \A g \in G : W[g] \in Int /\ g[1] \in Int /\ g[2] \in Int /\ g[1] <= g[2]
  BY GroupScoreIs, GroupIs
<1>3. \A g, h \in G : g[1] = h[1] => g = h
  <2> TAKE g \in G, h \in G
  <2>1. g # h => g[2] + 1 < h[1] \/ h[2] + 1 < g[1]
    BY GroupsApart
  <2> QED BY <2>1, <1>2
<1>4. \A g, h \in G : Before(sents, g, h) <=> (W[g] > W[h] \/ (W[g] = W[h] /\ g[1] < h[1]))
  BY DEF Before
<1> HIDE DEF L, G, W
<1>5. ASSUME NEW a \in G PROVE <<a, a>> \notin L
  BY <1>1, <1>2, <1>4
<1>6. ASSUME NEW a \in G, NEW b \in G PROVE a = b \/ <<a, b>> \in L \/ <<b, a>> \in L
  BY <1>1, <1>2, <1>3, <1>4
<1>7. ASSUME NEW a \in G, NEW b \in G, NEW c \in G, <<a, b>> \in L, <<b, c>> \in L PROVE <<a, c>> \in L
  <2>1. Before(sents, a, b) /\ Before(sents, b, c)
    BY <1>1, <1>7
  <2>2. W[a] > W[c] \/ (W[a] = W[c] /\ a[1] < c[1])
    BY <2>1, <1>2, <1>4
  <2> QED BY <2>2, <1>1, <1>4
<1> QED BY <1>1, <1>5, <1>6, <1>7 DEF StrictTotal, G, L

(* The best groups: as many as asked for, or all there are, and the best. *)
LEMMA BestAre ==
  ASSUME NEW sents, Scored(sents), NEW n \in Nat
  PROVE  LET best == BestGroups(sents, n)
         IN  /\ best \in SUBSET Groups(sents) /\ IsFiniteSet(best) /\ Cardinality(best) \in Nat
             /\ Cardinality(Groups(sents)) \in Nat
             /\ Cardinality(best) <= n
             /\ n <= Cardinality(Groups(sents)) => Cardinality(best) = n
             /\ Cardinality(Groups(sents)) <= n => best = Groups(sents)
             /\ n > 0 /\ Groups(sents) # {} =>
                  \E g \in best : \A h \in Groups(sents) : h = g \/ Before(sents, g, h)
<1> DEFINE G == Groups(sents)
           L == ByScore(sents)
           r == Rank(G, L)
           best == BestGroups(sents, n)
<1>1. IsFiniteSet(G) /\ StrictTotal(G, L) /\ \A g, h \in G : <<g, h>> \in L <=> Before(sents, g, h)
  BY GroupIs, GroupsOrdered
<1>2. Cardinality(G) \in Nat
  BY <1>1, FS_CardinalityType
<1>3. best = {x \in G : r[x] < n}
  <2>1. ASSUME NEW g \in G PROVE Cardinality({h \in G : Before(sents, h, g)}) = r[g]
    <3>1. {h \in G : Before(sents, h, g)} = BeforeIn(G, L, g)
      BY <1>1 DEF BeforeIn
    <3> HIDE DEF L, G
    <3> QED BY <3>1 DEF Rank
  <2> HIDE DEF r
  <2> QED BY <2>1 DEF BestGroups
<1> HIDE DEF G, L
<1>4. /\ IsFiniteSet(best) /\ Cardinality(best) <= n
      /\ n <= Cardinality(G) => Cardinality(best) = n
  BY <1>1, <1>3, FirstRanks
<1>5. best \in SUBSET G /\ Cardinality(best) \in Nat
  BY <1>3, <1>4, FS_CardinalityType
<1>6. ASSUME Cardinality(G) <= n PROVE best = G
  <2>1. r \in Bijection(G, 0..(Cardinality(G) - 1))
    BY <1>1, Ranks
  <2>2. \A x \in G : r[x] \in 0..(Cardinality(G) - 1)
    BY <2>1 DEF Bijection, Injection
  <2> HIDE DEF r
  <2>3. \A x \in G : r[x] < n
    BY <1>2, <1>6, <2>2
  <2> QED BY <1>3, <2>3
<1>7. ASSUME n > 0, G # {} PROVE \E g \in best : \A h \in G : h = g \/ Before(sents, g, h)
  <2>1. PICK x \in G : r[x] = 0 /\ \A y \in G : y = x \/ <<x, y>> \in L
    BY <1>1, <1>7, FirstOne
  <2> HIDE DEF r
  <2>2. x \in best
    BY <1>3, <1>7, <2>1
  <2> QED BY <1>1, <2>1, <2>2
<1> HIDE DEF best
<1> QED BY <1>2, <1>4, <1>5, <1>6, <1>7 DEF G, best

(* The width of a snippet is a number. *)
LEMMA WidthIs ==
  ASSUME NEW sents, Scored(sents), NEW S \in SUBSET Groups(sents)
  PROVE  SnippetWidth(sents, S) \in Int
<1> DEFINE next(g, sum) == sum + 3 + sents[g[2]].end - sents[g[1]].start
           step == [x \in S \X Int |-> next(x[1], x[2])]
           it == CHOOSE it : it = [s \in SUBSET S |-> IF s = {} THEN 0
                                                      ELSE LET x == CHOOSE x \in s : TRUE IN next(x, it[s \ {x}])]
           n == Cardinality(S)
<1>1. IsFiniteSet(S)
  BY GroupIs, FS_Subset
<1>2. ASSUME NEW g \in S, NEW w \in Int PROVE next(g, w) \in Int
  <2>1. g[1] \in DOMAIN sents /\ g[2] \in DOMAIN sents
    BY GroupIs
  <2>2. sents[g[1]].start \in Int /\ sents[g[2]].end \in Int
    BY <2>1 DEF Scored
  <2> QED BY <2>2
<1> HIDE DEF next
<1>3. step \in [S \X Int -> Int]
  <2>1. \A x \in S \X Int : next(x[1], x[2]) \in Int
    BY <1>2
  <2> QED BY <2>1
<1> HIDE DEF step
<1>4. PICK f \in [SUBSET S -> Int] : IsSetFold(f, S, 0, step)
  <2>1. 0 \in Int
    OBVIOUS
  <2> QED BY <1>1, <1>3, <2>1, SetFold
<1>5. f = [s \in SUBSET S |-> IF s = {} THEN 0 ELSE LET x == CHOOSE x \in s : TRUE IN next(x, f[s \ {x}])]
  <2>1. ASSUME NEW s \in SUBSET S, s # {}
        PROVE  step[<<Some(s), f[s \ {Some(s)}]>>] = next(Some(s), f[s \ {Some(s)}])
    <3>1. Some(s) \in S /\ f[s \ {Some(s)}] \in Int
      BY <2>1, <1>1, <1>4, SomeLess
    <3> QED BY <3>1 DEF step
  <2>2. ASSUME NEW s \in SUBSET S
        PROVE  f[s] = IF s = {} THEN 0 ELSE LET x == CHOOSE x \in s : TRUE IN next(x, f[s \ {x}])
    BY <1>4, <2>1 DEF IsSetFold, Some
  <2> QED BY <1>4, <2>2
<1>6. it = [s \in SUBSET S |-> IF s = {} THEN 0 ELSE LET x == CHOOSE x \in s : TRUE IN next(x, it[s \ {x}])]
  BY <1>5
<1>7. SnippetWidth(sents, S) = it[S]
  BY DEF SnippetWidth, FoldSet, MapThenFoldSet, next
<1> HIDE DEF it
<1>8. \A s \in SUBSET S : it[s] = IF s = {} THEN 0 ELSE next(Some(s), it[s \ {Some(s)}])
  BY <1>6 DEF Some
<1> DEFINE T == {k \in 0..n : \A s \in SUBSET S : Cardinality(s) <= k => it[s] \in Int}
<1>9. n \in Nat /\ \A s \in SUBSET S : Cardinality(s) \in Nat /\ Cardinality(s) <= n /\ (s = {} <=> Cardinality(s) = 0)
  <2>1. n \in Nat
    BY <1>1, FS_CardinalityType
  <2>2. \A s \in SUBSET S : IsFiniteSet(s) /\ Cardinality(s) <= n
    BY <1>1, FS_Subset
  <2> HIDE DEF n
  <2> QED BY <2>1, <2>2, FS_CardinalityType, FS_EmptySet
<1> HIDE DEF n
<1>10. 0 \in T
  <2>1. \A s \in SUBSET S : Cardinality(s) <= 0 => it[s] = 0
    <3> TAKE s \in SUBSET S
    <3> HAVE Cardinality(s) <= 0
    <3>1. s = {}
      BY <1>9
    <3> QED BY <1>8, <3>1, Zenon
  <2>2. 0 \in 0..n /\ 0 \in Int
    BY <1>9
  <2> QED BY <2>1, <2>2
<1>11. ASSUME NEW k \in 1..n, k - 1 \in T PROVE k \in T
  <2>1. ASSUME NEW s \in SUBSET S, Cardinality(s) <= k PROVE it[s] \in Int
    <3>1. CASE s = {}
      <4>1. it[s] = 0
        BY <1>8, <3>1, Zenon
      <4>2. 0 \in Int
        OBVIOUS
      <4> QED BY <4>1, <4>2
    <3>2. CASE s # {}
      <4>1. /\ Some(s) \in s /\ s \ {Some(s)} \in SUBSET S /\ Cardinality(s) \in Nat
            /\ Cardinality(s \ {Some(s)}) = Cardinality(s) - 1
        BY <1>1, <3>2, SomeLess
      <4>2. Cardinality(s \ {Some(s)}) <= k - 1
        BY <4>1, <2>1, <1>9
      <4>3. it[s \ {Some(s)}] \in Int
        BY <4>1, <4>2, <1>11
      <4>4. it[s] = next(Some(s), it[s \ {Some(s)}])
        BY <1>8, <3>2, Zenon
      <4> QED BY <1>2, <4>1, <4>3, <4>4
    <3> QED BY <3>1, <3>2
  <2>2. k \in 0..n
    BY <1>9
  <2> QED BY <2>1, <2>2
<1> HIDE DEF T
<1>12. n \in T
  <2>1. \A k \in 0..n : k \in T
    BY <1>9, <1>10, <1>11, UptoN
  <2> QED BY <2>1, <1>9
<1>13. it[S] \in Int
  <2>1. Cardinality(S) <= n
    BY <1>9
  <2> QED BY <1>12, <2>1 DEF T
<1> QED BY <1>7, <1>13

(* SnippetSound for every list of sentences and every budget. *)
THEOREM SnippetRight ==
  ASSUME NEW sents, Scored(sents), NEW budget \in Int
  PROVE  SnippetSound(sents, budget)
<1> DEFINE G == Groups(sents)
           three == BestGroups(sents, 3)
           two == BestGroups(sents, 2)
           kept == IF SnippetWidth(sents, three) > budget THEN two ELSE three
           shown == multiSpanSnippet(sents, budget)
           top == {i \in DOMAIN sents : \A j \in DOMAIN sents : sents[j].score <= sents[i].score}
           c == Cardinality(G)
           Best(g) == \A h \in G : h = g \/ Before(sents, g, h)
<1>1. /\ c \in Nat
      /\ \A k \in {2, 3} : /\ BestGroups(sents, k) \in SUBSET G /\ Cardinality(BestGroups(sents, k)) \in Nat
                           /\ Cardinality(BestGroups(sents, k)) <= k
                           /\ k <= c => Cardinality(BestGroups(sents, k)) = k
                           /\ c <= k => BestGroups(sents, k) = G
                           /\ G # {} => \E g \in BestGroups(sents, k) : Best(g)
  <2>1. ASSUME NEW k \in {2, 3}
        PROVE  /\ c \in Nat /\ BestGroups(sents, k) \in SUBSET G /\ Cardinality(BestGroups(sents, k)) \in Nat
               /\ Cardinality(BestGroups(sents, k)) <= k
               /\ k <= c => Cardinality(BestGroups(sents, k)) = k
               /\ c <= k => BestGroups(sents, k) = G
               /\ G # {} => \E g \in BestGroups(sents, k) : Best(g)
    <3>1. k \in Nat /\ k > 0
      OBVIOUS
    <3> QED BY <3>1, BestAre
  <2> HIDE DEF c, G, Best
  <2> QED BY <2>1
<1>2. shown = IF c < 2 \/ SnippetWidth(sents, kept) > budget THEN {} ELSE kept
  BY DEF multiSpanSnippet
<1>3. SnippetWidth(sents, two) \in Int /\ SnippetWidth(sents, three) \in Int
  <2>1. two \in SUBSET G /\ three \in SUBSET G
    BY <1>1
  <2> QED BY <2>1, WidthIs
<1> HIDE DEF shown
<1>4. ASSUME c >= 2 PROVE Cardinality(two) = 2 /\ Cardinality(three) \in 2..3 /\ G # {}
  <2>1. Cardinality(two) = 2
    BY <1>1, <1>4
  <2>2. Cardinality(three) \in 2..3
    <3>1. CASE c >= 3
      BY <1>1, <3>1
    <3>2. CASE ~(c >= 3)
      <4>1. c = 2 /\ c <= 3
        BY <1>1, <1>4, <3>2
      <4>2. three = G
        BY <1>1, <4>1
      <4>3. Cardinality(three) = 2
        BY <4>1, <4>2
      <4> HIDE DEF three
      <4> QED BY <4>3
    <3> QED BY <3>1, <3>2
  <2>3. G # {}
    BY <1>4, FS_EmptySet
  <2> QED BY <2>1, <2>2, <2>3
<1>5. ASSUME shown = {} PROVE c < 2 \/ SnippetWidth(sents, two) > budget
  <2> SUFFICES ASSUME ~(c < 2) PROVE SnippetWidth(sents, two) > budget
    OBVIOUS
  <2>1. c >= 2
    BY <1>1
  <2>2. Cardinality(two) # 0 /\ Cardinality(three) # 0
    BY <1>4, <2>1
  <2>3. two # {} /\ three # {}
    BY <2>2, FS_EmptySet
  <2>4. kept # {}
    BY <2>3
  <2> DEFINE a == SnippetWidth(sents, two)
             b == SnippetWidth(sents, three)
  <2>5. SnippetWidth(sents, kept) > budget
    BY <1>2, <1>5, <2>4, <2>1
  <2>6. ~(b > budget) => SnippetWidth(sents, kept) = b
    OBVIOUS
  <2>7. b > budget
    BY <2>5, <2>6
  <2>8. kept = two
    BY <2>7
  <2> QED BY <2>5, <2>8
<1>6. ASSUME shown # {}
      PROVE  /\ Cardinality(shown) \in 2..3 /\ SnippetWidth(sents, shown) <= budget
             /\ \A g, h \in shown : g # h => (g[2] + 1 < h[1] \/ h[2] + 1 < g[1])
             /\ \E i \in top : i \in Focus(sents, shown)[1]..Focus(sents, shown)[2]
  <2>1. ~(c < 2) /\ shown = kept /\ ~(SnippetWidth(sents, kept) > budget)
    BY <1>2, <1>6
  <2>2. c >= 2
    BY <1>1, <2>1
  <2>3. Cardinality(two) = 2 /\ Cardinality(three) \in 2..3 /\ G # {}
    BY <1>4, <2>2
  <2>4. shown \in SUBSET G /\ \E g \in shown : Best(g)
    <3>1. two \in SUBSET G /\ three \in SUBSET G /\ (\E g \in two : Best(g)) /\ (\E g \in three : Best(g))
      BY <1>1, <2>3
    <3> HIDE DEF two, three, G, Best
    <3> QED BY <2>1, <3>1
  <2>5. Cardinality(shown) \in 2..3
    <3> HIDE DEF two, three
    <3> QED BY <2>1, <2>3
  <2>6. SnippetWidth(sents, shown) <= budget
    <3> DEFINE w == SnippetWidth(sents, shown)
    <3>1. w \in Int /\ ~(w > budget)
      BY <2>1, <2>4, WidthIs
    <3> HIDE DEF w
    <3>2. w <= budget
      BY <3>1
    <3> QED BY <3>2 DEF w
  <2>7. \A g, h \in shown : g # h => (g[2] + 1 < h[1] \/ h[2] + 1 < g[1])
    BY <2>4, GroupsApart
  <2>8. PICK g \in shown : Best(g)
    BY <2>4
  <2>9. /\ \A x, y \in G : <<x, y>> \in ByScore(sents) <=> Before(sents, x, y)
        /\ StrictTotal(G, ByScore(sents))
    BY GroupsOrdered
  <2>10. Focus(sents, shown) = g
    <3>1. \A x \in shown : (\A h \in shown : h = x \/ Before(sents, x, h)) => x = g
      <4> TAKE x \in shown
      <4> HAVE \A h \in shown : h = x \/ Before(sents, x, h)
      <4>1. g = x \/ (Before(sents, x, g) /\ Before(sents, g, x))
        BY <2>4, <2>8
      <4>2. ~(Before(sents, x, g) /\ Before(sents, g, x))
        <5>1. x \in G /\ g \in G
          BY <2>4
        <5> HIDE DEF G
        <5> QED BY <2>9, <5>1 DEF StrictTotal
      <4> QED BY <4>1, <4>2
    <3>2. \A h \in shown : h = g \/ Before(sents, g, h)
      BY <2>4, <2>8
    <3> QED BY <3>1, <3>2 DEF Focus
  <2>11. g \in G /\ GroupScore(sents, g) \in Int
    BY <2>4, GroupScoreIs
  <2>12. PICK i \in g[1]..g[2] : i \in DOMAIN sents /\ sents[i].score = GroupScore(sents, g)
    BY <2>11, GroupScoreIs
  <2>13. ASSUME NEW j \in DOMAIN sents PROVE sents[j].score <= sents[i].score
    <3>1. sents[j].score \in Int /\ sents[i].score \in Int
      BY <2>12 DEF Scored
    <3>2. i \in Selected(sents)
      BY <2>11, <2>12, GroupIs
    <3>3. sents[i].score >= 50
      BY <3>2 DEF Selected
    <3>4. CASE j \notin Selected(sents)
      <4>1. ~(sents[j].score >= 50)
        BY <3>4 DEF Selected
      <4> QED BY <3>1, <3>3, <4>1
    <3>5. CASE j \in Selected(sents)
      <4>1. PICK h \in G : j \in h[1]..h[2]
        BY <3>5, InAGroup
      <4>2. sents[j].score <= GroupScore(sents, h) /\ GroupScore(sents, h) \in Int
        BY <4>1, GroupScoreIs
      <4>3. h = g \/ Before(sents, g, h)
        BY <2>8
      <4>4. GroupScore(sents, h) <= GroupScore(sents, g)
        BY <2>11, <4>2, <4>3 DEF Before
      <4> DEFINE a == GroupScore(sents, h)
                 b == GroupScore(sents, g)
      <4>5. sents[j].score <= a /\ a <= b /\ b = sents[i].score /\ a \in Int
        BY <2>12, <4>2, <4>4
      <4> HIDE DEF a, b
      <4> QED BY <3>1, <4>5
    <3> QED BY <3>4, <3>5
  <2>14. i \in top
    BY <2>12, <2>13
  <2> HIDE DEF top
  <2> QED BY <2>5, <2>6, <2>7, <2>10, <2>12, <2>14
<1> HIDE DEF two, c
<1> QED BY <1>5, <1>6 DEF SnippetSound, shown, two, c

-----------------------------------------------------------------------------
(* Fusion: FusionSound for every three arms. *)

\* den can be divided by k plus each of the first N ranks.
CommonDenominator(k, N, den) ==
    k \in Nat /\ N \in Nat /\ den \in Nat \ {0} /\ \A r \in 1..N : (den % (k + r)) = 0

(* A lower rank is worth less, and each is worth something. *)
LEMMA SharesFall ==
  ASSUME NEW k, NEW N, NEW den, CommonDenominator(k, N, den)
  PROVE  /\ \A r \in 1..N : (den \div (k + r)) \in Nat /\ (den \div (k + r)) > 0
         /\ \A r, t \in 1..N : r < t => (den \div (k + r)) > (den \div (k + t))
<1>1. k \in Nat /\ N \in Nat /\ den \in Nat /\ den > 0
  BY DEF CommonDenominator
<1>2. ASSUME NEW r \in 1..N
      PROVE  /\ k + r \in Nat /\ k + r > 0 /\ (den \div (k + r)) \in Nat
             /\ den = (k + r) * (den \div (k + r)) /\ (den \div (k + r)) > 0
  <2> DEFINE d == k + r
             q == den \div d
  <2>1. d \in Nat /\ d > 0 /\ (den % d) = 0
    BY <1>1 DEF CommonDenominator
  <2> HIDE DEF d
  <2>2. q \in Nat /\ den = d * q + (den % d)
    BY <1>1, <2>1
  <2> HIDE DEF q
  <2>3. den = d * q
    BY <1>1, <2>1, <2>2
  <2>4. q = 0 => d * q = 0
    BY <2>1
  <2>5. q > 0
    BY <1>1, <2>2, <2>3, <2>4
  <2> QED BY <2>1, <2>2, <2>3, <2>5 DEF d, q
<1>3. ASSUME NEW r \in 1..N, NEW t \in 1..N, r < t PROVE (den \div (k + r)) > (den \div (k + t))
  <2> DEFINE a == k + r
             b == k + t
             x == den \div a
             y == den \div b
  <2>1. /\ a \in Nat /\ b \in Nat /\ x \in Nat /\ y \in Nat /\ y > 0
        /\ den = a * x /\ den = b * y
    BY <1>2
  <2>2. a < b
    BY <1>1, <1>3
  <2> HIDE DEF a, b, x, y
  <2> SUFFICES ASSUME ~(x > y) PROVE FALSE
    BY DEF a, b, x, y
  <2>3. x <= y
    BY <2>1
  <2>4. a * x <= a * y
    BY <2>1, <2>3
  <2>5. b - a > 0 /\ (b - a) * y > 0 /\ b * y = a * y + (b - a) * y /\ a * y \in Int /\ (b - a) * y \in Int
    BY <2>1, <2>2
  <2> QED BY <2>1, <2>4, <2>5
<1> QED BY <1>2, <1>3

(* What an arm gives to a chunk. *)
LEMMA ContributionIs ==
  ASSUME NEW k, NEW N, NEW den, CommonDenominator(k, N, den), NEW arm, IsList(arm), Len(arm) <= N
  PROVE  /\ \A c : Contribution(arm, c, k, den) \in Nat
         /\ \A c : Contribution(arm, c, k, den) > 0 <=> c \in Ranked(arm)
         /\ \A c \in Ranked(arm) : RankOf(arm, c) \in DOMAIN arm /\ arm[RankOf(arm, c)] = c
         /\ \A c, e \in Ranked(arm) : RankOf(arm, c) < RankOf(arm, e) =>
              Contribution(arm, c, k, den) > Contribution(arm, e, k, den)
<1>1. Len(arm) \in Nat /\ DOMAIN arm = 1..Len(arm) /\ N \in Nat
  BY ListIs DEF CommonDenominator
<1>2. ASSUME NEW c \in Ranked(arm)
      PROVE  RankOf(arm, c) \in DOMAIN arm /\ arm[RankOf(arm, c)] = c /\ RankOf(arm, c) \in 1..N
  <2>1. \E i \in DOMAIN arm : arm[i] = c
    BY DEF Ranked, Range
  <2>2. RankOf(arm, c) \in DOMAIN arm /\ arm[RankOf(arm, c)] = c
    BY <2>1 DEF RankOf
  <2> DEFINE r == RankOf(arm, c)
  <2>3. r \in 1..Len(arm)
    BY <1>1, <2>2
  <2> HIDE DEF r
  <2>4. r \in 1..N
    BY <1>1, <2>3
  <2> QED BY <2>2, <2>4 DEF r
<1>3. ASSUME NEW c \in Ranked(arm)
      PROVE  /\ Contribution(arm, c, k, den) = den \div (k + RankOf(arm, c))
             /\ Contribution(arm, c, k, den) \in Nat /\ Contribution(arm, c, k, den) > 0
  <2>1. Contribution(arm, c, k, den) = den \div (k + RankOf(arm, c))
    BY DEF Contribution
  <2> DEFINE r == RankOf(arm, c)
  <2>2. r \in 1..N
    BY <1>2
  <2> HIDE DEF r
  <2>3. (den \div (k + r)) \in Nat /\ (den \div (k + r)) > 0
    BY <2>2, SharesFall
  <2> QED BY <2>1, <2>3 DEF r
<1>4. ASSUME NEW c, c \notin Ranked(arm) PROVE Contribution(arm, c, k, den) = 0
  BY <1>4 DEF Contribution
<1>5. ASSUME NEW c \in Ranked(arm), NEW e \in Ranked(arm), RankOf(arm, c) < RankOf(arm, e)
      PROVE  Contribution(arm, c, k, den) > Contribution(arm, e, k, den)
  <2> DEFINE r == RankOf(arm, c)
             t == RankOf(arm, e)
  <2>1. r \in 1..N /\ t \in 1..N /\ r < t
    BY <1>2, <1>5
  <2> HIDE DEF r, t
  <2>2. (den \div (k + r)) > (den \div (k + t))
    BY <2>1, SharesFall
  <2> QED BY <2>2, <1>3 DEF r, t
<1>6. \A c : Contribution(arm, c, k, den) \in Nat /\ (Contribution(arm, c, k, den) > 0 <=> c \in Ranked(arm))
  <2> TAKE c
  <2>1. CASE c \in Ranked(arm)
    BY <1>3, <2>1
  <2>2. CASE c \notin Ranked(arm)
    <3>1. Contribution(arm, c, k, den) = 0
      BY <1>4, <2>2
    <3> HIDE DEF Contribution
    <3> QED BY <2>2, <3>1
  <2> QED BY <2>1, <2>2
<1> QED BY <1>2, <1>5, <1>6

(* The results in some order: each of them once, and no better one later. *)
LEMMA OrdersAre ==
  ASSUME NEW R, IsFiniteSet(R), \A r \in R : Score(r) \in Int, NEW s \in Orders(R)
  PROVE  /\ IsList(s) /\ Len(s) \in Nat /\ Len(s) = Cardinality(R) /\ DOMAIN s = 1..Len(s)
         /\ Range(s) = R
         /\ \A i, j \in DOMAIN s : i # j => s[i] # s[j]
         /\ \A i, j \in DOMAIN s : i < j => Score(s[i]) >= Score(s[j])
<1> DEFINE n == Cardinality(R)
<1>1. n \in Nat
  BY FS_CardinalityType
<1>2. /\ s \in [1..n -> R] /\ (\A i, j \in DOMAIN s : i # j => s[i] # s[j])
      /\ \A i \in 1..(n - 1) : Score(s[i]) >= Score(s[i + 1])
  BY DEF Orders
<1> HIDE DEF n
<1>3. s \in Seq(R) /\ Len(s) = n /\ DOMAIN s = 1..n
  BY <1>1, <1>2
<1>4. Range(s) = R
  <2>1. IsFiniteSet(1..n) /\ Cardinality(1..n) = n
    BY <1>1, FS_Interval
  <2>2. s \in Injection(1..n, R)
    BY <1>2, <1>3 DEF Injection, IsInjective
  <2>3. s \in Surjection(1..n, R)
    BY <2>1, <2>2, FS_Injection DEF n
  <2> QED BY <2>3, <1>3 DEF Surjection, Range
<1>5. ASSUME NEW i \in 1..n, NEW j \in 1..n, i < j PROVE Score(s[i]) >= Score(s[j])
  <2> DEFINE T == {d \in 0..(n - i) : Score(s[i]) >= Score(s[i + d])}
  <2>1. n - i \in Nat
    BY <1>1
  <2>2. 0 \in T
    <3>1. i + 0 = i /\ Score(s[i]) \in Int
      BY <1>2
    <3>2. Score(s[i]) >= Score(s[i + 0])
      BY <3>1
    <3> QED BY <2>1, <3>2
  <2>3. ASSUME NEW d \in 1..(n - i), d - 1 \in T PROVE d \in T
    <3>1. i + d - 1 \in 1..(n - 1) /\ i + d - 1 = i + (d - 1) /\ (i + d - 1) + 1 = i + d
          /\ i + d - 1 \in 1..n /\ i + d \in 1..n
      BY <1>1
    <3> DEFINE p == i + d - 1
               a == Score(s[i])
               b == Score(s[p])
               c == Score(s[i + d])
    <3>2. a >= b
      BY <2>3, <3>1
    <3>3. b >= c
      BY <1>2, <3>1
    <3>4. a \in Int /\ b \in Int /\ c \in Int
      BY <1>2, <3>1
    <3> HIDE DEF a, b, c
    <3>5. a >= c
      BY <3>2, <3>3, <3>4
    <3>6. d \in 0..(n - i)
      BY <2>1
    <3> QED BY <3>5, <3>6 DEF a, c
  <2> HIDE DEF T
  <2>4. \A d \in 0..(n - i) : d \in T
    BY <2>1, <2>2, <2>3, UptoN
  <2>5. j - i \in 0..(n - i) /\ i + (j - i) = j
    BY <1>1, <1>5
  <2>6. j - i \in T
    BY <2>4, <2>5
  <2> QED BY <2>5, <2>6 DEF T
<1> QED BY <1>1, <1>2, <1>3, <1>4, <1>5 DEF IsList, n

\* What the arms found: at most N of each.
ArmsFound(arms, N) ==
    /\ IsList(arms.bm25) /\ Len(arms.bm25) <= N
    /\ IsList(arms.vec) /\ Len(arms.vec) <= N
    /\ \E C, S : arms.passage \in Seq([chunk : C, span : S])
    /\ Len(arms.passage) <= N

\* The first passage of each chunk that is one of passages.
BestOf(passages, p) ==
    \E i \in DOMAIN passages : passages[i] = p /\ \A j \in 1..(i - 1) : passages[j].chunk # p.chunk

(* Rolled up, the passages are the first of each chunk. *)
LEMMA RollUpIs ==
  ASSUME NEW passages, IsList(passages)
  PROVE  /\ IsList(RollUp(passages)) /\ Len(RollUp(passages)) <= Len(passages)
         /\ \A p \in DOMAIN RollUp(passages) : BestOf(passages, RollUp(passages)[p])
<1> DEFINE I == {i \in DOMAIN passages : \A j \in 1..(i - 1) : passages[j].chunk # passages[i].chunk}
           n == Len(passages)
<1>1. n \in Nat /\ DOMAIN passages = 1..n
  BY ListIs
<1>2. I \in SUBSET (1..n) /\ RollUp(passages) = Picked(passages, I)
  BY <1>1 DEF RollUp
<1>3. \A i \in I : i \in DOMAIN passages /\ \A j \in 1..(i - 1) : passages[j].chunk # passages[i].chunk
  OBVIOUS
<1> HIDE DEF I
<1>4. Cardinality(I) \in Nat /\ Cardinality(I) <= n
  BY <1>1, <1>2, PlacesFinite
<1>5. /\ Picked(passages, I) \in Seq(Range(passages)) /\ Len(Picked(passages, I)) = Cardinality(I)
      /\ \A q \in 1..Cardinality(I) : Nth(I, q) \in I /\ Picked(passages, I)[q] = passages[Nth(I, q)]
  BY <1>2, PickedRight
<1>6. IsList(RollUp(passages)) /\ Len(RollUp(passages)) = Cardinality(I)
  BY <1>2, <1>5 DEF IsList
<1>7. DOMAIN RollUp(passages) = 1..Cardinality(I)
  BY <1>6, ListIs
<1>8. ASSUME NEW p \in DOMAIN RollUp(passages) PROVE BestOf(passages, RollUp(passages)[p])
  <2>1. Nth(I, p) \in I /\ RollUp(passages)[p] = passages[Nth(I, p)]
    BY <1>2, <1>5, <1>7
  <2> QED BY <2>1, <1>3 DEF BestOf
<1> QED BY <1>4, <1>6, <1>8

(* The arms a search draws from. *)
LEMMA ArmsAre ==
  ASSUME NEW arms, NEW N \in Nat, ArmsFound(arms, N), NEW m, NEW embedder
  PROVE  LET used == ArmsOf(arms, m, embedder)
             rolled == Chunks(used.passage)
         IN  /\ IsList(used.bm25) /\ Len(used.bm25) <= N
             /\ IsList(used.vec) /\ Len(used.vec) <= N
             /\ IsList(rolled) /\ Len(rolled) <= N
             /\ DOMAIN rolled = DOMAIN used.passage
             /\ \A p \in DOMAIN rolled : /\ rolled[p] = used.passage[p].chunk
                                         /\ BestOf(arms.passage, used.passage[p])
<1> DEFINE used == ArmsOf(arms, m, embedder)
           rolled == Chunks(used.passage)
           passage == used.passage
<1>1. /\ used.bm25 = <<>> \/ used.bm25 = arms.bm25
      /\ passage = <<>> \/ passage = RollUp(arms.passage)
      /\ used.vec = <<>> \/ used.vec = arms.vec
  BY DEF ArmsOf
<1> HIDE DEF used
<1>2. IsList(<<>>) /\ Len(<<>>) = 0 /\ DOMAIN <<>> = {}
  <2>1. <<>> \in Seq({})
    OBVIOUS
  <2> QED BY <2>1 DEF IsList
<1>3. IsList(used.bm25) /\ Len(used.bm25) <= N /\ IsList(used.vec) /\ Len(used.vec) <= N
  BY <1>1, <1>2 DEF ArmsFound
<1>4. IsList(arms.passage) /\ Len(arms.passage) <= N /\ Len(arms.passage) \in Nat
  <2>1. IsList(arms.passage) /\ Len(arms.passage) <= N
    BY DEF ArmsFound, IsList
  <2> QED BY <2>1, ListIs
<1> DEFINE up == RollUp(arms.passage)
<1>5. IsList(up) /\ Len(up) <= N /\ \A p \in DOMAIN up : BestOf(arms.passage, up[p])
  <2>1. IsList(up) /\ Len(up) <= Len(arms.passage) /\ \A p \in DOMAIN up : BestOf(arms.passage, up[p])
    BY <1>4, RollUpIs
  <2>2. Len(up) \in Nat
    BY <2>1, ListIs
  <2> DEFINE a == Len(up)
             b == Len(arms.passage)
  <2>3. a <= b /\ b <= N /\ a \in Nat /\ b \in Nat
    BY <2>1, <2>2, <1>4
  <2> HIDE DEF a, b
  <2>4. a <= N
    BY <2>3
  <2> QED BY <2>1, <2>4 DEF a
<1> HIDE DEF up
<1>6. IsList(passage) /\ Len(passage) <= N /\ \A p \in DOMAIN passage : BestOf(arms.passage, passage[p])
  <2>1. passage = <<>> \/ passage = up
    BY <1>1 DEF up
  <2> HIDE DEF passage
  <2> QED BY <1>2, <1>5, <2>1
<1> HIDE DEF passage
<1>7. rolled = [i \in DOMAIN passage |-> passage[i].chunk]
  BY DEF Chunks, passage
<1>8. Len(passage) \in Nat /\ DOMAIN passage = 1..Len(passage)
  BY <1>6, ListIs
<1> HIDE DEF rolled
<1>9. IsList(rolled) /\ Len(rolled) = Len(passage)
  <2> DEFINE n == Len(passage)
             X == {passage[i].chunk : i \in DOMAIN passage}
  <2>1. rolled \in [1..n -> X] /\ n \in Nat
    BY <1>7, <1>8
  <2> HIDE DEF n, X
  <2>2. rolled \in Seq(X)
    BY <2>1, ListOf
  <2>3. Len(rolled) = n
    BY <2>1, <2>2
  <2> QED BY <2>2, <2>3 DEF IsList, n
<1>10. DOMAIN rolled = DOMAIN passage /\ \A p \in DOMAIN rolled : rolled[p] = passage[p].chunk
  BY <1>7
<1> QED BY <1>3, <1>6, <1>9, <1>10 DEF used, rolled, passage

\* The chunks some arm ranks.
FoundIn(used) == Ranked(used.bm25) \union Ranked(Chunks(used.passage)) \union Ranked(used.vec)

\* The result for a chunk.
ResultFor(used, k, den, c) ==
    [chunk |-> c,
     bm |-> Contribution(used.bm25, c, k, den) + Contribution(Chunks(used.passage), c, k, den),
     vc |-> Contribution(used.vec, c, k, den),
     passage |-> IF c \in Ranked(Chunks(used.passage))
                 THEN used.passage[RankOf(Chunks(used.passage), c)].span ELSE 0]

(* A search results in one result for each chunk some arm ranks. *)
LEMMA FusedAre ==
  ASSUME NEW used, NEW k, NEW den
  PROVE  fuseArms(used, k, den) = {ResultFor(used, k, den, c) : c \in FoundIn(used)}
BY DEF fuseArms, ResultFor, FoundIn

(* A list ranks finitely many chunks. *)
LEMMA RankedFinite ==
  ASSUME NEW arm, IsList(arm)
  PROVE  IsFiniteSet(Ranked(arm))
<1>1. DOMAIN arm = 1..Len(arm) /\ Len(arm) \in Nat
  BY ListIs
<1>2. IsFiniteSet(DOMAIN arm)
  BY <1>1, FS_Interval
<1>3. arm \in Surjection(DOMAIN arm, Ranked(arm))
  <2>1. arm = [i \in DOMAIN arm |-> arm[i]]
    <3>1. arm \in [1..Len(arm) -> Range(arm)]
      BY ListIs
    <3> QED BY <3>1, <1>1
  <2>2. \A i \in DOMAIN arm : arm[i] \in Ranked(arm)
    BY DEF Ranked, Range
  <2>3. \A c \in Ranked(arm) : \E i \in DOMAIN arm : arm[i] = c
    BY DEF Ranked, Range
  <2> QED BY <2>1, <2>2, <2>3 DEF Surjection
<1> QED BY <1>2, <1>3, FS_Surjection

\* Some arm ranks chunk e lower than c, or not at all.
Fairly(used, c, e) ==
    \E arm \in {used.bm25, Chunks(used.passage), used.vec} :
       \/ c \in Ranked(arm) /\ e \notin Ranked(arm)
       \/ {c, e} \subseteq Ranked(arm) /\ RankOf(arm, c) < RankOf(arm, e)

(* A chunk scores as high as another only if some arm ranks the other lower. *)
LEMMA ScoresAreFair ==
  ASSUME NEW k, NEW N, NEW den, CommonDenominator(k, N, den), NEW used,
         IsList(used.bm25), Len(used.bm25) <= N, IsList(used.vec), Len(used.vec) <= N,
         IsList(Chunks(used.passage)), Len(Chunks(used.passage)) <= N,
         NEW c \in FoundIn(used), NEW e \in FoundIn(used), c # e,
         Score(ResultFor(used, k, den, c)) >= Score(ResultFor(used, k, den, e))
  PROVE  Fairly(used, c, e)
<1> DEFINE rolled == Chunks(used.passage)
           Of(arm, x) == Contribution(arm, x, k, den)
<1>1. ASSUME NEW arm, IsList(arm), Len(arm) <= N,
             ~(c \in Ranked(arm) /\ e \notin Ranked(arm)),
             ~({c, e} \subseteq Ranked(arm) /\ RankOf(arm, c) < RankOf(arm, e))
      PROVE  /\ Of(arm, c) \in Nat /\ Of(arm, e) \in Nat /\ Of(arm, c) <= Of(arm, e)
             /\ c \in Ranked(arm) => Of(arm, c) < Of(arm, e)
  <2>1. /\ Of(arm, c) \in Nat /\ Of(arm, e) \in Nat
        /\ Of(arm, c) > 0 <=> c \in Ranked(arm)
    BY <1>1, ContributionIs
  <2>2. CASE c \notin Ranked(arm)
    <3> HIDE DEF Of
    <3> QED BY <2>1, <2>2
  <2>3. CASE c \in Ranked(arm)
    <3>1. e \in Ranked(arm)
      BY <1>1, <2>3
    <3>2. /\ RankOf(arm, c) \in DOMAIN arm /\ arm[RankOf(arm, c)] = c
          /\ RankOf(arm, e) \in DOMAIN arm /\ arm[RankOf(arm, e)] = e
      BY <1>1, <2>3, <3>1, ContributionIs
    <3>3. DOMAIN arm = 1..Len(arm) /\ Len(arm) \in Nat
      BY <1>1, ListIs
    <3>4. ~(RankOf(arm, c) < RankOf(arm, e)) /\ RankOf(arm, c) # RankOf(arm, e)
      BY <1>1, <2>3, <3>1, <3>2
    <3> DEFINE a == RankOf(arm, c)
               b == RankOf(arm, e)
    <3>5. a \in Nat /\ b \in Nat /\ ~(a < b) /\ a # b
      BY <3>2, <3>3, <3>4
    <3> HIDE DEF a, b
    <3>6. b < a
      BY <3>5
    <3>7. Of(arm, e) > Of(arm, c)
      BY <1>1, <2>3, <3>1, <3>6, ContributionIs DEF a, b
    <3> HIDE DEF Of
    <3> QED BY <2>1, <3>7
  <2> QED BY <2>2, <2>3
<1> HIDE DEF Of
<1> SUFFICES ASSUME ~Fairly(used, c, e) PROVE FALSE
  OBVIOUS
<1>2. \A arm \in {used.bm25, rolled, used.vec} :
        /\ ~(c \in Ranked(arm) /\ e \notin Ranked(arm))
        /\ ~({c, e} \subseteq Ranked(arm) /\ RankOf(arm, c) < RankOf(arm, e))
  BY DEF Fairly
<1>3. \A arm \in {used.bm25, rolled, used.vec} :
        /\ Of(arm, c) \in Nat /\ Of(arm, e) \in Nat /\ Of(arm, c) <= Of(arm, e)
        /\ c \in Ranked(arm) => Of(arm, c) < Of(arm, e)
  BY <1>1, <1>2
<1> DEFINE a1 == Of(used.bm25, c)
           a2 == Of(rolled, c)
           a3 == Of(used.vec, c)
           b1 == Of(used.bm25, e)
           b2 == Of(rolled, e)
           b3 == Of(used.vec, e)
<1>4. /\ a1 \in Nat /\ a2 \in Nat /\ a3 \in Nat /\ b1 \in Nat /\ b2 \in Nat /\ b3 \in Nat
      /\ a1 <= b1 /\ a2 <= b2 /\ a3 <= b3
      /\ a1 < b1 \/ a2 < b2 \/ a3 < b3
  <2>1. c \in Ranked(used.bm25) \/ c \in Ranked(rolled) \/ c \in Ranked(used.vec)
    BY DEF FoundIn
  <2> QED BY <1>3, <2>1
<1>5. Score(ResultFor(used, k, den, c)) = (a1 + a2) + a3 /\ Score(ResultFor(used, k, den, e)) = (b1 + b2) + b3
  <2> DEFINE r == ResultFor(used, k, den, c)
             q == ResultFor(used, k, den, e)
             z(x) == IF x \in Ranked(rolled) THEN used.passage[RankOf(rolled, x)].span ELSE 0
  <2>1. /\ r = [chunk |-> c, bm |-> a1 + a2, vc |-> a3, passage |-> z(c)]
        /\ q = [chunk |-> e, bm |-> b1 + b2, vc |-> b3, passage |-> z(e)]
    BY DEF ResultFor, Of
  <2> HIDE DEF r, q, z, a1, a2, a3, b1, b2, b3
  <2>2. r.bm = a1 + a2 /\ r.vc = a3 /\ q.bm = b1 + b2 /\ q.vc = b3
    BY <2>1
  <2>3. Score(r) = (a1 + a2) + a3 /\ Score(q) = (b1 + b2) + b3
    BY <2>1, <2>2 DEF Score
  <2> QED BY <2>3, Zenon DEF r, q
<1> HIDE DEF a1, a2, a3, b1, b2, b3
<1>6. (b1 + b2) + b3 > (a1 + a2) + a3
  BY <1>4
<1> QED BY <1>4, <1>5, <1>6

(* The label of a result names the arms that found it. *)
LEMMA LabelIs ==
  ASSUME NEW k, NEW N, NEW den, CommonDenominator(k, N, den), NEW used,
         IsList(used.bm25), Len(used.bm25) <= N, IsList(used.vec), Len(used.vec) <= N,
         IsList(Chunks(used.passage)), Len(Chunks(used.passage)) <= N, NEW c \in FoundIn(used)
  PROVE  LET r == ResultFor(used, k, den, c)
             Keyword == Ranked(used.bm25) \union Ranked(Chunks(used.passage))
         IN  /\ r.bm \in Nat /\ r.vc \in Nat
             /\ MatchKind(r) = (IF r.chunk \notin Keyword THEN "semantic"
                                ELSE IF r.chunk \in Ranked(used.vec) THEN "hybrid"
                                ELSE "keyword")
<1> DEFINE rolled == Chunks(used.passage)
           r == ResultFor(used, k, den, c)
           a == Contribution(used.bm25, c, k, den)
           b == Contribution(rolled, c, k, den)
           v == Contribution(used.vec, c, k, den)
<1>1. /\ a \in Nat /\ b \in Nat /\ v \in Nat
      /\ a > 0 <=> c \in Ranked(used.bm25)
      /\ b > 0 <=> c \in Ranked(rolled)
      /\ v > 0 <=> c \in Ranked(used.vec)
  BY ContributionIs
<1>2. r.bm = a + b /\ r.vc = v /\ r.chunk = c
  <2> DEFINE z == IF c \in Ranked(rolled) THEN used.passage[RankOf(rolled, c)].span ELSE 0
  <2>1. r = [chunk |-> c, bm |-> a + b, vc |-> v, passage |-> z]
    BY DEF ResultFor
  <2> HIDE DEF a, b, v, r, z
  <2> QED BY <2>1
<1>3. c \in Ranked(used.bm25) \/ c \in Ranked(rolled) \/ c \in Ranked(used.vec)
  BY DEF FoundIn
<1> HIDE DEF a, b, v, r, rolled
<1>4. (a + b > 0) <=> (a > 0 \/ b > 0)
  BY <1>1
<1>5. (r.bm > 0 <=> (c \in Ranked(used.bm25) \/ c \in Ranked(rolled))) /\ (r.vc > 0 <=> c \in Ranked(used.vec))
  BY <1>1, <1>2, <1>4
<1>6. r.bm \in Nat /\ r.vc \in Nat
  BY <1>1, <1>2
<1> QED BY <1>2, <1>3, <1>5, <1>6 DEF MatchKind, r, rolled

(* FusionSound for every three arms and every mode, when the denominator *)
(* keeps the ranks apart as the fractions of the code do. *)
THEOREM FusionRight ==
  ASSUME NEW arms, NEW k, NEW N, NEW den, CommonDenominator(k, N, den), ArmsFound(arms, N), NEW m, NEW embedder
  PROVE  FusionSound(arms, m, embedder, k, den)
<1> DEFINE used == ArmsOf(arms, m, embedder)
           rolled == Chunks(used.passage)
           Keyword == Ranked(used.bm25) \union Ranked(rolled)
           all == FoundIn(used)
           R == fuseArms(used, k, den)
           Of(c) == ResultFor(used, k, den, c)
<1>1. /\ IsList(used.bm25) /\ Len(used.bm25) <= N
      /\ IsList(used.vec) /\ Len(used.vec) <= N
      /\ IsList(rolled) /\ Len(rolled) <= N
      /\ DOMAIN rolled = DOMAIN used.passage
      /\ \A p \in DOMAIN rolled : /\ rolled[p] = used.passage[p].chunk
                                  /\ BestOf(arms.passage, used.passage[p])
  <2>1. N \in Nat
    BY DEF CommonDenominator
  <2> QED BY <2>1, ArmsAre
<1>2. SearchMode(arms, m, embedder, 0, k, den) = Orders(R)
  BY DEF SearchMode
<1>3. R = {Of(c) : c \in all} /\ \A c : Of(c).chunk = c
  <2>1. R = {Of(c) : c \in all}
    BY FusedAre, Zenon
  <2>2. \A c : Of(c).chunk = c
    BY DEF ResultFor
  <2> QED BY <2>1, <2>2, Zenon
<1>4. IsFiniteSet(all)
  <2>1. IsFiniteSet(Ranked(used.bm25)) /\ IsFiniteSet(Ranked(rolled)) /\ IsFiniteSet(Ranked(used.vec))
    BY <1>1, RankedFinite
  <2>2. IsFiniteSet(Keyword)
    BY <2>1, FS_Union
  <2>3. IsFiniteSet(Keyword \union Ranked(used.vec))
    BY <2>1, <2>2, FS_Union
  <2> QED BY <2>3 DEF FoundIn
<1>5. \A r \in R : Score(r) \in Int
  <2>1. \A c \in all : Of(c).bm \in Nat /\ Of(c).vc \in Nat
    BY <1>1, LabelIs
  <2> HIDE DEF Of, all, R
  <2> QED BY <1>3, <2>1 DEF Score
<1>6. \A r \in R : MatchKind(r) = (IF r.chunk \notin Keyword THEN "semantic"
                                   ELSE IF r.chunk \in Ranked(used.vec) THEN "hybrid" ELSE "keyword")
  <2>1. \A c \in all : MatchKind(Of(c)) = (IF Of(c).chunk \notin Keyword THEN "semantic"
                                 ELSE IF Of(c).chunk \in Ranked(used.vec) THEN "hybrid" ELSE "keyword")
    BY <1>1, LabelIs
  <2> HIDE DEF Of, all, R
  <2> QED BY <1>3, <2>1
<1>7. ASSUME NEW c \in all, Of(c).passage # 0
      PROVE  \E i \in DOMAIN arms.passage : /\ arms.passage[i] = [chunk |-> c, span |-> Of(c).passage]
                                            /\ \A j \in 1..(i - 1) : arms.passage[j].chunk # c
  <2> DEFINE p == RankOf(rolled, c)
  <2>1. Of(c).passage = IF c \in Ranked(rolled) THEN used.passage[p].span ELSE 0
    BY DEF ResultFor
  <2>2. c \in Ranked(rolled) /\ Of(c).passage = used.passage[p].span
    BY <1>7, <2>1
  <2>3. p \in DOMAIN rolled /\ rolled[p] = c
    BY <1>1, <2>2, ContributionIs
  <2>4. used.passage[p].chunk = c /\ BestOf(arms.passage, used.passage[p])
    BY <1>1, <2>3
  <2> DEFINE q == used.passage[p]
  <2>5. PICK i \in DOMAIN arms.passage : arms.passage[i] = q /\ \A j \in 1..(i - 1) : arms.passage[j].chunk # q.chunk
    BY <2>4 DEF BestOf
  <2>6. q = [chunk |-> q.chunk, span |-> q.span]
    <3>1. PICK C, S : arms.passage \in Seq([chunk : C, span : S])
      BY DEF ArmsFound
    <3>2. q \in [chunk : C, span : S]
      <4> DEFINE D == [chunk : C, span : S]
      <4> HIDE DEF D, q
      <4>1. arms.passage \in Seq(D)
        BY <3>1 DEF D
      <4>2. arms.passage[i] \in D
        BY <4>1, ListIn
      <4> QED BY <2>5, <4>2 DEF D
    <3> HIDE DEF q
    <3> QED BY <3>2
  <2> HIDE DEF Of
  <2>7. q.chunk = c /\ q.span = Of(c).passage
    BY <2>2, <2>4
  <2> HIDE DEF q
  <2> QED BY <2>5, <2>6, <2>7
<1>8. \A r \in R : r.passage # 0 => \E i \in DOMAIN arms.passage :
        /\ arms.passage[i] = [chunk |-> r.chunk, span |-> r.passage]
        /\ \A j \in 1..(i - 1) : arms.passage[j].chunk # r.chunk
  <2>1. \A r \in R : r.chunk \in all /\ r = Of(r.chunk)
    <3> HIDE DEF Of, all, R
    <3> QED BY <1>3
  <2> HIDE DEF Of, all, R
  <2> QED BY <1>7, <2>1
<1>9. IsFiniteSet(R) /\ Cardinality(R) = Cardinality(all)
  <2> DEFINE f == [c \in all |-> Of(c)]
  <2> HIDE DEF Of, all, R
  <2>1. f \in Bijection(all, R)
    BY <1>3 DEF Bijection, Injection, Surjection, IsInjective
  <2> HIDE DEF f
  <2>2. f \in Surjection(all, R) /\ f \in Injection(all, R)
    BY <2>1 DEF Bijection
  <2> QED BY <1>4, <2>2, FS_Surjection
<1>10. ASSUME embedder # "ready", Mode(m) = "hybrid"
       PROVE  SearchMode(arms, "keyword", "ready", 0, k, den) = Orders(R)
  <2>1. ArmsOf(arms, "keyword", "ready") = used
    BY <1>10 DEF ArmsOf, Mode
  <2> HIDE DEF used
  <2> QED BY <2>1 DEF SearchMode
<1>11. ASSUME NEW c \in all, NEW e \in all, c # e, Score(Of(c)) >= Score(Of(e)) PROVE Fairly(used, c, e)
  BY <1>1, <1>11, ScoresAreFair
<1> HIDE DEF Of, all, R, used, rolled, Keyword
<1>12. ASSUME NEW s \in Orders(R)
       PROVE  /\ {r.chunk : r \in Range(s)} = all
              /\ Cardinality({r.chunk : r \in Range(s)}) = Len(s)
              /\ \A i, j \in DOMAIN s : i < j => Fairly(used, s[i].chunk, s[j].chunk)
              /\ \A r \in Range(s) : r \in R
  <2>1. /\ Len(s) = Cardinality(R) /\ Range(s) = R
        /\ \A i, j \in DOMAIN s : i # j => s[i] # s[j]
        /\ \A i, j \in DOMAIN s : i < j => Score(s[i]) >= Score(s[j])
        /\ DOMAIN s = 1..Len(s) /\ Len(s) \in Nat
    BY <1>5, <1>9, OrdersAre
  <2>2. {r.chunk : r \in R} = all
    BY <1>3
  <2>3. ASSUME NEW i \in DOMAIN s, NEW j \in DOMAIN s, i < j PROVE Fairly(used, s[i].chunk, s[j].chunk)
    <3>1. s[i] \in R /\ s[j] \in R
      BY <2>1 DEF Range
    <3>2. s[i].chunk \in all /\ s[j].chunk \in all /\ s[i] = Of(s[i].chunk) /\ s[j] = Of(s[j].chunk)
      BY <1>3, <3>1
    <3>3. s[i] # s[j]
      BY <2>1, <2>3
    <3> QED BY <1>11, <2>1, <2>3, <3>2, <3>3
  <2> QED BY <1>9, <2>1, <2>2, <2>3
<1> DEFINE Sound(s) ==
             /\ {r.chunk : r \in Range(s)} = Keyword \union Ranked(used.vec)
             /\ Cardinality({r.chunk : r \in Range(s)}) = Len(s)
             /\ \A i, j \in DOMAIN s : i < j => Fairly(used, s[i].chunk, s[j].chunk)
             /\ \A r \in Range(s) :
                  /\ MatchKind(r) = (IF r.chunk \notin Keyword THEN "semantic"
                                     ELSE IF r.chunk \in Ranked(used.vec) THEN "hybrid" ELSE "keyword")
                  /\ r.passage # 0 => \E i \in DOMAIN arms.passage :
                       /\ arms.passage[i] = [chunk |-> r.chunk, span |-> r.passage]
                       /\ \A j \in 1..(i - 1) : arms.passage[j].chunk # r.chunk
             /\ (embedder # "ready" /\ Mode(m) = "hybrid") => s \in SearchMode(arms, "keyword", "ready", 0, k, den)
<1>13. ASSUME NEW s \in Orders(R) PROVE Sound(s)
  <2>1. all = Keyword \union Ranked(used.vec)
    BY DEF all, FoundIn, Keyword, rolled
  <2> QED BY <1>6, <1>8, <1>10, <1>12, <2>1
<1> HIDE DEF Sound
<1>14. \A s \in SearchMode(arms, m, embedder, 0, k, den) : Sound(s)
  BY <1>2, <1>13
<1> QED BY <1>14 DEF FusionSound, Sound, Fairly, used, rolled, Keyword

-----------------------------------------------------------------------------
(* What the instance asks about candidates. *)

\* What the instance asks about candidates.
CandidatesAsked ==
    /\ Asked("index") => \E I, E : input \in Seq([id : I, tokens : Seq(E)])
    /\ Asked("fuse") => ArmsFound(input, 3)
    /\ Asked("pages") => IsList(input.ranking)
    /\ Asked("snippet") => Scored(input.sents) /\ input.budget \in Int
    /\ Asked("stable") => \E C, W : input \in Seq(Seq([chunk : C, window : W]))

(* What the instance adds to an index is a list of documents. *)
LEMMA IndexAsked ==
  ASSUME AskIndex
  PROVE  \E I, E : input' \in Seq([id : I, tokens : Seq(E)])
<1> DEFINE E == {"x", "y"}
           T == {<<>>, <<"x">>, <<"y", "x">>, <<"x", "x">>}
           I == {1, 2}
           D == [id : I, tokens : T]
           F == [id : I, tokens : Seq(E)]
<1>1. PICK k \in 0..4 : \E adds \in [1..k -> D] : input' = adds
  BY DEF AskIndex
<1>2. PICK adds \in [1..k -> D] : input' = adds
  BY <1>1
<1>3. T \subseteq Seq(E)
  <2>1. ASSUME NEW x, NEW y PROVE {<<>>, <<x>>, <<y, x>>, <<x, x>>} \subseteq Seq({x, y})
    OBVIOUS
  <2> QED BY <2>1
<1> HIDE DEF T, E
<1>4. D \subseteq F
  BY <1>3
<1>5. k \in Nat
  OBVIOUS
<1> HIDE DEF D, F
<1>6. adds \in Seq(D)
  BY <1>5, ListOf
<1>7. adds \in Seq(F)
  BY <1>4, <1>6
<1> QED BY <1>2, <1>7 DEF F

(* Three short arms without repetitions are arms as FusionRight takes them. *)
LEMMA ArmsAre3 ==
  ASSUME NEW x, x.bm25 \in Arms(3), x.vec \in Arms(3), NEW k \in 0..2, NEW C, NEW S,
         x.passage \in [1..k -> [chunk : C, span : S]]
  PROVE  ArmsFound(x, 3)
<1>1. \A s \in Arms(3) : IsList(s) /\ Len(s) <= 3
  <2> SUFFICES ASSUME NEW s \in Arms(3) PROVE IsList(s) /\ Len(s) <= 3
    OBVIOUS
  <2>1. PICK j \in 0..3 : s \in {t \in [1..j -> 1..3] : Distinct(t)}
    BY DEF Arms
  <2>2. s \in [1..j -> 1..3] /\ j \in Nat
    BY <2>1
  <2>3. IsList(s) /\ DOMAIN s = 1..j
    <3> DEFINE R == 1..3
    <3> HIDE DEF R
    <3>1. s \in [1..j -> R]
      BY <2>2 DEF R
    <3> QED BY <2>2, <3>1, ListFrom
  <2>4. Len(s) = j
    BY <2>2, <2>3, ListIs
  <2> QED BY <2>1, <2>3, <2>4
<1> DEFINE D == [chunk : C, span : S]
           p == x.passage
<1>2. k \in Nat /\ k <= 3
  OBVIOUS
<1>3. p \in [1..k -> D]
  OBVIOUS
<1> HIDE DEF D, p
<1>4. p \in Seq(D) /\ DOMAIN p = 1..k
  BY <1>2, <1>3, ListOf
<1>5. Len(p) <= 3
  BY <1>2, <1>4
<1>6. \E A, B : p \in Seq([chunk : A, span : B])
  BY <1>4 DEF D
<1> QED BY <1>1, <1>5, <1>6 DEF ArmsFound, p

(* What it fuses are such arms. *)
LEMMA FuseAsked ==
  ASSUME AskFuse
  PROVE  ArmsFound(input, 3)'
<1>1. PICK bm25 \in Arms(3), vec \in Arms(3), k \in 0..2,
           mode \in {"hybrid", "keyword", "semantic", ""}, embedder \in {"ready", "failing", "none"} :
        \E passage \in [1..k -> [chunk : 1..3, span : {1, 2}]] :
          /\ Distinct(passage)
          /\ input' = [bm25 |-> bm25, vec |-> vec, passage |-> passage, mode |-> mode,
                       embedder |-> embedder]
  BY Zenon DEF AskFuse
<1>2. PICK passage \in [1..k -> [chunk : 1..3, span : {1, 2}]] :
        input' = [bm25 |-> bm25, vec |-> vec, passage |-> passage, mode |-> mode, embedder |-> embedder]
  BY <1>1, Zenon
<1>3. input'.bm25 = bm25 /\ input'.vec = vec /\ input'.passage = passage
  BY <1>2
<1>4. ArmsFound(input', 3)
  BY <1>3, ArmsAre3, Zenon
<1> QED BY <1>4

(* What it pages is a ranking. *)
LEMMA PagesAsked ==
  ASSUME AskPages
  PROVE  IsList(input.ranking)'
<1>1. PICK n \in 0..6, stored \in SUBSET (1..6), size \in -1..5 :
        input' = [ranking |-> [i \in 1..n |-> [chunk |-> i]], stored |-> stored, size |-> size]
  BY DEF AskPages
<1>2. input'.ranking = [i \in 1..n |-> [chunk |-> i]]
  <2> DEFINE r == [i \in 1..n |-> [chunk |-> i]]
  <2>1. input' = [ranking |-> r, stored |-> stored, size |-> size]
    BY <1>1
  <2> HIDE DEF r
  <2>2. input'.ranking = r
    BY <2>1
  <2> QED BY <2>2 DEF r
<1> DEFINE D == [chunk : Nat]
<1>3. n \in Nat /\ input'.ranking \in [1..n -> D]
  BY <1>2
<1> HIDE DEF D
<1> QED BY <1>3, ListFrom

(* What it shortens are sentences. *)
LEMMA SnippetAsked ==
  ASSUME AskSnippet
  PROVE  (Scored(input.sents) /\ input.budget \in Int)'
<1>1. PICK n \in 0..6 : \E scores \in [1..n -> {0, 50, 100}], budget \in {8, 12, 20} :
        input' = [budget |-> budget,
                  sents |-> [i \in 1..n |-> [start |-> 3 * i, score |-> scores[i],
                                             end |-> 3 * i + (IF i % 3 = 0 THEN 1 ELSE 2)]]]
  BY DEF AskSnippet
<1>2. PICK scores \in [1..n -> {0, 50, 100}], budget \in {8, 12, 20} :
        input' = [budget |-> budget,
                  sents |-> [i \in 1..n |-> [start |-> 3 * i, score |-> scores[i],
                                             end |-> 3 * i + (IF i % 3 = 0 THEN 1 ELSE 2)]]]
  BY <1>1
<1> DEFINE D == [start : Int, score : Int, end : Int]
           sents == [i \in 1..n |-> [start |-> 3 * i, score |-> scores[i],
                                     end |-> 3 * i + (IF i % 3 = 0 THEN 1 ELSE 2)]]
<1>3. n \in Nat /\ budget \in Int
  OBVIOUS
<1>4. sents \in [1..n -> D]
  <2>1. ASSUME NEW i \in 1..n PROVE scores[i] \in Int
    OBVIOUS
  <2>2. ASSUME NEW i \in 1..n
        PROVE  [start |-> 3 * i, score |-> scores[i], end |-> 3 * i + (IF i % 3 = 0 THEN 1 ELSE 2)] \in D
    BY <2>1
  <2> HIDE DEF D
  <2> QED BY <2>2
<1>5. input'.sents = sents /\ input'.budget = budget
  BY <1>2
<1> HIDE DEF sents
<1>6. \A d \in D : {d.start, d.end, d.score} \subseteq Int
  OBVIOUS
<1> HIDE DEF D
<1>7. IsList(sents) /\ DOMAIN sents = 1..n
  BY <1>3, <1>4, ListFrom
<1> QED BY <1>3, <1>4, <1>5, <1>6, <1>7 DEF Scored

(* And what it holds still while one types are answers. *)
LEMMA StableAsked ==
  ASSUME AskStable
  PROVE  \E C, W : input' \in Seq(Seq([chunk : C, window : W]))
<1> DEFINE D == [chunk : Int, window : Int]
           S == Seq(D)
<1>1. PICK k \in 0..4 : \E answers \in [1..k -> Candidates] : input' = answers
  BY DEF AskStable
<1>2. PICK answers \in [1..k -> Candidates] : input' = answers
  BY <1>1
<1>3. Candidates \subseteq S
  <2>1. \A a, w \in Int : [chunk |-> a, window |-> w] \in D
    OBVIOUS
  <2> HIDE DEF D
  <2>2. \A x, y \in D : <<x>> \in S /\ <<x, y>> \in S
    OBVIOUS
  <2>5. <<>> \in S
    OBVIOUS
  <2> HIDE DEF S
  <2>3. ASSUME NEW w \in 1..3 PROVE <<[chunk |-> 1, window |-> w]>> \in S
    <3> DEFINE x == [chunk |-> 1, window |-> w]
    <3>1. x \in D
      BY <2>1, 1 \in Int, w \in Int
    <3> HIDE DEF x
    <3>2. <<x>> \in S
      BY <2>2, <3>1
    <3> QED BY <3>2, Zenon DEF x
  <2>4. ASSUME NEW a \in {1, 2}, NEW w \in {2, 3}
        PROVE  <<[chunk |-> a, window |-> 1], [chunk |-> 3 - a, window |-> w]>> \in S
    <3> DEFINE x == [chunk |-> a, window |-> 1]
               y == [chunk |-> 3 - a, window |-> w]
    <3>1. x \in D /\ y \in D
      BY <2>1, a \in Int, 1 \in Int, 3 - a \in Int, w \in Int
    <3> HIDE DEF x, y
    <3>2. <<x, y>> \in S
      BY <2>2, <3>1
    <3> QED BY <3>2, Zenon DEF x, y
  <2> QED BY <2>3, <2>4, <2>5 DEF Candidates
<1> HIDE DEF S
<1>4. k \in Nat /\ answers \in [1..k -> S]
  BY <1>3
<1>5. answers \in Seq(S)
  BY <1>4, ListOf
<1> QED BY <1>2, <1>5 DEF S, D

(* IndexRight, FusionRight, PagesRight, SnippetRight and StableRight for what *)
(* the instance asks. *)
THEOREM CandidatesStaySound == AlgorithmsSpec => []CandidatesSound
<1>1. MCInit => CandidatesAsked
  BY DEF MCInit, CandidatesAsked, Asked
<1>2. CandidatesAsked /\ [MCNext]_mcVars => CandidatesAsked'
  <2> SUFFICES ASSUME CandidatesAsked, [MCNext]_mcVars,
                      area \in {"index", "fuse", "pages", "snippet", "stable"}
               PROVE  CandidatesAsked'
    BY StaysInArea DEF CandidatesAsked, Asked
  <2>1. area' = area /\ (input' = input \/ (area = "index" /\ AskIndex) \/ (area = "fuse" /\ AskFuse)
                         \/ (area = "pages" /\ AskPages) \/ (area = "snippet" /\ AskSnippet)
                         \/ (area = "stable" /\ AskStable))
    BY StaysInArea
  <2>2. CASE input' = input
    BY <2>1, <2>2 DEF CandidatesAsked, Asked
  <2>3. CASE area = "index" /\ AskIndex
    BY <2>1, <2>3, IndexAsked DEF CandidatesAsked, Asked
  <2>4. CASE area = "fuse" /\ AskFuse
    BY <2>1, <2>4, FuseAsked DEF CandidatesAsked, Asked
  <2>5. CASE area = "pages" /\ AskPages
    BY <2>1, <2>5, PagesAsked DEF CandidatesAsked, Asked
  <2>6. CASE area = "snippet" /\ AskSnippet
    BY <2>1, <2>6, SnippetAsked DEF CandidatesAsked, Asked
  <2>7. CASE area = "stable" /\ AskStable
    BY <2>1, <2>7, StableAsked DEF CandidatesAsked, Asked
  <2> QED BY <2>1, <2>2, <2>3, <2>4, <2>5, <2>6, <2>7
<1>3. CandidatesAsked => CandidatesSound
  <2>1. ASSUME CandidatesAsked, Asked("index") PROVE IndexSound(input)
    <3>1. PICK I, E : input \in Seq([id : I, tokens : Seq(E)])
      BY <2>1 DEF CandidatesAsked
    <3> QED BY <3>1, IndexRight
  <2>2. ASSUME CandidatesAsked, Asked("fuse")
        PROVE  FusionSound([bm25 |-> input.bm25, vec |-> input.vec, passage |-> input.passage],
                           input.mode, input.embedder, 60, 61 * 62 * 63)
    <3>1. CommonDenominator(60, 3, 61 * 62 * 63)
      BY DEF CommonDenominator
    <3>2. ArmsFound([bm25 |-> input.bm25, vec |-> input.vec, passage |-> input.passage], 3)
      <4>1. ArmsFound(input, 3)
        BY <2>2 DEF CandidatesAsked
      <4> QED BY <4>1 DEF ArmsFound
    <3> QED BY <3>1, <3>2, FusionRight
  <2>3. ASSUME CandidatesAsked, Asked("pages")
        PROVE  PagesSound(input.ranking, input.stored, input.size, <<2, 4>>)
    <3>1. IsList(<<2, 4>>) /\ <<2, 4>> # <<>> /\ Range(<<2, 4>>) \subseteq Nat \ {0}
      <4>1. <<2, 4>> \in Seq(Nat \ {0})
        OBVIOUS
      <4> QED BY <4>1, ListIn DEF IsList
    <3>2. IsList(input.ranking)
      BY <2>3 DEF CandidatesAsked
    <3> QED BY <3>1, <3>2, PagesRight
  <2>4. ASSUME CandidatesAsked, Asked("snippet") PROVE SnippetSound(input.sents, input.budget)
    BY <2>4, SnippetRight DEF CandidatesAsked
  <2>5. ASSUME CandidatesAsked, Asked("stable") PROVE StableSound(input)
    <3>1. PICK C, W : input \in Seq(Seq([chunk : C, window : W]))
      BY <2>5 DEF CandidatesAsked
    <3> QED BY <3>1, StableRight
  <2> QED BY <2>1, <2>2, <2>3, <2>4, <2>5 DEF CandidatesSound
<1> QED BY <1>1, <1>2, <1>3, PTL DEF AlgorithmsSpec

=============================================================================
