---------------------------- MODULE MCAlgorithms ----------------------------
(***************************************************************************)
(* The pure algorithms for TLC.  A behaviour takes one area, asks it one   *)
(* question (a small input) and the invariants judge the answer; the areas *)
(* "regions" and "home" run the steps of AtlasRegions and of Homes.        *)
(***************************************************************************)
EXTENDS ReadingOrder, BaselineDiff, Transcripts, EvidencePane, AtlasGraph, AtlasRegions,
        Homes, TLC

CONSTANTS
    Unasked,          \* what stands in a behaviour that asks nothing yet
    MaxEdges,       \* edges of a document that is walked
    MaxText         \* tokens of a passage that is searched


VARIABLES
    area,    \* the algorithm asked
    input    \* what it was asked, or Unasked

mcVars == <<area, input, regionVars, homeVars>>

Areas == {"order", "walk", "stitch", "diff", "locate", "select", "passages", "upload",
          "windows", "index", "fuse", "pages", "snippet", "stable", "regions", "links",
          "transcripts", "tags", "home"}

\* The homes of the other areas are all alike.
MCInit ==
    /\ area \in Areas /\ input = Unasked /\ Init
    /\ HomeInit
    /\ area # "home" => current = Nothing /\ preSplitProjects = {}

Ask(a) == area = a /\ input = Unasked /\ UNCHANGED <<area, regionVars, homeVars>>

-----------------------------------------------------------------------------
\* Documents: all graphs over four nodes, conditional edges over three, and
\* quotes that overlap, repeat and were rewritten.
PairsInOrder == [i \in 1..16 |-> <<1 + ((i - 1) % 4), 1 + ((i - 1) \div 4)>>]

Plain(from, to) == [from |-> from, to |-> to, type |-> "linear", cond |-> <<"">>]

Document(nodes, edges) ==
    [nodes |-> nodes, edges |-> edges, thread |-> <<>>,
     evidence |-> [n \in Range(nodes) |-> <<>>], body |-> [n \in Range(nodes) |-> TRUE]]

AskOrder == Ask("order") /\
    \E P \in SUBSET {i \in 1..16 : PairsInOrder[i][1] # PairsInOrder[i][2]} :
    LET pairs == Picked(PairsInOrder, P)
    IN  input' = Document(<<1, 2, 3, 4>>,
                          [i \in DOMAIN pairs |-> Plain(pairs[i][1], pairs[i][2])])

WalkEdges ==
    [from : 1..3, to : 1..3, type : {"branch"},
     cond : {<<"">>, <<"has_read", 3>>, <<"!has_read", 2>>, <<"audience==", "expert">>,
             <<"audience!=", "expert">>, <<"label.", "level", "new">>, <<"label.", "part", "new">>}]

Novice == [audience |-> "novice", labels |-> [key \in {"level"} |-> "new"]]

AskWalk == Ask("walk") /\ \E k \in 0..MaxEdges : \E edges \in [1..k -> WalkEdges] :
    /\ \A i \in 1..k : edges[i].from # edges[i].to
    /\ input' = Document(<<1, 2, 3>>, edges)

Cited(start, words) == [chunk |-> "c", start |-> start, end |-> start + 2, text |-> words]

Quotes == {<<>>, <<Cited(0, "w")>>, <<Cited(2, "w")>>, <<Cited(0, "w"), Cited(2, "w")>>,
           <<Cited(0, "rewritten")>>}

Exit(from, to, type) == [Plain(from, to) EXCEPT !.type = type]

AskStitch == Ask("stitch") /\
    \E edges \in {<<>>, <<Plain(1, 2), Exit(2, 1, "jump")>>, <<Plain(3, 1), Exit(3, 2, "branch")>>},
       evidence \in [1..3 -> Quotes],
       body \in {[n \in 1..3 |-> TRUE], [n \in 1..3 |-> n = 1]},
       thread \in {<<>>, <<2, 1>>, <<3, 1, 2>>, <<1>>} :
    input' = [nodes |-> <<1, 2, 3>>, edges |-> edges, evidence |-> evidence,
              body |-> body, thread |-> thread]

\* Baselines: every parent of four bullets, loops and missing parents (5)
\* included, and a quote that is also below another.
AskDiff == Ask("diff") /\
    \E parent \in [1..4 -> 0..5], left \in SUBSET (1..4),
       first \in {<<>>, <<[from |-> 3, to |-> 1, type |-> "linear"]>>} :
    /\ \A n \in 1..4 : parent[n] # n
    /\ input' =
         [base |-> [bullets |-> [n \in 1..4 |-> 0],
                    edges |-> first \o [n \in 1..4 |->
                                [from |-> parent[n], to |-> n,
                                 type |-> IF parent[n] = 0 THEN "branch" ELSE "linear"]]],
          cur |-> [n \in left |-> IF n = 1 THEN 1 ELSE 0]]

-----------------------------------------------------------------------------
\* Texts, token by token.
Query == {(<<"a">> :> 1), (<<"a">> :> 1) @@ (<<"b">> :> 2), (<<"a">> :> 1) @@ (<<"a", "b">> :> 3)}

AskLocate == Ask("locate") /\ \E k \in 0..MaxText :
    \E text \in [1..k -> {"a", "b", Space, Stop}], query \in Query, width \in {2, 4} :
    input' = [text |-> text, query |-> query, width |-> width]

AskSelect == Ask("select") /\ \E k \in 0..(MaxText - 1) :
    \E text \in [1..k -> {"a", "b", Space, Newline}] : input' = text

AskPassages == Ask("passages") /\ \E k \in 0..(MaxText + 1) :
    \E words \in [1..k -> {<<"a">>, <<"b", "b">>}] : input' = Joined(words)

AskUpload == Ask("upload") /\ \E k \in 0..MaxText :
    \E text \in [1..k -> {"a", Space, Newline, Stop}] : input' = text

AskWindows == Ask("windows") /\ \E k \in 1..9, every \in {2, 3} :
    input' = ChunkTranscript(
               [i \in 1..k |-> IF i % every = 0 THEN <<"a", Space, "b", Stop>>
                               ELSE <<"b", Stop>>], 2, {"b"})

-----------------------------------------------------------------------------
\* Searches, pages and snippets.
AskIndex == Ask("index") /\ \E k \in 0..4 :
    \E adds \in [1..k -> [id : {1, 2}, tokens : {<<>>, <<"x">>, <<"y", "x">>, <<"x", "x">>}]] :
    input' = adds

Distinct(s) == \A i, j \in DOMAIN s : i # j => s[i] # s[j]

Arms(n) == UNION {{s \in [1..k -> 1..n] : Distinct(s)} : k \in 0..n}

AskFuse == Ask("fuse") /\
    \E bm25 \in Arms(3), vec \in Arms(3), k \in 0..2,
       mode \in {"hybrid", "keyword", "semantic", ""}, embedder \in {"ready", "failing", "none"} :
    \E passage \in [1..k -> [chunk : 1..3, span : {1, 2}]] :
    /\ Distinct(passage)
    /\ input' = [bm25 |-> bm25, vec |-> vec, passage |-> passage, mode |-> mode,
                 embedder |-> embedder]

AskPages == Ask("pages") /\ \E n \in 0..6, stored \in SUBSET (1..6), size \in -1..5 :
    input' = [ranking |-> [i \in 1..n |-> [chunk |-> i]], stored |-> stored, size |-> size]

AskSnippet == Ask("snippet") /\ \E n \in 0..6 :
    \E scores \in [1..n -> {0, 50, 100}], budget \in {8, 12, 20} :
    input' = [budget |-> budget,
              sents |-> [i \in 1..n |-> [start |-> 3 * i, score |-> scores[i],
                                         end |-> 3 * i + (IF i % 3 = 0 THEN 1 ELSE 2)]]]

Candidates ==
    {<<>>} \union {<<[chunk |-> 1, window |-> w]>> : w \in 1..3}
    \union {<<[chunk |-> a, window |-> 1], [chunk |-> 3 - a, window |-> w]>> :
              a \in {1, 2}, w \in {2, 3}}

AskStable == Ask("stable") /\ \E k \in 0..4 : \E answers \in [1..k -> Candidates] : input' = answers

-----------------------------------------------------------------------------
\* The atlas.
RegionStep == area = "regions" /\ Next /\ UNCHANGED <<area, input, homeVars>>

Similarities(n) == [PairsOf(1..n) -> 0..2]

AskLinks == Ask("links") /\ \E sim \in Similarities(4), K \in 1..2, least \in 1..2 :
    input' = [sim |-> sim, K |-> K, least |-> least]

AskTranscripts == Ask("transcripts") /\
    \E sim \in Similarities(4), fileOf \in {<<1, 1, 2, 2>>, <<1, 2, 2, 3>>, <<1, 2, 3, 3>>, <<1, 2, 3, 1>>},
       K \in {1, 3}, fileK \in {1, 2} :
    input' = [sim |-> sim, fileOf |-> fileOf, K |-> K, fileK |-> fileK]

AskTags == Ask("tags") /\ \E regionOf \in [1..5 -> 1..3], fileOf \in [1..5 -> 1..2], extra \in 0..2 :
    input' = [regionOf |-> regionOf, fileOf |-> fileOf, extra |-> extra]

-----------------------------------------------------------------------------
\* The files of a home.
HomeStep == area = "home" /\ HomeNext /\ UNCHANGED <<area, input, regionVars>>

MCNext ==
    \/ AskOrder \/ AskWalk \/ AskStitch \/ AskDiff
    \/ AskLocate \/ AskSelect \/ AskPassages \/ AskUpload \/ AskWindows
    \/ AskIndex \/ AskFuse \/ AskPages \/ AskSnippet \/ AskStable
    \/ RegionStep \/ AskLinks \/ AskTranscripts \/ AskTags
    \/ HomeStep

AlgorithmsSpec == MCInit /\ [][MCNext]_mcVars

Asked(a) == area = a /\ input # Unasked

-----------------------------------------------------------------------------
(* The orders and manuscripts read off a document are what its graph says:    *)
(* topological sorting and the search for a cycle agree (dag), a walk keeps   *)
(* to the conditions, a manuscript cites every quote once and all its notes   *)
(* resolve (stitch, export), and the exits of the pane lead somewhere.        *)
ReadingSound ==
    /\ Asked("order") => /\ SortSound(input) /\ CycleCheckSound(input)
                       /\ PaneSound(input)
    /\ Asked("walk") => /\ WalkSound(input, Novice, <<1>>)
                      /\ WalkSound(input, Novice, <<2, 1, 3>>)
    /\ Asked("stitch") => ManuscriptSound(input, IF input.thread = <<>> THEN "manuscript"
                                                     ELSE "thread")

(* Every bullet a baseline has and the document lacks is drawn once, below    *)
(* the nearest bullet of its line that is still there, and can be taken back  *)
(* from there; the search for that bullet ends unless the baseline holds a    *)
(* loop of bullets that are all gone (outline/diff.go).                       *)
GhostsAnchored ==
    Asked("diff") => /\ GhostsSound(input.cur, input.base)
                   /\ RescueSound(input.cur, input.base, 9)

(* The places quoted are in the text: passages cover it, a window holds what  *)
(* it was found for, a selection is found where it was made, and an upload    *)
(* cut into chunks can be read back whole (search, ingest, transcript).       *)
QuotesLocated ==
    /\ Asked("locate") => WindowSound(input.text, input.query, input.width)
    /\ Asked("select") => SelectionSound(input)
    /\ Asked("passages") => PassagesSound(input, 3, 2)
    /\ Asked("upload") => ChunksSound(input, 2, {}) /\ ChunksSound(input, 2, {"a"})
    /\ Asked("windows") => \A r \in 1..2 : /\ WindowsSound(input, r)
                                         /\ ReaderSound(input, (<<"a">> :> 1), 3, r)

(* The candidates beside a bullet: the index counts what it holds, a search   *)
(* fuses its arms fairly, the pages hold each result once, a snippet keeps    *)
(* its budget and the best sentence, and nothing flickers while one types.    *)
CandidatesSound ==
    /\ Asked("index") => IndexSound(input)
    /\ Asked("fuse") => FusionSound([bm25 |-> input.bm25, vec |-> input.vec, passage |-> input.passage],
                                       input.mode, input.embedder, 60, 61 * 62 * 63)
    /\ Asked("pages") => PagesSound(input.ranking, input.stored, input.size, <<2, 4>>)
    /\ Asked("snippet") => SnippetSound(input.sents, input.budget)
    /\ Asked("stable") => StableSound(input)

(* What the atlas draws: regions of the right size, links that drop a pair    *)
(* only for stronger ones, and a colour for each transcript (atlas).          *)
AtlasDrawn ==
    /\ SizesRight
    /\ Asked("links") => LinksSound(1..4, input.sim, input.K, input.least)
    /\ Asked("transcripts") => TranscriptsSound(1..4, input.sim, input.fileOf, input.K, 1, input.fileK)
    /\ Asked("tags") => TagsSound(input.regionOf, input.fileOf, 20, 30, input.extra)

=============================================================================
