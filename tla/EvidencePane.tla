---------------------------- MODULE EvidencePane ----------------------------
(* From the text of a bullet to the page of candidates beside it: the keyword *)
(* index, the fusion of the retrieval arms (search/hybrid.go), the pages and  *)
(* snippets (web/evidence.go) and the snippets kept while the writer types    *)
(* (web/evidence_stability.go).                                               *)
EXTENDS Subsequences, SequencesExt

(***************************************************************************)
(* search/bm25.go                                                          *)
(***************************************************************************)
EmptyIndex == [docLen |-> <<>>, postings |-> {}, total |-> 0, numDocs |-> 0]

\* Mutant: the postings go but the document is still counted.
RemovePostings(idx, id) == [idx EXCEPT !.postings = {p \in @ : p.doc # id}]

\* BM25Index.remove: the document's postings and its share of the totals.
RemoveDoc(idx, id) ==
    IF id \notin DOMAIN idx.docLen THEN idx
    ELSE [docLen |-> [d \in DOMAIN idx.docLen \ {id} |-> idx.docLen[d]],
          postings |-> {p \in idx.postings : p.doc # id},
          total |-> idx.total - idx.docLen[id],
          numDocs |-> idx.numDocs - 1]

Frequency(tokens, term) == Cardinality({i \in DOMAIN tokens : tokens[i] = term})

AddDoc(idx, id, tokens) ==
    LET rest == RemoveDoc(idx, id)
    IN  [docLen |-> [d \in DOMAIN rest.docLen \union {id} |->
                       IF d = id THEN Len(tokens) ELSE rest.docLen[d]],
         postings |-> rest.postings \union
                        {[term |-> t, doc |-> id, count |-> Frequency(tokens, t)] :
                           t \in Range(tokens)},
         total |-> rest.total + Len(tokens),
         numDocs |-> rest.numDocs + 1]

\* The index after some documents were added, an older text of one replaced.
Indexed(adds) == FoldLeft(LAMBDA idx, a : AddDoc(idx, a.id, a.tokens), EmptyIndex, adds)

\* The documents a query scores: those with a term of it.
Matching(idx, terms) == {p.doc : p \in {q \in idx.postings : q.term \in Range(terms)}}

\* CleanQuery: the terms that say something, once each; else the text as it is.
CleanQuery(tokens, idle) ==
    LET kept == Picked(tokens, {i \in DOMAIN tokens : /\ tokens[i] \notin idle
                                                      /\ \A j \in 1..(i - 1) : tokens[j] # tokens[i]})
    IN  IF kept = <<>> THEN tokens ELSE kept

(***************************************************************************)
(* search/hybrid.go.  An arm is the sequence of the chunks it ranks.       *)
(***************************************************************************)
Ranked(arm) == Range(arm)

RankOf(arm, c) == CHOOSE i \in DOMAIN arm : arm[i] = c

\* The passage arm lists [chunk, span] and keeps the best passage of a chunk.
RollUp(passages) ==
    Picked(passages, {i \in DOMAIN passages :
                        \A j \in 1..(i - 1) : passages[j].chunk # passages[i].chunk})

Chunks(passages) == [i \in DOMAIN passages |-> passages[i].chunk]

\* What an arm adds to the score of a chunk, over a common denominator.
Contribution(arm, c, k, denominator) ==
    IF c \in Ranked(arm) THEN denominator \div (k + RankOf(arm, c)) ELSE 0

Mode(m) == IF m \in {"keyword", "semantic"} THEN m ELSE "hybrid"

\* The arms a search draws from: no embedder, or one that fails, is no vector arm.
ArmsOf(arms, m, embedder) ==
    [bm25 |-> IF Mode(m) = "semantic" THEN <<>> ELSE arms.bm25,
     passage |-> IF Mode(m) = "semantic" THEN <<>> ELSE RollUp(arms.passage),
     vec |-> IF Mode(m) = "keyword" \/ embedder # "ready" THEN <<>> ELSE arms.vec]

fuseArms(arms, k, denominator) ==
    LET rolled == Chunks(arms.passage)
    IN  {[chunk |-> c,
          bm |-> Contribution(arms.bm25, c, k, denominator)
                   + Contribution(rolled, c, k, denominator),
          vc |-> Contribution(arms.vec, c, k, denominator),
          passage |-> IF c \in Ranked(rolled)
                      THEN arms.passage[RankOf(rolled, c)].span ELSE 0] :
           c \in Ranked(arms.bm25) \union Ranked(rolled) \union Ranked(arms.vec)}

Score(r) == r.bm + r.vc

MatchKind(r) == IF r.bm > 0 /\ r.vc > 0 THEN "hybrid"
                ELSE IF r.vc > 0 THEN "semantic" ELSE "keyword"

\* The results come out of a map and the sort is not stable: equal scores may
\* stand in any order.
Orders(results) ==
    {s \in [1..Cardinality(results) -> results] :
       /\ \A i, j \in DOMAIN s : i # j => s[i] # s[j]
       /\ \A i \in 1..(Cardinality(results) - 1) : Score(s[i]) >= Score(s[i + 1])}

SearchMode(arms, m, embedder, limit, k, denominator) ==
    {IF limit > 0 /\ Len(s) > limit THEN SubSeq(s, 1, limit) ELSE s :
       s \in Orders(fuseArms(ArmsOf(arms, m, embedder), k, denominator))}

(***************************************************************************)
(* web/evidence.go: pages                                                  *)
(***************************************************************************)
Distance(a, b) == IF a > b THEN a - b ELSE b - a

\* The offered size nearest to the one asked for; the smaller of two as near.
ClampPageSize(n, options) ==
    IF n <= 0 THEN options[1]
    ELSE FoldLeft(LAMBDA best, o : IF Distance(o, n) < Distance(best, n) THEN o ELSE best,
                  options[1], options)

TotalPages(total, size) == IF total = 0 THEN 1 ELSE (total + size - 1) \div size

EffectivePage(page, total, size) ==
    IF page < 1 THEN 1
    ELSE IF page > TotalPages(total, size) THEN TotalPages(total, size) ELSE page

\* One page of a ranking; a chunk that left the store meanwhile is skipped.
FindPage(ranking, stored, page, size) ==
    LET p == EffectivePage(page, Len(ranking), size)
        end == IF p * size > Len(ranking) THEN Len(ranking) ELSE p * size
    IN  Picked(ranking, {i \in ((p - 1) * size + 1)..end : ranking[i].chunk \in stored})

(***************************************************************************)
(* web/evidence.go: a snippet of the sentences that stand out.  A sentence *)
(* is [start, end, score], with scores in percent of the best.             *)
(***************************************************************************)
Selected(sents) == {i \in DOMAIN sents : sents[i].score >= 50}

\* The groups: the longest runs of selected sentences, as pairs of their ends.
Groups(sents) ==
    {g \in (DOMAIN sents) \X (DOMAIN sents) :
       /\ g[1] <= g[2] /\ (g[1]..g[2]) \subseteq Selected(sents)
       /\ (g[1] - 1) \notin Selected(sents) /\ (g[2] + 1) \notin Selected(sents)}

GroupScore(sents, g) ==
    LET scores == {sents[i].score : i \in g[1]..g[2]}
    IN  CHOOSE x \in scores : \A y \in scores : y <= x

\* The better group first; of equals the earlier (SliceStable).
Before(sents, g, h) == \/ GroupScore(sents, g) > GroupScore(sents, h)
                       \/ GroupScore(sents, g) = GroupScore(sents, h) /\ g[1] < h[1]

BestGroups(sents, n) ==
    {g \in Groups(sents) : Cardinality({h \in Groups(sents) : Before(sents, h, g)}) < n}

SnippetWidth(sents, groups) ==
    FoldSet(LAMBDA g, sum : sum + 3 + sents[g[2]].end - sents[g[1]].start, 0, groups)

\* The groups shown, or none when they are fewer than two or do not fit.
multiSpanSnippet(sents, budget) ==
    LET three == BestGroups(sents, 3)
        kept == IF SnippetWidth(sents, three) > budget THEN BestGroups(sents, 2) ELSE three
    IN  IF Cardinality(Groups(sents)) < 2 \/ SnippetWidth(sents, kept) > budget
        THEN {} ELSE kept

\* The first of the groups shown with the highest score.
Focus(sents, groups) ==
    CHOOSE g \in groups : \A h \in groups : h = g \/ Before(sents, g, h)

(***************************************************************************)
(* web/evidence_stability.go: candidates are [chunk, window] in rank order *)
(***************************************************************************)
candidateSig(cands) == {c.chunk : c \in Range(cands)}

stabilize(shown, fresh) ==
    IF fresh = <<>> THEN [shown |-> shown, cands |-> fresh]
    ELSE LET old(c) == CHOOSE o \in Range(shown) : o.chunk = c.chunk
             kept == [i \in DOMAIN fresh |->
                        [fresh[i] EXCEPT !.window = old(fresh[i]).window]]
             cands == IF candidateSig(shown) = candidateSig(fresh) THEN kept ELSE fresh
         IN  [shown |-> cands, cands |-> cands]

\* One answer more: what is shown now, and all that has been seen.
Shows(acc, fresh) ==
    LET now == stabilize(acc.shown, fresh)
    IN  [shown |-> now.shown, seen |-> Append(acc.seen, now.cands)]

Seen(answers) == FoldLeft(Shows, [shown |-> <<>>, seen |-> <<>>], answers).seen

(***************************************************************************)
(* What must be true of them                                               *)
(***************************************************************************)
(* However often documents are added again, the index counts what it would    *)
(* count had each been added once, with its last text; and taking the idle    *)
(* words out of a query finds no document the query would not, and leaves it  *)
(* at least one word.                                                         *)
IndexSound(adds) ==
    LET ids == {a.id : a \in Range(adds)}
        LastText(id) == adds[CHOOSE i \in DOMAIN adds : adds[i].id = id /\
                               \A j \in DOMAIN adds : adds[j].id = id => j <= i].tokens
        idx == Indexed(adds)
    IN  /\ idx.numDocs = Cardinality(ids)
        /\ idx.total = Cardinality(UNION {{id} \X DOMAIN LastText(id) : id \in ids})
        /\ \A terms \in {<<"x">>, <<"y">>, <<"x", "y">>} :
             Matching(idx, terms) = {id \in ids : Range(LastText(id)) \cap Range(terms) # {}}
        /\ \A p \in idx.postings : p.count = Frequency(LastText(p.doc), p.term)
        /\ \A query \in {<<"x">>, <<"y", "x", "y">>}, idle \in SUBSET {"x", "y"} :
             LET terms == CleanQuery(query, idle)
             IN  /\ terms # <<>> /\ (Range(terms) \cap idle # {} => terms = query)
                 /\ Matching(idx, terms) \subseteq Matching(idx, query)

(* A search returns what the arms of its mode found, each chunk once, and     *)
(* puts a chunk below another only if some arm ranks it lower; the label      *)
(* names the arms; the passage is the chunk's best; and without an embedder a *)
(* hybrid search is a keyword search.                                         *)
FusionSound(arms, m, embedder, k, denominator) ==
    LET used == ArmsOf(arms, m, embedder)
        Keyword == Ranked(used.bm25) \union Ranked(Chunks(used.passage))
    IN  \A s \in SearchMode(arms, m, embedder, 0, k, denominator) :
          /\ {r.chunk : r \in Range(s)} = Keyword \union Ranked(used.vec)
          /\ Cardinality({r.chunk : r \in Range(s)}) = Len(s)
          /\ \A i, j \in DOMAIN s : i < j => \E arm \in {used.bm25, Chunks(used.passage), used.vec} :
               \/ s[i].chunk \in Ranked(arm) /\ s[j].chunk \notin Ranked(arm)
               \/ /\ {s[i].chunk, s[j].chunk} \subseteq Ranked(arm)
                  /\ RankOf(arm, s[i].chunk) < RankOf(arm, s[j].chunk)
          /\ \A r \in Range(s) :
               /\ MatchKind(r) = (IF r.chunk \notin Keyword THEN "semantic"
                                  ELSE IF r.chunk \in Ranked(used.vec) THEN "hybrid"
                                  ELSE "keyword")
               /\ r.passage # 0 => \E i \in DOMAIN arms.passage :
                    /\ arms.passage[i] = [chunk |-> r.chunk, span |-> r.passage]
                    /\ \A j \in 1..(i - 1) : arms.passage[j].chunk # r.chunk
          /\ (embedder # "ready" /\ Mode(m) = "hybrid") =>
               s \in SearchMode(arms, "keyword", "ready", 0, k, denominator)

(* Whatever size is asked for, the pages of one ranking hold every stored     *)
(* chunk of it exactly once, in its order, no page past the first is empty of *)
(* ranks, and whatever page is asked for, one of them is served.              *)
PagesSound(ranking, stored, asked, options) ==
    LET size == ClampPageSize(asked, options)
        pages == [p \in 1..TotalPages(Len(ranking), size) |->
                    FindPage(ranking, stored, p, size)]
    IN  /\ FlattenSeq(pages) = Picked(ranking, {i \in DOMAIN ranking : ranking[i].chunk \in stored})
        /\ \A p \in -1..(Len(ranking) + 2) : FindPage(ranking, stored, p, size) \in Range(pages)
        /\ ranking # <<>> => \A p \in DOMAIN pages : (p - 1) * size < Len(ranking)

(* A snippet of several parts shows at least two and at most three separate   *)
(* runs of sentences within its budget, the best sentence among them in the   *)
(* run the reader is sent to; it is given up only when there is one run or    *)
(* the two best do not fit.                                                   *)
SnippetSound(sents, budget) ==
    LET shown == multiSpanSnippet(sents, budget)
        top == {i \in DOMAIN sents : \A j \in DOMAIN sents : sents[j].score <= sents[i].score}
    IN  IF shown = {}
        THEN \/ Cardinality(Groups(sents)) < 2
             \/ SnippetWidth(sents, BestGroups(sents, 2)) > budget
        ELSE /\ Cardinality(shown) \in 2..3
             /\ SnippetWidth(sents, shown) <= budget
             /\ \A g, h \in shown : g # h => (g[2] + 1 < h[1] \/ h[2] + 1 < g[1])
             /\ \E i \in top : i \in Focus(sents, shown)[1]..Focus(sents, shown)[2]

(* What is shown for a chunk stays what it was when the set of candidates     *)
(* last changed; the order and the chunks are always the fresh ones.          *)
StableSound(answers) ==
    LET seen == Seen(answers)
        Filled == {i \in DOMAIN answers : answers[i] # <<>>}
        Since(i) == {j \in Filled : j <= i /\ \A k \in Filled : (j <= k /\ k <= i) =>
                       candidateSig(answers[k]) = candidateSig(answers[i])}
        First(i) == CHOOSE j \in Since(i) : \A k \in Since(i) : j <= k
    IN  \A i \in DOMAIN answers :
          /\ [n \in DOMAIN seen[i] |-> seen[i][n].chunk]
               = [n \in DOMAIN answers[i] |-> answers[i][n].chunk]
          /\ \A c \in Range(seen[i]) : c \in Range(answers[First(i)])

=============================================================================
