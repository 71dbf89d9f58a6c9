------------------------------ MODULE Locator ------------------------------
(* Where a text is: the words and sentences of a chunk, the passages it is    *)
(* indexed by, the window of it that a query is shown, the words the writer   *)
(* selects in it, and the transcript its chunks come from.                    *)
(* A text is a sequence of characters: letters, Space, Newline and Stop.  An  *)
(* offset counts the characters before it, so that a span [start, end) of the *)
(* code is SubSeq(text, start + 1, end).                                      *)
EXTENDS Subsequences, SequencesExt

Space == "space"

Newline == "newline"

Stop == "stop"

Blanks == {Space, Newline}

Letters(text) == {i \in DOMAIN text : text[i] \notin Blanks \union {Stop}}

Slice(text, span) == SubSeq(text, span.start + 1, span.end)

Width(span) == span.end - span.start

\* Spans that start at different places, in document order.
InOrder(spans) ==
    [k \in 1..Cardinality(spans) |->
       CHOOSE s \in spans : Cardinality({t \in spans : t.start < s.start}) = k - 1]

MinOf(S) == CHOOSE x \in S : \A y \in S : x <= y

MaxOf(S) == CHOOSE x \in S : \A y \in S : y <= x

(***************************************************************************)
(* search/locate.go and search/passage.go                                  *)
(***************************************************************************)
\* tokenizeWithPositions: the longest runs of letters.
Tokens(text) ==
    LET in == Letters(text)
        Ends(i) == CHOOSE j \in i..Len(text) :
                     (i..j) \subseteq in /\ (j + 1) \notin in
    IN  InOrder({[start |-> i - 1, end |-> Ends(i)] : i \in {k \in in : (k - 1) \notin in}})

\* sentenceSpans: a stop followed by a blank ends a sentence, and so does the end
\* of the text; the blanks before a sentence belong to none.
Cuts(text) ==
    {Len(text)} \union {i \in DOMAIN text : /\ text[i] = Stop /\ (i + 1) \in DOMAIN text
                                            /\ text[i + 1] \in Blanks}

Piece(text, cut) ==
    {i \in 1..cut : (\A c \in Cuts(text) : c < cut => i > c)}

Sentences(text) ==
    LET Solid(cut) == {i \in Piece(text, cut) : text[i] \notin Blanks}
    IN  InOrder({[start |-> MinOf(Solid(cut)) - 1, end |-> cut] :
                   cut \in {c \in Cuts(text) : Solid(c) # {}}})

\* chunkPassages: windows of `words` tokens, `stride` tokens apart.
Passages(text, words, stride) ==
    LET toks == Tokens(text)
        Last1(i) == IF i + words - 1 > Len(toks) THEN Len(toks) ELSE i + words - 1
        begins == {i \in DOMAIN toks : /\ (i - 1) % stride = 0
                                       /\ \A k \in 1..(i - 1) : (k - 1) % stride = 0
                                            => Last1(k) < Len(toks)}
    IN  InOrder({[start |-> toks[i].start, end |-> toks[Last1(i)].end] : i \in begins})

\* The tokens of the chunk that a query asks for, and their weight.
Hits(text, query) ==
    SelectSeq(Tokens(text), LAMBDA t : Slice(text, t) \in DOMAIN query)

Weight(text, query, spans) ==
    FoldLeft(LAMBDA sum, t : sum + query[Slice(text, t)], 0, spans)

NotFound == [found |-> FALSE]

\* Every occurrence is wider than the window: Locate indexes its hits at -1.
OutOfRange == [found |-> TRUE, hits |-> <<>>]

\* A sentence window: the best sentence, then the next, then the one before it
\* as far as they fit (LocatePassage, and SemanticLocate with other scores).
AroundSentence(sents, best, maxW) ==
    LET hi == IF best < Len(sents) /\ sents[best + 1].end - sents[best].start <= maxW
              THEN best + 1 ELSE best
        lo == IF best > 1 /\ sents[hi].end - sents[best - 1].start <= maxW
              THEN best - 1 ELSE best
    IN  [start |-> sents[lo].start, end |-> sents[hi].end]

LocatePassage(text, query, maxW) ==
    LET sents == Sentences(text)
        hits == Hits(text, query)
        Score(k) == Weight(text, query, SelectSeq(hits, LAMBDA t :
                        t.start >= sents[k].start /\ t.start < sents[k].end))
        best == CHOOSE k \in DOMAIN sents : \A j \in DOMAIN sents :
                  Score(j) < Score(k) \/ (Score(j) = Score(k) /\ k <= j)
    IN  IF hits = <<>> \/ Width(sents[best]) > maxW THEN NotFound
        ELSE [found |-> TRUE, hits |-> hits, window |-> AroundSentence(sents, best, maxW)]

\* snapToTokens: an edge inside a word moves inward to that word's boundary.
SnapToTokens(toks, span) ==
    LET cutL == {t \in Range(toks) : t.start < span.start /\ t.end > span.start}
        cutR == {t \in Range(toks) : t.start < span.end /\ t.end > span.end}
        s == IF cutL = {} THEN span.start ELSE (CHOOSE t \in cutL : TRUE).end
        e == IF cutR = {} THEN span.end ELSE (CHOOSE t \in cutR : TRUE).start
    IN  IF s >= e THEN span ELSE [start |-> s, end |-> e]

\* Mutant: a hit is in when it starts within the width.
FittingByStart(hits, i, maxW) ==
    SelectSeq(SubSeq(hits, i, Len(hits)), LAMBDA t : t.start - hits[i].start <= maxW)

\* The hits a window starting at hit i can hold.
Fitting(hits, i, maxW) ==
    SelectSeq(SubSeq(hits, i, Len(hits)), LAMBDA t : t.end - hits[i].start <= maxW)

\* The run of hits with what is left of the width on both sides.
Padded(toks, run, maxW) ==
    LET slack == maxW - (Last(run).end - run[1].start)
    IN  [start |-> MaxOf({0, run[1].start - slack \div 2}),
         end |-> MinOf({Last(toks).end, Last(run).end + (slack - slack \div 2)})]

\* Locate: the run of hits of the greatest weight, padded.
Locate(text, query, maxW) ==
    LET toks == Tokens(text)
        hits == Hits(text, query)
        Sum(i) == Weight(text, query, Fitting(hits, i, maxW))
        best == CHOOSE i \in DOMAIN hits : \A j \in DOMAIN hits :
                  Sum(j) < Sum(i) \/ (Sum(j) = Sum(i) /\ i <= j)
        Shown(run) == IF run = <<>> THEN OutOfRange
                      ELSE [found |-> TRUE, hits |-> hits, score |-> Weight(text, query, run),
                            window |-> SnapToTokens(toks, Padded(toks, run, maxW))]
    IN  IF hits = <<>> THEN NotFound ELSE Shown(Fitting(hits, best, maxW))

\* FindPage: the sentence window, else the window of the most hits.
Located(text, query, maxW) ==
    LET passage == LocatePassage(text, query, maxW)
    IN  IF passage.found THEN passage ELSE Locate(text, query, maxW)

(***************************************************************************)
(* web/evidence.go: the window as marked and unmarked runs                 *)
(***************************************************************************)
\* The parts of the hits inside the window, in order.
Marks(win, hits) ==
    LET Clip(h) == [start |-> MaxOf({h.start, win.start}), end |-> MinOf({h.end, win.end})]
    IN  InOrder({Clip(h) : h \in {k \in Range(hits) : Clip(k).start < Clip(k).end}})

Run(start, end, mark) ==
    IF start < end THEN <<[start |-> start, end |-> end, mark |-> mark]>> ELSE <<>>

segmentize(win, hits) ==
    LET marks == Marks(win, hits)
        step(acc, m) == [pos |-> m.end, segs |-> acc.segs \o Run(acc.pos, m.start, FALSE)
                                                   \o Run(m.start, m.end, TRUE)]
        all == FoldLeft(step, [pos |-> win.start, segs |-> <<>>], marks)
    IN  all.segs \o Run(all.pos, win.end, FALSE)

(***************************************************************************)
(* outline/service.go: the selection of the writer in the chunk            *)
(***************************************************************************)
\* Every run of blanks as one space, and where each character came from.
Kept(text) == {i \in DOMAIN text : text[i] \in Blanks => (i = 1 \/ text[i - 1] \notin Blanks)}

Source(text) == Ascending(Kept(text))

Normal(text) ==
    LET src == Source(text)
    IN  [k \in DOMAIN src |-> IF text[src[k]] \in Blanks THEN Space ELSE text[src[k]]]

Trim(text) ==
    LET solid == {i \in DOMAIN text : text[i] \notin Blanks}
    IN  IF solid = {} THEN <<>> ELSE SubSeq(text, MinOf(solid), MaxOf(solid))

\* The offsets at which needle occurs in text.
Finds(text, needle) ==
    {i \in 0..(Len(text) - Len(needle)) : SubSeq(text, i + 1, i + Len(needle)) = needle}

locateSelection(text, selected) ==
    LET sel == Trim(selected)
        exact == Finds(text, sel)
        loose == Finds(Normal(text), Normal(sel))
        src == Source(text)
    IN  IF sel = <<>> THEN NotFound
        ELSE IF exact # {} THEN [found |-> TRUE, start |-> MinOf(exact),
                                 end |-> MinOf(exact) + Len(sel)]
        ELSE IF loose = {} THEN NotFound
        ELSE [found |-> TRUE, start |-> src[MinOf(loose) + 1] - 1,
              end |-> src[MinOf(loose) + Len(Normal(sel))]]

(***************************************************************************)
(* What must be true of them                                               *)
(***************************************************************************)
Inside(part, span) == span.start <= part.start /\ part.end <= span.end

WholeWords(text, span) ==
    \A t \in Range(Tokens(text)) : Inside(t, span) \/ t.end <= span.start \/ span.end <= t.start

(* No run of words as long as the overlap plus one is cut by the passages,    *)
(* and none of them is longer than the window.                                *)
PassagesSound(text, words, stride) ==
    LET toks == Tokens(text)
        Holds(p, i, j) == p.start <= toks[i].start /\ toks[j].end <= p.end
    IN  /\ \A i, j \in DOMAIN toks : (i <= j /\ j - i <= words - stride) =>
             \E p \in Range(Passages(text, words, stride)) : Holds(p, i, j)
        /\ \A p \in Range(Passages(text, words, stride)) :
             Cardinality({i \in DOMAIN toks : Holds(p, i, i)}) <= words

\* The runs are the window's text, marked exactly where the hits are.
MarkedRight(text, hits, window, segs) ==
    /\ FoldLeft(\o, <<>>, [i \in DOMAIN segs |-> Slice(text, segs[i])]) = Slice(text, window)
    /\ {[start |-> g.start, end |-> g.end] : g \in {s \in Range(segs) : s.mark}}
         = {h \in Range(hits) : Inside(h, window)}

ShownRight(text, hits, window, maxW) ==
    /\ 0 <= window.start /\ window.end <= Len(text) /\ Width(window) <= maxW
    /\ WholeWords(text, window)
    /\ \E h \in Range(hits) : Inside(h, window)
    /\ MarkedRight(text, hits, window, segmentize(window, hits))

\* No window as wide holds more, and this one holds what it was chosen for.
Heaviest(text, query, hits, found, maxW) ==
    LET Held(span) == Weight(text, query, SelectSeq(hits, LAMBDA t : Inside(t, span)))
    IN  /\ Held(found.window) = found.score
        /\ \A from \in 0..Len(text) :
             Held([start |-> from, end |-> from + maxW]) <= found.score

(* The window of a located text is no wider than asked, cuts no word and      *)
(* holds a hit; no window that wide holds hits of a greater weight than the   *)
(* one Locate chooses; and the runs it is shown as are its text, marked       *)
(* exactly where the hits are.  A text whose hits are all wider than the      *)
(* window makes the code index its hits out of range.                         *)
WindowSound(text, query, maxW) ==
    LET hits == Hits(text, query)
        Fit == {t \in Range(hits) : Width(t) <= maxW}
        Right(loc) == /\ loc.found <=> (hits # <<>>)
                      /\ (loc = OutOfRange) <=> (hits # <<>> /\ Fit = {})
                      /\ Fit # {} => ShownRight(text, loc.hits, loc.window, maxW)
    IN  /\ Right(Located(text, query, maxW))
        /\ Fit # {} => Heaviest(text, query, hits, Locate(text, query, maxW), maxW)

(* Whatever part of the chunk the writer selects, with its blanks as they are *)
(* or run together as a browser shows them, the span found says the same.     *)
SelectionSound(text) ==
    \A i, j \in DOMAIN text : i <= j =>
        LET part == SubSeq(text, i, j)
            Says(sel) == LET loc == locateSelection(text, sel)
                         IN  IF Trim(part) = <<>> THEN ~loc.found
                             ELSE /\ loc.found
                                  /\ Normal(Slice(text, loc)) = Normal(Trim(part))
        IN  Says(part) /\ Says(Normal(part))

=============================================================================
