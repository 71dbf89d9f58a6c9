---------------------------- MODULE Transcripts ----------------------------
(* From the text of an upload to its chunks (ingest/transcript.go), and from  *)
(* the chunks back to the reading view (transcript/transcript.go).            *)
EXTENDS Locator

\* Offsets of chunks count bytes: a wide letter takes two.
Bytes(text, wide) == Len(text) + Cardinality({i \in DOMAIN text : text[i] \in wide})

\* A run of blanks with two line ends in it separates paragraphs.
ParagraphEnds(text) ==
    {i \in DOMAIN text : /\ text[i] \notin Blanks
                         /\ \E j \in (i + 2)..Len(text) :
                              /\ \A k \in (i + 1)..j : text[k] \in Blanks
                              /\ text[j] = Newline
                              /\ \E k \in (i + 1)..(j - 1) : text[k] = Newline}

\* ParseTranscript: a segment per sentence, its blanks run together.
ParseTranscript(text) ==
    LET cuts == Cuts(text) \union ParagraphEnds(text)
        Start(cut) == MaxOf({0} \union {c \in cuts : c < cut})
        ordered == Ascending(cuts)
        sentences == [k \in DOMAIN ordered |->
                        Normal(Trim(SubSeq(text, Start(ordered[k]) + 1, ordered[k])))]
    IN  SelectSeq(sentences, LAMBDA s : s # <<>>)

\* The segments of a buffer with one space between any two.
Joined(segments) ==
    FoldLeft(LAMBDA acc, s : IF acc = <<>> THEN s ELSE acc \o <<Space>> \o s, <<>>, segments)

\* strings.Fields of a segment.
Words(segment) ==
    Cardinality({i \in DOMAIN segment : segment[i] \notin Blanks
                                        /\ (i = 1 \/ segment[i - 1] \in Blanks)})

ChunkOf(content, pos, wide) ==
    [content |-> content, start |-> pos, end |-> pos + Bytes(content, wide)]

Flush(state, wide) ==
    IF state.buf = <<>> THEN state
    ELSE LET c == ChunkOf(Joined(state.buf), state.pos, wide)
         IN  [chunks |-> Append(state.chunks, c), buf |-> <<>>, words |-> 0,
              pos |-> c.end + 1]

\* ChunkTranscript: whole sentences until a chunk has `target` words.
ChunkTranscript(segments, target, wide) ==
    LET Take(state, s) == LET more == [state EXCEPT !.buf = Append(@, s),
                                                    !.words = @ + Words(s)]
                          IN  IF more.words >= target THEN Flush(more, wide) ELSE more
        empty == [chunks |-> <<>>, buf |-> <<>>, words |-> 0, pos |-> 0]
    IN  Flush(FoldLeft(Take, empty, segments), wide).chunks

\* window: `radius` chunks on each side of the focus.  0 stands for no chunk.
Window(chunks, focus, radius) ==
    LET lo == MaxOf({1, focus - radius})
        hi == MinOf({Len(chunks), focus + radius})
    IN  [lo |-> lo, hi |-> hi, focus |-> focus,
         prev |-> lo - 1,
         next |-> IF hi < Len(chunks) THEN hi + 1 ELSE 0,
         text |-> Joined([i \in 1..(hi - lo + 1) |-> chunks[lo + i - 1].content])]

\* WindowFrom: the chunk that holds the offset, else the next one, else the last.
WindowFrom(chunks, offset, radius) ==
    LET reached == {i \in DOMAIN chunks : offset < chunks[i].end \/ chunks[i].start > offset}
    IN  Window(chunks, IF reached = {} THEN Len(chunks) ELSE MinOf(reached), radius)

\* transcriptReader: the part of the focus chunk to highlight.
Excerpt(chunks, win, fs, fe) ==
    LET content == chunks[win.focus].content
    IN  Slice(content, [start |-> MaxOf({0, fs}), end |-> MinOf({Len(content), fe})])

(***************************************************************************)
(* What must be true of them                                               *)
(***************************************************************************)
(* No word of the upload is lost, added or moved by its chunks; the offsets   *)
(* of the chunks follow each other in the text they make; and every chunk but *)
(* the last is just long enough.                                              *)
ChunksSound(text, target, wide) ==
    LET segs == ParseTranscript(text)
        chunks == ChunkTranscript(segs, target, wide)
        whole == Joined([i \in DOMAIN chunks |-> chunks[i].content])
    IN  /\ whole = Normal(Trim(text))
        /\ \A i \in DOMAIN chunks :
             chunks[i].start = Bytes(Joined([k \in 1..(i - 1) |-> chunks[k].content]), wide)
                               + (IF i > 1 THEN 1 ELSE 0)
        /\ \A i \in 1..(Len(chunks) - 1) : Words(chunks[i].content) >= target

(* A window reads as the transcript does, around its focus, and going on with *)
(* its next chunk until there is none leaves out nothing; a window asked for  *)
(* by offset holds the chunk of that offset.                                  *)
WindowsSound(chunks, radius) ==
    LET Win(i) == Window(chunks, i, radius)
        GoesOn(S) == \A i \in S : Win(i).next # 0 => Win(i).next \in S
    IN  /\ \A i \in DOMAIN chunks : /\ i \in Win(i).lo..Win(i).hi
                                    /\ Win(i).next # 0 => Win(Win(i).next).lo <= Win(i).hi + 1
                                    /\ (Win(i).prev = 0) <=> (Win(i).lo = 1)
        /\ \A S \in SUBSET DOMAIN chunks : (S # {} /\ GoesOn(S)) => \E i \in S : Win(i).hi = Len(chunks)
        /\ \A i \in DOMAIN chunks, o \in 0..chunks[Len(chunks)].end :
           (chunks[i].start <= o /\ o < chunks[i].end)
                => WindowFrom(chunks, o, radius).focus = i

(* The words highlighted in the reader are the window the card located.       *)
ReaderSound(chunks, query, maxW, radius) ==
    \A i \in DOMAIN chunks :
        LET Shown(loc) == (loc.found /\ loc # OutOfRange) =>
              Excerpt(chunks, Window(chunks, i, radius), loc.window.start, loc.window.end)
                = Slice(chunks[i].content, loc.window)
        IN  Shown(Located(chunks[i].content, query, maxW))

=============================================================================
