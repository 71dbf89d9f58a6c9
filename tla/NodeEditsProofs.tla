--------------------------- MODULE NodeEditsProofs ---------------------------
(***************************************************************************)
(* What bullets and quotes say, for any number of clients, bullets and     *)
(* quotes, any source text and any selections.                             *)
(*                                                                         *)
(* QuoteAgrees is not inductive: an edit that is about to write the row    *)
(* could put any text there.  Agreement says why it does not.  Of the      *)
(* edits that wrote the excerpt of a quote and not yet its row, either all *)
(* will be refused, their version being old, or one of them wrote the      *)
(* excerpt last; whoever commits makes all others old.  Snapshots copy     *)
(* this, in two statements (Copies), and a restore excuses every edit      *)
(* under way.  NoBlindOverwrite rests on what pages know (Pages): one      *)
(* loaded since the last restore has the text its version stands for.      *)
(***************************************************************************)
EXTENDS NodeEdits, SequenceTheorems, TLAPS

Edits(r, q) == OnQuote(r) /\ r.id = q

\* the edits of q that have its row still to write
AtPut(q) == {c \in Client : req[c].at = "put" /\ Edits(req[c], q)}

InSource(e) ==
  /\ e.rough => e.edited
  /\ ~e.rough => e.start <= e.end /\ e.text = Source(e.start, e.end)

(* What a request in flight may rely on. *)
RequestOK(c, r) ==
  /\ r.at # "idle" => r.id \in IF OnQuote(r) THEN Quote ELSE Bullet
  /\ r.at # "idle" /\ ~OnQuote(r) =>
       /\ r.at \in {"get", "put"}
       /\ r.version > 0 /\ page[c][r.id].version = r.version
       /\ r.at = "put" => r.read.version = r.version
  /\ r.at \in {"putEvidence", "put"} /\ OnQuote(r) =>
       r.new.text = r.read.text /\ InSource(r.new)

Requests == \A c \in Client : RequestOK(c, req[c])

Pages ==
  \A c \in Client \ rolled, b \in Bullet :
    page[c][b] # NoRow /\ row[b] # NoRow =>
      /\ page[c][b].version <= row[b].version
      /\ page[c][b].version = row[b].version => page[c][b].text = row[b].text

Agree(q) ==
  q \notin split /\ row[q] # NoRow =>
    /\ \A c \in Client : Edits(req[c], q) /\ req[c].at \in {"list", "putEvidence", "put"}
                           => req[c].read.version <= row[q].version
    /\ AtPut(q) = {} => row[q].text = excerpt[q].text
    /\ \/ \A c \in AtPut(q) : req[c].read.version < row[q].version
       \/ \E c \in AtPut(q) : excerpt[q].text = req[c].read.text

Agreement == \A q \in Quote : Agree(q)

Copies ==
  /\ gather.on =>
       /\ ~shot.taken
       /\ \A q \in Quote \ gather.mixed :
            gather.row[q] # NoRow /\ excerpt[q] # NoExcerpt => gather.row[q].text = excerpt[q].text
  /\ shot.taken =>
       \A q \in Quote : /\ InSource(shot.excerpt[q])
                        /\ q \notin shot.split /\ shot.row[q] # NoRow
                             => shot.row[q].text = shot.excerpt[q].text

Sources == \A q \in Quote : InSource(excerpt[q])

IInv == TypeOK /\ Requests /\ Pages /\ Agreement /\ Copies /\ Sources

-----------------------------------------------------------------------------
(* Texts and excerpts. *)

(* The source between two offsets is a text as long as they are apart.      *)
LEMMA SourceText ==
  ASSUME NEW i \in Int, NEW j \in Int, i <= j
  PROVE  /\ Source(i, j) \in Text /\ Len(Source(i, j)) = j - i
         /\ \A k \in 1..(j - i) : Source(i, j)[k] = i + k
<1>1. j - i \in Nat
  OBVIOUS
<1>2. \A k \in 1..(j - i) : i + k \in Title \cup Int
  OBVIOUS
<1> QED
  BY <1>1, <1>2 DEF Source, Text

(* Cutting a text at both ends: what is left is text again.                 *)
LEMMA Cutting ==
  ASSUME NEW t \in Text, NEW i \in Nat, NEW j \in Nat, i <= j, j <= Len(t)
  PROVE  /\ SubSeq(t, i + 1, j) \in Text /\ Len(SubSeq(t, i + 1, j)) = j - i
         /\ \A k \in 1..(j - i) : SubSeq(t, i + 1, j)[k] = t[i + k]
<1>1. \A k \in (i + 1)..j : t[k] \in Title \cup Int
  BY DEF Text
<1>2. SubSeq(t, i + 1, j) \in Seq(Title \cup Int)
  BY <1>1, SubSeqProperties DEF Text
<1>3. Len(SubSeq(t, i + 1, j)) = j - i
  BY SubSeqProperties DEF Text
<1>4. ASSUME NEW k \in 1..(j - i) PROVE SubSeq(t, i + 1, j)[k] = t[i + k]
  BY SubSeqProperties DEF Text
<1> QED
  BY <1>2, <1>3, <1>4 DEF Text

(* Cutting the source between two offsets moves the offsets.                *)
LEMMA CutSource ==
  ASSUME NEW a \in Int, NEW b \in Int, a <= b, NEW i \in Nat, NEW j \in Nat, i <= j, j <= b - a
  PROVE  SubSeq(Source(a, b), i + 1, j) = Source(a + i, a + j)
<1>1. Source(a, b) \in Text /\ Len(Source(a, b)) = b - a
      /\ \A k \in 1..(b - a) : Source(a, b)[k] = a + k
  BY SourceText
<1>2. Source(a + i, a + j) \in Text /\ Len(Source(a + i, a + j)) = j - i
      /\ \A k \in 1..(j - i) : Source(a + i, a + j)[k] = a + i + k
  <2>1. a + i \in Int /\ a + j \in Int /\ a + i <= a + j /\ (a + j) - (a + i) = j - i
    OBVIOUS
  <2> QED
    BY <2>1, SourceText
<1>3. SubSeq(Source(a, b), i + 1, j) \in Text /\ Len(SubSeq(Source(a, b), i + 1, j)) = j - i
      /\ \A k \in 1..(j - i) : SubSeq(Source(a, b), i + 1, j)[k] = Source(a, b)[i + k]
  BY <1>1, Cutting
<1>4. \A k \in 1..(j - i) : SubSeq(Source(a, b), i + 1, j)[k] = Source(a + i, a + j)[k]
  BY <1>1, <1>2, <1>3
<1> QED
  BY <1>2, <1>3, <1>4, SeqEqual DEF Text

(* A bullet starts untitled, a quote with the whole chunk.                  *)
LEMMA FirstTypes ==
  /\ NoRow \in Row /\ NoExcerpt \in Excerpt /\ InSource(NoExcerpt)
  /\ NewExcerpt \in Excerpt /\ InSource(NewExcerpt)
  /\ Rows(FirstRows, Node)
<1>1. <<>> \in Text
  BY DEF Text
<1>2. Source(0, 0) = <<>>
  BY SourceText, EmptySeq DEF Text
<1>3. NoRow \in Row
  BY <1>1 DEF NoRow, Row
<1>4. NoExcerpt \in Excerpt /\ InSource(NoExcerpt)
  BY <1>1, <1>2 DEF NoExcerpt, Excerpt, InSource
<1>5. Length \in Int /\ 0 <= Length
  BY NodeEditsAssumption
<1>6. Source(0, Length) \in Text
  BY <1>5, SourceText
<1>7. NewExcerpt \in Excerpt /\ InSource(NewExcerpt)
  BY <1>1, <1>5, <1>6 DEF NewExcerpt, NoExcerpt, Excerpt, InSource
<1>8. <<Untitled>> \in Text
  BY NodeEditsAssumption DEF Text
<1>9. Rows(FirstRows, Node)
  BY <1>7, <1>8 DEF Rows, FirstRows, NewRow, Row, Excerpt
<1> QED
  BY <1>3, <1>4, <1>7, <1>9

(* An edit of an excerpt that is the source between its bounds, or is       *)
(* marked as edited, leaves one that is (EditQuote, SetQuoteText).          *)
LEMMA EditInSource ==
  ASSUME NEW r \in Request, OnQuote(r), NEW e \in Excerpt, InSource(e)
  PROVE  Edit(r, e) \in Excerpt /\ InSource(Edit(r, e))
<1> DEFINE i == From(r)
           j == To(r, e.text)
           n == Len(e.text)
<1>1. e.text \in Text /\ n \in Nat /\ e.start \in Int /\ e.end \in Int
      /\ e.edited \in BOOLEAN /\ e.rough \in BOOLEAN
  BY DEF Excerpt, Text
<1>2. i \in Nat /\ j \in Int /\ j <= n
  BY <1>1 DEF From, To, Request
<1>3. CASE r.op = "SetQuoteText"
  <2>1. Edit(r, e) = Rewrite(e, r.text)
    BY <1>3 DEF Edit
  <2>2. r.text \in Text
    BY DEF Request
  <2> QED
    BY <1>1, <2>1, <2>2 DEF Rewrite, Excerpt, InSource
<1>4. CASE r.op # "SetQuoteText" /\ i >= j
  <2>1. ~(i < j)
    BY <1>2, <1>4
  <2>2. Edit(r, e) = e
    BY <1>4, <2>1 DEF Edit
  <2> QED
    BY <2>2
<1>5. CASE r.op # "SetQuoteText" /\ i < j
  <2>1. j \in Nat /\ i < j /\ j <= n /\ i <= n /\ ~(i >= j)
    BY <1>1, <1>2, <1>5
  <2>2. ~e.rough => e.start <= e.end /\ e.text = Source(e.start, e.end) /\ n = e.end - e.start
    BY <1>1, SourceText DEF InSource
  <2>3. CASE r.op = "Trim"
    <3>1. Edit(r, e) = TrimTo(e, i, j)
      BY <2>1, <2>3 DEF Edit
    <3> HIDE DEF i, j
    <3>2. SubSeq(e.text, i + 1, j) \in Text
      BY <1>1, <1>2, <2>1, Cutting
    <3>3. ~e.rough => SubSeq(e.text, i + 1, j) = Source(e.start + i, e.start + j)
      <4>1. SUFFICES ASSUME ~e.rough
                     PROVE  SubSeq(Source(e.start, e.end), i + 1, j) = Source(e.start + i, e.start + j)
        BY <2>2
      <4>2. i <= j /\ j <= e.end - e.start
        BY <1>2, <2>1, <2>2, <4>1
      <4> HIDE DEF n
      <4> QED
        BY <1>1, <1>2, <2>1, <2>2, <4>1, <4>2, CutSource
    <3> QED
      BY <1>1, <1>2, <2>1, <2>2, <3>1, <3>2, <3>3 DEF TrimTo, Excerpt, InSource
  <2>4. CASE r.op = "Splice"
    <3> DEFINE head == SubSeq(e.text, 1, i)
               tail == SubSeq(e.text, j + 1, n)
    <3>1. Edit(r, e) = SpliceOut(e, i, j)
      BY <2>1, <2>4 DEF Edit
    <3> HIDE DEF i, j
    <3>2. head \in Text /\ Len(head) = i
      <4>1. 0 \in Nat /\ 0 <= i /\ 0 + 1 = 1 /\ i - 0 = i
        BY <1>2
      <4> QED
        BY <1>1, <1>2, <2>1, <4>1, Cutting
    <3>3. tail \in Text /\ Len(tail) = n - j
      <4>1. n <= n
        BY <1>1
      <4> QED
        BY <1>1, <2>1, <4>1, Cutting
    <3>4. head \o tail \in Text
      BY <3>2, <3>3, ConcatProperties DEF Text
    <3>5. i = 0 => head \o tail = tail
      BY <3>2, <3>3, EmptySeq, ConcatEmptySeq DEF Text
    <3>6. j = n => head \o tail = head
      BY <2>1, <3>2, <3>3, EmptySeq, ConcatEmptySeq DEF Text
    <3>7. ~e.rough /\ i = 0 => head \o tail = Source(e.start + j, e.end)
      <4>1. SUFFICES ASSUME ~e.rough PROVE tail = Source(e.start + j, e.end)
        BY <3>5
      <4>2. n <= e.end - e.start /\ e.start + n = e.end /\ n = Len(e.text)
        BY <1>1, <2>2, <4>1
      <4>3. SubSeq(Source(e.start, e.end), j + 1, n) = Source(e.start + j, e.start + n)
        <5>1. n \in Nat /\ j <= n
          BY <1>1, <2>1
        <5> HIDE DEF n
        <5> QED
          BY <1>1, <2>1, <2>2, <4>1, <4>2, <5>1, CutSource
      <4> QED
        BY <2>2, <4>1, <4>2, <4>3
    <3>8. ~e.rough /\ j = n => head \o tail = Source(e.start, e.start + i)
      <4>1. SUFFICES ASSUME ~e.rough PROVE head = Source(e.start, e.start + i)
        BY <3>6
      <4>2. 0 + 1 = 1 /\ e.start + 0 = e.start /\ 0 \in Nat /\ 0 <= i /\ i <= e.end - e.start
        BY <1>1, <1>2, <2>1, <2>2, <4>1
      <4>3. SubSeq(Source(e.start, e.end), 0 + 1, i) = Source(e.start + 0, e.start + i)
        <5> HIDE DEF n
        <5> QED
          BY <1>1, <1>2, <2>2, <4>1, <4>2, CutSource
      <4> QED
        BY <1>1, <1>2, <2>2, <4>1, <4>2, <4>3
    <3> HIDE DEF head, tail
    <3>9. Edit(r, e) =
            [text |-> head \o tail,
             start |-> IF i = 0 THEN e.start + j ELSE e.start,
             end |-> IF i > 0 /\ j = n THEN e.start + i ELSE e.end,
             edited |-> TRUE, rough |-> e.rough \/ (i > 0 /\ j < n)]
      BY <3>1 DEF SpliceOut, head, tail
    <3> HIDE DEF n
    <3> DEFINE start == IF i = 0 THEN e.start + j ELSE e.start
               end == IF i > 0 /\ j = n THEN e.start + i ELSE e.end
               rough == e.rough \/ (i > 0 /\ j < n)
    <3>10. start \in Int /\ end \in Int /\ rough \in BOOLEAN
      BY <1>1, <1>2, <2>1
    <3>11. ~rough => start <= end /\ head \o tail = Source(start, end)
      <4>1. SUFFICES ASSUME ~rough PROVE start <= end /\ head \o tail = Source(start, end)
        OBVIOUS
      <4>2. ~e.rough /\ (i = 0 \/ j = n)
        BY <1>1, <1>2, <2>1, <4>1
      <4>3. CASE i = 0
        BY <1>1, <1>2, <2>1, <2>2, <3>7, <4>2, <4>3
      <4>4. CASE i > 0 /\ j = n
        BY <1>1, <1>2, <2>1, <2>2, <3>8, <4>2, <4>4
      <4> QED
        BY <1>2, <4>2, <4>3, <4>4
    <3> HIDE DEF start, end, rough
    <3>12. Edit(r, e) = [text |-> head \o tail, start |-> start, end |-> end, edited |-> TRUE,
                         rough |-> rough]
      BY <3>9 DEF start, end, rough
    <3> QED
      BY <3>4, <3>10, <3>11, <3>12 DEF Excerpt, InSource
  <2>5. r.op \in {"Trim", "Splice"}
    BY <1>5 DEF OnQuote
  <2> QED
    BY <2>3, <2>4, <2>5
<1> QED
  BY <1>1, <1>2, <1>3, <1>4, <1>5

-----------------------------------------------------------------------------
(* Requests and their records. *)

(* What a browser sends, and a request that is over, are requests.          *)
LEMMA AskedTypes ==
  /\ Idle \in Request /\ Idle.at = "idle"
  /\ \A op \in AllOps, n \in Node, t \in Text, i \in Int, j \in Int, v \in Nat :
       Asked(op, n, t, i, j, v) \in Request
<1>1. <<>> \in Text
  BY DEF Text
<1>2. Idle.id \in Node \cup {Idle.id} /\ "SetTitle" \in AllOps
  BY DEF AllOps
<1>3. Idle = [at |-> "idle", op |-> "SetTitle", id |-> Idle.id, text |-> <<>>,
              from |-> 0, to |-> 0, version |-> 0, read |-> NoRow, new |-> NoExcerpt]
  BY DEF Idle
<1>4. Idle \in Request /\ Idle.at = "idle"
  BY <1>1, <1>2, <1>3, FirstTypes DEF Request
<1>5. ASSUME NEW op \in AllOps, NEW n \in Node, NEW t \in Text, NEW i \in Int, NEW j \in Int,
             NEW v \in Nat
      PROVE  Asked(op, n, t, i, j, v) \in Request
  BY FirstTypes DEF Asked, Request
<1> QED
  BY <1>4, <1>5

(* A request that has read its row: where it is, what it knows.             *)
LEMMA LoadedFields ==
  ASSUME NEW r \in Request, NEW n \in Row
  PROVE  LET l == Loaded(r, n)
         IN /\ l \in Request
            /\ l.at = (IF OnQuote(r) THEN "list" ELSE "put") /\ l.read = Written(r, n)
            /\ l.op = r.op /\ l.id = r.id /\ l.version = r.version
<1> DEFINE a == IF OnQuote(r) THEN "list" ELSE "put"
           w == Written(r, n)
           r1 == [r EXCEPT !.at = a]
           l == [r1 EXCEPT !.read = w]
<1>1. a \in {"list", "put"}
  OBVIOUS
<1>2. w \in Row
  BY DEF Written, Row, Request
<1>3. Loaded(r, n) = l
  BY DEF Loaded
<1> HIDE DEF a, w
<1>4. r1 \in Request /\ r1.at = a /\ r1.op = r.op /\ r1.id = r.id /\ r1.version = r.version
  BY <1>1 DEF Request
<1> HIDE DEF r1
<1>5. l \in Request /\ l.at = a /\ l.read = w /\ l.op = r.op /\ l.id = r.id /\ l.version = r.version
  BY <1>2, <1>4 DEF Request
<1> QED
  BY <1>3, <1>5 DEF a, w

(* A request that is going to write an excerpt.                             *)
LEMMA HoldingFields ==
  ASSUME NEW r \in Request, NEW e \in Excerpt
  PROVE  LET h == Holding(r, e)
         IN /\ h \in Request
            /\ h.at = "putEvidence" /\ h.new = e /\ h.read.text = e.text
            /\ h.read.version = r.read.version /\ h.op = r.op /\ h.id = r.id
<1> DEFINE r1 == [r EXCEPT !.at = "putEvidence"]
           r2 == [r1 EXCEPT !.from = 0]
           r3 == [r2 EXCEPT !.to = 0]
           r4 == [r3 EXCEPT !.new = e]
           w == [text |-> e.text, version |-> r.read.version]
           h == [r4 EXCEPT !.read = w]
<1>1. w \in Row
  BY DEF Row, Request, Excerpt
<1>2. r1 \in Request /\ r1.at = "putEvidence" /\ r1.read = r.read /\ r1.op = r.op /\ r1.id = r.id
  BY DEF Request
<1> HIDE DEF r1
<1>3. r2 \in Request /\ r2.at = "putEvidence" /\ r2.read = r.read /\ r2.op = r.op /\ r2.id = r.id
  BY <1>2 DEF Request
<1> HIDE DEF r2
<1>4. r3 \in Request /\ r3.at = "putEvidence" /\ r3.read = r.read /\ r3.op = r.op /\ r3.id = r.id
  BY <1>3 DEF Request
<1> HIDE DEF r3
<1>5. r4 \in Request /\ r4.at = "putEvidence" /\ r4.read = r.read /\ r4.op = r.op /\ r4.id = r.id
      /\ r4.new = e
  BY <1>4 DEF Request
<1> HIDE DEF r4
<1>6. [r4.read EXCEPT !.text = e.text] = w
  BY <1>5 DEF Request, Row
<1>7. Holding(r, e) = h
  BY <1>6 DEF Holding, r1, r2, r3, r4
<1> HIDE DEF w
<1>8. h \in Request /\ h.at = "putEvidence" /\ h.read = w /\ h.op = r.op /\ h.id = r.id /\ h.new = e
  BY <1>1, <1>5 DEF Request
<1> QED
  BY <1>7, <1>8 DEF w

-----------------------------------------------------------------------------
(* What a step may do to the pages: nothing; send the outline to a client   *)
(* again; or tell it that what it typed is saved, once it is.               *)

NoContent(c) ==
  /\ rolled' = rolled
  /\ req[c].id \in Bullet /\ req[c].version > 0
  /\ page[c][req[c].id].version = req[c].version
  /\ page' = [page EXCEPT ![c][req[c].id].text = req[c].text]
  /\ row'[req[c].id] # NoRow => \/ row'[req[c].id].text = req[c].text
                                \/ page[c][req[c].id].version < row'[req[c].id].version

Resent(c) ==
  /\ page' = [page EXCEPT ![c] = [b \in Bullet |-> row'[b]]]
  /\ rolled' = rolled \ {c}

\* rows stay, or go up in version, or go
Upwards ==
  \A b \in Bullet : row'[b] # NoRow =>
    row[b] # NoRow /\ (row'[b] = row[b] \/ row'[b].version > row[b].version)

(* Such a step keeps what pages know.                                       *)
LEMMA PagesKept ==
  ASSUME TypeOK, Pages, Rows(row', Node), Upwards, NEW c \in Client,
         UNCHANGED <<page, rolled>> \/ Resent(c) \/ NoContent(c)
  PROVE  /\ page' \in [Client -> [Bullet -> Row]] /\ \A d \in Client : Rows(page'[d], Bullet)
         /\ rolled' \subseteq Client
         /\ \A d \in Client \ {c} : page'[d] = page[d]
         /\ Pages'
<1>1. /\ page \in [Client -> [Bullet -> Row]] /\ \A d \in Client : Rows(page[d], Bullet)
      /\ rolled \subseteq Client /\ req[c] \in Request
      /\ \A b \in Bullet : row[b] \in Row /\ row'[b] \in Row
      /\ \A b \in Bullet : row'[b] = NoRow \/ row'[b].version >= 1
  BY DEF TypeOK, Rows, Node
<1>2. \A v : v \in Row => v.version \in Nat
  BY DEF Row
<1>3. ASSUME NEW d \in Client, page'[d] = page[d], d \in rolled' <=> d \in rolled,
             NEW b \in Bullet, d \notin rolled', page'[d][b] # NoRow, row'[b] # NoRow
      PROVE  /\ page'[d][b].version <= row'[b].version
             /\ page'[d][b].version = row'[b].version => page'[d][b].text = row'[b].text
  <2>1. /\ row[b] # NoRow /\ (row'[b] = row[b] \/ row'[b].version > row[b].version)
        /\ page[d][b].version <= row[b].version
        /\ page[d][b].version = row[b].version => page[d][b].text = row[b].text
    BY <1>3 DEF Upwards, Pages
  <2>2. page[d][b].version \in Nat /\ row[b].version \in Nat /\ row'[b].version \in Nat
    BY <1>1, <1>2
  <2> QED
    BY <1>3, <2>1, <2>2
<1>4. CASE UNCHANGED <<page, rolled>>
  BY <1>1, <1>3, <1>4 DEF Pages
<1>5. CASE Resent(c)
  <2>1. page'[c] = [b \in Bullet |-> row'[b]] /\ page' \in [Client -> [Bullet -> Row]]
        /\ (\A d \in Client \ {c} : page'[d] = page[d]) /\ rolled' = rolled \ {c}
    BY <1>1, <1>5 DEF Resent
  <2>2. Rows(page'[c], Bullet)
    BY <1>1, <2>1 DEF Rows
  <2>3. \A d \in Client : Rows(page'[d], Bullet)
    BY <1>1, <2>1, <2>2
  <2>4. ASSUME NEW d \in Client \ rolled', NEW b \in Bullet, page'[d][b] # NoRow, row'[b] # NoRow
        PROVE  /\ page'[d][b].version <= row'[b].version
               /\ page'[d][b].version = row'[b].version => page'[d][b].text = row'[b].text
    <3>1. CASE d = c
      <4>1. page'[d][b] = row'[b]
        BY <2>1, <3>1
      <4>2. row'[b].version \in Nat
        BY <1>1, <1>2
      <4> QED
        BY <4>1, <4>2
    <3>2. CASE d # c
      BY <1>3, <2>1, <2>4, <3>2
    <3> QED
      BY <3>1, <3>2
  <2> QED
    BY <1>1, <2>1, <2>3, <2>4 DEF Pages
<1>6. CASE NoContent(c)
  <2> DEFINE n == req[c].id
             new == [page[c][n] EXCEPT !.text = req[c].text]
  <2>1. n \in Bullet /\ page[c][n] \in Row /\ page[c][n].version > 0 /\ rolled' = rolled
    BY <1>1, <1>6 DEF NoContent
  <2>2. new \in Row /\ new.text = req[c].text /\ new.version = page[c][n].version
    BY <1>1, <2>1 DEF Row, Request
  <2>3. page' = [page EXCEPT ![c] = [page[c] EXCEPT ![n] = new]]
    BY <1>6 DEF NoContent
  <2> HIDE DEF new
  <2>4. /\ page' \in [Client -> [Bullet -> Row]] /\ \A d \in Client \ {c} : page'[d] = page[d]
        /\ page'[c][n] = new /\ \A b \in Bullet \ {n} : page'[c][b] = page[c][b]
        /\ page'[c] \in [Bullet -> Row]
    BY <1>1, <2>1, <2>2, <2>3
  <2>5. new.version >= 1
    BY <1>2, <2>1, <2>2
  <2>6. \A b \in Bullet : page'[c][b] = NoRow \/ page'[c][b].version >= 1
    BY <1>1, <2>4, <2>5 DEF Rows
  <2>7. \A d \in Client : Rows(page'[d], Bullet)
    BY <1>1, <2>4, <2>6 DEF Rows
  <2>8. ASSUME NEW d \in Client \ rolled', NEW b \in Bullet, page'[d][b] # NoRow, row'[b] # NoRow
        PROVE  /\ page'[d][b].version <= row'[b].version
               /\ page'[d][b].version = row'[b].version => page'[d][b].text = row'[b].text
    <3>1. CASE d = c /\ b = n
      <4>1. page[c][n] # NoRow
        BY <2>1 DEF NoRow
      <4>2. /\ row[b] # NoRow /\ (row'[b] = row[b] \/ row'[b].version > row[b].version)
            /\ page[c][b].version <= row[b].version
        BY <2>1, <2>8, <3>1, <4>1 DEF Upwards, Pages
      <4>3. page[c][b].version \in Nat /\ row[b].version \in Nat /\ row'[b].version \in Nat
        BY <1>1, <1>2
      <4>4. row'[b].text = req[c].text \/ page[c][b].version < row'[b].version
        BY <1>6, <2>8, <3>1 DEF NoContent
      <4> QED
        BY <2>2, <2>4, <3>1, <4>2, <4>3, <4>4
    <3>2. CASE d = c /\ b # n
      <4>1. page'[d][b] = page[d][b]
        BY <2>4, <3>2
      <4>2. /\ row[b] # NoRow /\ (row'[b] = row[b] \/ row'[b].version > row[b].version)
            /\ page[d][b].version <= row[b].version
            /\ page[d][b].version = row[b].version => page[d][b].text = row[b].text
        BY <2>1, <2>8, <4>1 DEF Upwards, Pages
      <4>3. page[d][b].version \in Nat /\ row[b].version \in Nat /\ row'[b].version \in Nat
        BY <1>1, <1>2
      <4> QED
        BY <4>1, <4>2, <4>3
    <3>3. CASE d # c
      BY <1>3, <2>1, <2>4, <2>8, <3>3
    <3> QED
      BY <3>1, <3>2, <3>3
  <2> QED
    BY <1>1, <2>1, <2>4, <2>7, <2>8 DEF Pages
<1> QED
  BY <1>4, <1>5, <1>6

(* Agreement about a quote survives what happens elsewhere.                 *)
LEMMA AgreementStable ==
  ASSUME TypeOK, NEW q \in Quote, Agree(q), NEW c \in Client,
         row'[q] = row[q], excerpt'[q] = excerpt[q], q \notin split' => q \notin split,
         \A d \in Client \ {c} : req'[d] = req[d],
         q \notin split' => c \notin AtPut(q),
         ~(req'[c].at = "put" /\ Edits(req'[c], q)),
         q \notin split' /\ row[q] # NoRow /\ Edits(req'[c], q)
           /\ req'[c].at \in {"list", "putEvidence"} => req'[c].read.version <= row[q].version
  PROVE  Agree(q)'
<1>1. SUFFICES ASSUME q \notin split', row[q] # NoRow
               PROVE  /\ \A d \in Client : Edits(req'[d], q)
                                           /\ req'[d].at \in {"list", "putEvidence", "put"}
                           => req'[d].read.version <= row[q].version
                      /\ AtPut(q)' = {} => row[q].text = excerpt[q].text
                      /\ \/ \A d \in AtPut(q)' : req'[d].read.version < row[q].version
                         \/ \E d \in AtPut(q)' : excerpt[q].text = req'[d].read.text
  BY DEF Agree, AtPut
<1>2. AtPut(q)' = AtPut(q) /\ c \notin AtPut(q)
  BY <1>1 DEF AtPut
<1>3. /\ \A d \in Client : Edits(req[d], q) /\ req[d].at \in {"list", "putEvidence", "put"}
                             => req[d].read.version <= row[q].version
      /\ AtPut(q) = {} => row[q].text = excerpt[q].text
      /\ \/ \A d \in AtPut(q) : req[d].read.version < row[q].version
         \/ \E d \in AtPut(q) : excerpt[q].text = req[d].read.text
  BY <1>1 DEF Agree
<1>4. \A d \in AtPut(q) : req'[d] = req[d]
  BY <1>2 DEF AtPut
<1>5. ASSUME NEW d \in Client, Edits(req'[d], q), req'[d].at \in {"list", "putEvidence", "put"}
      PROVE  req'[d].read.version <= row[q].version
  BY <1>1, <1>3, <1>5
<1> QED
  BY <1>2, <1>3, <1>4, <1>5

(* A step in which one request moves on without writing a row or an         *)
(* excerpt, and its page with it.                                           *)
LEMMA RequestMoves ==
  ASSUME IInv, NEW c \in Client, NEW r \in Request, req' = [req EXCEPT ![c] = r],
         UNCHANGED <<row, excerpt, gather, shot, restored>>, asked' \in 0..MaxRequests,
         split \subseteq split', split' \subseteq Quote,
         UNCHANGED <<page, rolled>> \/ Resent(c) \/ NoContent(c),
         RequestOK(c, r)',
         \A q \in Quote \ split' :
           /\ c \notin AtPut(q) /\ ~(r.at = "put" /\ Edits(r, q))
           /\ row[q] # NoRow /\ Edits(r, q) /\ r.at \in {"list", "putEvidence"}
                => r.read.version <= row[q].version
  PROVE  IInv'
<1>1. TypeOK /\ Requests /\ Pages /\ Agreement /\ Copies /\ Sources
  BY DEF IInv
<1>2. req' \in [Client -> Request] /\ req'[c] = r /\ \A d \in Client \ {c} : req'[d] = req[d]
  BY <1>1 DEF TypeOK
<1>3. Rows(row', Node) /\ Upwards
  BY <1>1 DEF TypeOK, Upwards
<1>4. /\ page' \in [Client -> [Bullet -> Row]] /\ \A d \in Client : Rows(page'[d], Bullet)
      /\ rolled' \subseteq Client /\ Pages'
      /\ \A d \in Client \ {c} : page'[d] = page[d]
  BY <1>1, <1>3, PagesKept
<1>5. TypeOK'
  BY <1>1, <1>2, <1>4 DEF TypeOK
<1>6. Requests'
  <2>1. ASSUME NEW d \in Client PROVE RequestOK(d, req[d])'
    <3>1. CASE d = c
      BY <1>2, <3>1 DEF RequestOK
    <3>2. CASE d # c
      BY <1>1, <1>2, <1>4, <3>2 DEF Requests, RequestOK
    <3> QED
      BY <3>1, <3>2
  <2> QED
    BY <2>1 DEF Requests
<1>7. Agreement'
  <2>1. ASSUME NEW q \in Quote PROVE Agree(q)'
    <3>1. Agree(q) /\ row'[q] = row[q] /\ excerpt'[q] = excerpt[q] /\ (q \notin split' => q \notin split)
      BY <1>1 DEF Agreement
    <3>2. CASE q \in split'
      BY <3>2 DEF Agree
    <3>3. CASE q \notin split'
      <4>1. /\ c \notin AtPut(q) /\ ~(req'[c].at = "put" /\ Edits(req'[c], q))
            /\ row[q] # NoRow /\ Edits(req'[c], q) /\ req'[c].at \in {"list", "putEvidence"}
                 => req'[c].read.version <= row[q].version
        BY <1>2, <3>3
      <4> QED
        BY <1>1, <1>2, <3>1, <4>1, AgreementStable
    <3> QED
      BY <3>2, <3>3
  <2> QED
    BY <2>1 DEF Agreement
<1>8. Copies' /\ Sources'
  BY <1>1 DEF Copies, Sources
<1> QED
  BY <1>4, <1>5, <1>6, <1>7, <1>8 DEF IInv

(* A request that is over.                                                  *)
LEMMA RequestEnds ==
  ASSUME IInv, NEW c \in Client, Finish(c),
         UNCHANGED <<row, excerpt, gather, shot, restored, asked>>,
         UNCHANGED <<page, rolled>> \/ Resent(c) \/ NoContent(c),
         (Cut(c) /\ req[c].at # "idle") \/ (split' = split /\ ~(req[c].at = "put" /\ OnQuote(req[c])))
  PROVE  IInv'
<1>1. TypeOK /\ RequestOK(c, req[c])
  BY DEF IInv, Requests
<1>2. Idle \in Request /\ Idle.at = "idle"
  BY AskedTypes
<1>3. RequestOK(c, Idle)'
  BY <1>2 DEF RequestOK
<1>4. req[c] \in Request
  BY <1>1 DEF TypeOK
<1>5. split \subseteq split' /\ split' \subseteq Quote
        /\ \A q \in Quote \ split' : c \notin AtPut(q)
  <2>1. CASE Cut(c) /\ OnQuote(req[c]) /\ req[c].at # "idle"
    <3>1. req[c].id \in Quote
      BY <1>1, <2>1 DEF RequestOK
    <3> QED
      BY <1>1, <2>1, <3>1 DEF Cut, TypeOK, AtPut, Edits
  <2>2. CASE Cut(c) /\ ~OnQuote(req[c])
    BY <1>1, <2>2 DEF Cut, TypeOK, AtPut, Edits
  <2>3. CASE split' = split /\ ~(req[c].at = "put" /\ OnQuote(req[c]))
    BY <1>1, <2>3 DEF TypeOK, AtPut, Edits
  <2> QED
    BY <2>1, <2>2, <2>3
<1>6. asked' \in 0..MaxRequests
  BY <1>1 DEF TypeOK
<1>7. \A q \in Quote \ split' :
           /\ c \notin AtPut(q) /\ ~(Idle.at = "put" /\ Edits(Idle, q))
           /\ row[q] # NoRow /\ Edits(Idle, q) /\ Idle.at \in {"list", "putEvidence"}
                => Idle.read.version <= row[q].version
  BY <1>2, <1>5
<1> QED
  BY <1>2, <1>3, <1>5, <1>6, <1>7, RequestMoves DEF Finish

-----------------------------------------------------------------------------
(* One lemma for every action. *)

(* What a client asks for is about a bullet its page shows, or a quote.     *)
LEMMA AskKeeps ==
  ASSUME IInv, NEW c \in Client, Ask(c)
  PROVE  IInv'
<1>1. TypeOK
  BY DEF IInv
<1>2. PICK r \in Typed(c) \cup Selected \cup Rewritten :
        r.op \in Ops /\ req' = [req EXCEPT ![c] = r]
  BY DEF Ask
<1>3. r \in Request /\ r.at = "get" /\ RequestOK(c, r)'
  <2>1. CASE r \in Typed(c)
    <3>1. PICK op \in {"SetTitle", "PersistAnchor"}, n \in {b \in Bullet : page[c][b] # NoRow},
               t \in Title : r = Asked(op, n, <<t>>, 0, 0, page[c][n].version)
      BY <2>1 DEF Typed
    <3>2. page[c][n] \in Row /\ page[c][n].version >= 1
      BY <1>1 DEF TypeOK, Rows
    <3>3. <<t>> \in Text /\ page[c][n].version \in Nat /\ n \in Node /\ op \in AllOps
      BY <3>2 DEF Row, Text, Node, AllOps
    <3>4. r \in Request
      BY <3>1, <3>3, AskedTypes
    <3>5. r.at = "get" /\ r.op = op /\ r.id = n /\ r.version = page[c][n].version
      BY <3>1 DEF Asked
    <3>6. ~OnQuote(r) /\ page' = page
      BY <3>5 DEF OnQuote, Ask
    <3> QED
      BY <3>2, <3>3, <3>4, <3>5, <3>6 DEF RequestOK
  <2>2. CASE r \in Selected
    <3>1. PICK op \in {"Trim", "Splice"}, q \in Quote, s \in Selections :
               r = Asked(op, q, <<>>, s[1], s[2], 0)
      BY <2>2 DEF Selected
    <3>2. s[1] \in Int /\ s[2] \in Int /\ <<>> \in Text /\ q \in Node /\ op \in AllOps
      BY NodeEditsAssumption DEF Text, Node, AllOps
    <3>3. r \in Request
      BY <3>1, <3>2, AskedTypes
    <3>4. r.at = "get" /\ r.op = op /\ r.id = q
      BY <3>1 DEF Asked
    <3> QED
      BY <3>3, <3>4 DEF RequestOK, OnQuote
  <2>3. CASE r \in Rewritten
    <3>1. PICK q \in Quote : r = Asked("SetQuoteText", q, <<0>>, 0, 0, 0)
      BY <2>3 DEF Rewritten
    <3>2. <<0>> \in Text /\ q \in Node /\ "SetQuoteText" \in AllOps
      BY DEF Text, Node, AllOps
    <3>3. r \in Request
      BY <3>1, <3>2, AskedTypes
    <3>4. r.at = "get" /\ r.op = "SetQuoteText" /\ r.id = q
      BY <3>1 DEF Asked
    <3> QED
      BY <3>3, <3>4 DEF RequestOK, OnQuote
  <2> QED
    BY <1>2, <2>1, <2>2, <2>3
<1>4. UNCHANGED <<row, excerpt, gather, shot, restored, page, rolled, split>>
  BY DEF Ask, store, snap
<1>5. asked' \in 0..MaxRequests
  BY <1>1, NodeEditsAssumption DEF Ask, TypeOK
<1>6. split \subseteq split' /\ split' \subseteq Quote
  BY <1>1, <1>4 DEF TypeOK
<1>7. \A q \in Quote \ split' :
           /\ c \notin AtPut(q) /\ ~(r.at = "put" /\ Edits(r, q))
           /\ row[q] # NoRow /\ Edits(r, q) /\ r.at \in {"list", "putEvidence"}
                => r.read.version <= row[q].version
  BY <1>3 DEF AtPut, Ask
<1> QED
  BY <1>2, <1>3, <1>4, <1>5, <1>6, <1>7, RequestMoves

(* A request that read its node: it ends, or knows the version it read, or  *)
(* the one its page showed.                                                 *)
LEMMA GetNodeKeeps ==
  ASSUME IInv, NEW c \in Client, GetNode(c)
  PROVE  IInv'
<1> DEFINE r == req[c]
           n == row[r.id]
<1>1. TypeOK /\ RequestOK(c, r) /\ r.at = "get" /\ r \in Request
  BY DEF IInv, Requests, GetNode, TypeOK
<1>2. r.id \in Node /\ n \in Row
  BY <1>1 DEF RequestOK, Node, TypeOK, Rows
<1>3. UNCHANGED <<row, excerpt, gather, shot, restored, asked, split>>
  BY DEF GetNode, store, snap
<1>4. ~(r.at = "put" /\ OnQuote(r))
  BY <1>1
<1>5. CASE n = NoRow /\ Finish(c) /\ UNCHANGED <<page, rolled>>
  BY <1>3, <1>4, <1>5, RequestEnds
<1>6. CASE n # NoRow /\ ~OnQuote(r) /\ n.text = r.text /\ row' = row /\ Done(c)
  <2>1. Finish(c)
    BY <1>6 DEF Done, Answer, AnswerNoContent
  <2>2. CASE r.op = "SetTitle"
    <3>1. AnswerNoContent(c)
      BY <1>6, <2>2 DEF Done
    <3>2. NoContent(c)
      BY <1>1, <1>3, <1>6, <3>1 DEF NoContent, AnswerNoContent, RequestOK
    <3> QED
      BY <1>3, <1>4, <2>1, <3>2, RequestEnds
  <2>3. CASE r.op # "SetTitle"
    <3>1. Resent(c)
      BY <1>6, <2>3 DEF Done, Answer, Resent
    <3> QED
      BY <1>3, <1>4, <2>1, <3>1, RequestEnds
  <2> QED
    BY <2>2, <2>3
<1>7. CASE /\ n # NoRow /\ (OnQuote(r) \/ n.text # r.text)
           /\ req' = [req EXCEPT ![c] = Loaded(r, n)]
           /\ UNCHANGED <<page, rolled>>
  <2>0. PICK l : l = Loaded(r, n)
    OBVIOUS
  <2>1. /\ l \in Request
        /\ l.at = (IF OnQuote(r) THEN "list" ELSE "put") /\ l.read = Written(r, n)
        /\ l.op = r.op /\ l.id = r.id /\ l.version = r.version
    BY <1>1, <1>2, <2>0, LoadedFields
  <2>2. OnQuote(l) <=> OnQuote(r)
    BY <2>1 DEF OnQuote
  <2>3. ~OnQuote(r) => l.read.version = r.version /\ r.version > 0
    BY <1>1, <2>1 DEF Written, RequestOK
  <2>4. RequestOK(c, l)'
    BY <1>1, <1>7, <2>1, <2>2, <2>3 DEF RequestOK
  <2>5. \A q \in Quote \ split' :
           /\ c \notin AtPut(q) /\ ~(l.at = "put" /\ Edits(l, q))
           /\ row[q] # NoRow /\ Edits(l, q) /\ l.at \in {"list", "putEvidence"}
                => l.read.version <= row[q].version
    <3>1. ASSUME NEW q \in Quote, Edits(l, q)
          PROVE  l.read.version <= row[q].version
      <4>1. l.read = row[q]
        BY <2>1, <2>2, <3>1 DEF Edits, Written
      <4>2. row[q].version \in Nat
        BY <1>1 DEF TypeOK, Rows, Row, Node
      <4> QED
        BY <4>1, <4>2
    <3> QED
      BY <1>1, <2>1, <2>2, <3>1 DEF AtPut, Edits
  <2>6. req' = [req EXCEPT ![c] = l]
    BY <1>7, <2>0
  <2>7. asked' \in 0..MaxRequests /\ split \subseteq split' /\ split' \subseteq Quote
    BY <1>1, <1>3 DEF TypeOK
  <2> QED
    BY <1>3, <1>7, <2>1, <2>4, <2>5, <2>6, <2>7, RequestMoves
<1> QED
  BY <1>5, <1>6, <1>7 DEF GetNode

(* An edit that read its excerpt: it ends, or has made a new one that is    *)
(* the source between its bounds, or marked.                                *)
LEMMA ListEvidenceKeeps ==
  ASSUME IInv, NEW c \in Client, ListEvidence(c)
  PROVE  IInv'
<1> DEFINE r == req[c]
           e == excerpt[r.id]
<1>1. TypeOK /\ RequestOK(c, r) /\ r.at = "list" /\ r \in Request
  BY DEF IInv, Requests, ListEvidence, TypeOK
<1>2. OnQuote(r) /\ r.id \in Quote /\ e \in Excerpt /\ InSource(e)
  BY <1>1 DEF RequestOK, TypeOK, IInv, Sources
<1>3. UNCHANGED <<row, excerpt, gather, shot, restored, asked, split>>
  BY DEF ListEvidence, store, snap
<1>4. ~(r.at = "put" /\ OnQuote(r))
  BY <1>1
<1>5. CASE e = NoExcerpt /\ Finish(c) /\ UNCHANGED <<page, rolled>>
  BY <1>3, <1>4, <1>5, RequestEnds
<1>6. CASE e # NoExcerpt /\ Noop(r, e) /\ row' = row /\ Answer(c)
  <2>1. Finish(c) /\ Resent(c)
    BY <1>6 DEF Answer, Resent
  <2> QED
    BY <1>3, <1>4, <2>1, RequestEnds
<1>7. CASE /\ e # NoExcerpt /\ ~Noop(r, e)
           /\ req' = [req EXCEPT ![c] = Holding(r, Edit(r, e))]
           /\ UNCHANGED <<page, rolled>>
  <2> DEFINE new == Edit(r, e)
  <2>0. PICK h : h = Holding(r, new)
    OBVIOUS
  <2>1. new \in Excerpt /\ InSource(new)
    BY <1>1, <1>2, EditInSource
  <2> HIDE DEF new
  <2>2. /\ h \in Request
        /\ h.at = "putEvidence" /\ h.new = new /\ h.read.text = new.text
        /\ h.read.version = r.read.version /\ h.op = r.op /\ h.id = r.id
    BY <1>1, <2>0, <2>1, HoldingFields
  <2>3. OnQuote(h)
    BY <1>2, <2>2 DEF OnQuote
  <2>4. RequestOK(c, h)'
    BY <1>2, <2>1, <2>2, <2>3 DEF RequestOK, InSource
  <2>5. \A q \in Quote \ split' :
           /\ c \notin AtPut(q) /\ ~(h.at = "put" /\ Edits(h, q))
           /\ row[q] # NoRow /\ Edits(h, q) /\ h.at \in {"list", "putEvidence"}
                => h.read.version <= row[q].version
    <3>1. ASSUME NEW q \in Quote \ split', row[q] # NoRow, Edits(h, q)
          PROVE  h.read.version <= row[q].version
      <4>1. Agree(q) /\ q \notin split /\ Edits(r, q)
        BY <1>2, <1>3, <2>2, <3>1 DEF IInv, Agreement, Edits
      <4> QED
        BY <1>1, <2>2, <3>1, <4>1 DEF Agree
    <3> QED
      BY <1>1, <2>2, <3>1 DEF AtPut
  <2>6. req' = [req EXCEPT ![c] = h]
    BY <1>7, <2>0 DEF new
  <2>7. asked' \in 0..MaxRequests /\ split \subseteq split' /\ split' \subseteq Quote
    BY <1>1, <1>3 DEF TypeOK
  <2> QED
    BY <1>3, <1>7, <2>2, <2>4, <2>5, <2>6, <2>7, RequestMoves
<1> QED
  BY <1>5, <1>6, <1>7 DEF ListEvidence

(* A request that is cut off.                                               *)
LEMMA AbortKeeps ==
  ASSUME IInv, NEW c \in Client, Abort(c)
  PROVE  IInv'
<1>1. Finish(c) /\ UNCHANGED <<row, excerpt, gather, shot, restored, asked, page, rolled>>
  BY DEF Abort, store, snap
<1>2. (Cut(c) /\ req[c].at # "idle") \/ (split' = split /\ ~(req[c].at = "put" /\ OnQuote(req[c])))
  BY DEF Abort
<1> QED
  BY <1>1, <1>2, RequestEnds

(* A page loaded anew.                                                      *)
LEMMA ReloadKeeps ==
  ASSUME IInv, NEW c \in Client, Reload(c)
  PROVE  IInv'
<1>1. TypeOK /\ Requests /\ req[c].at = "idle"
  BY DEF IInv, Reload
<1>2. UNCHANGED <<row, excerpt, gather, shot, restored, asked, split, req>>
  BY DEF Reload, store, snap
<1>3. Resent(c)
  BY <1>2 DEF Reload, Resent
<1>4. req' = [req EXCEPT ![c] = req[c]] /\ req[c] \in Request /\ RequestOK(c, req[c])'
  BY <1>1, <1>2 DEF TypeOK, RequestOK
<1>5. \A q \in Quote \ split' :
           /\ c \notin AtPut(q) /\ ~(req[c].at = "put" /\ Edits(req[c], q))
           /\ row[q] # NoRow /\ Edits(req[c], q) /\ req[c].at \in {"list", "putEvidence"}
                => req[c].read.version <= row[q].version
  BY <1>1 DEF AtPut
<1>6. asked' \in 0..MaxRequests /\ split \subseteq split' /\ split' \subseteq Quote
  BY <1>1, <1>2 DEF TypeOK
<1> QED
  BY <1>2, <1>3, <1>4, <1>5, <1>6, RequestMoves

(* Mix marks the quote in a snapshot under way, and nothing else.           *)
LEMMA MixFields ==
  ASSUME NEW q, NEW S, q \in S,
         gather \in [on : BOOLEAN, row : [Node -> Row], mixed : SUBSET S], Mix(q)
  PROVE  /\ gather' \in [on : BOOLEAN, row : [Node -> Row], mixed : SUBSET S]
         /\ gather'.on = gather.on /\ gather'.row = gather.row
         /\ gather.mixed \subseteq gather'.mixed
         /\ gather.on => q \in gather'.mixed
<1> DEFINE m == IF gather.on THEN gather.mixed \cup {q} ELSE gather.mixed
<1>1. m \in SUBSET S /\ gather.mixed \subseteq m /\ (gather.on => q \in m)
  OBVIOUS
<1>2. gather' = [gather EXCEPT !.mixed = m]
  BY DEF Mix
<1> HIDE DEF m
<1> QED
  BY <1>1, <1>2

(* An excerpt written: its edit is now the one that wrote it last.          *)
LEMMA UpdateEvidenceKeeps ==
  ASSUME IInv, NEW c \in Client, UpdateEvidence(c)
  PROVE  IInv'
<1> DEFINE r == req[c]
<1>0. PICK q : q = r.id
  OBVIOUS
<1>1. TypeOK /\ RequestOK(c, r) /\ r.at = "putEvidence" /\ r \in Request
  BY DEF IInv, Requests, UpdateEvidence, TypeOK
<1>2. OnQuote(r) /\ q \in Quote /\ r.new.text = r.read.text /\ InSource(r.new)
  BY <1>0, <1>1 DEF RequestOK
<1>3. UNCHANGED <<row, page, shot, asked, restored, rolled, split>>
  BY DEF UpdateEvidence
<1>4. CASE excerpt[q] = NoExcerpt /\ Finish(c) /\ UNCHANGED <<excerpt, gather>>
  BY <1>1, <1>3, <1>4, RequestEnds
<1>5. CASE /\ excerpt[q] # NoExcerpt
           /\ excerpt' = [excerpt EXCEPT ![q] = r.new]
           /\ Go(c, "put") /\ Mix(q)
  <2>0. PICK p : p = [r EXCEPT !.at = "put"]
    OBVIOUS
  <2>1. p \in Request /\ p.at = "put" /\ p.op = r.op /\ p.id = r.id /\ p.read = r.read /\ p.new = r.new
    BY <1>1, <2>0 DEF Request
  <2>2. req' = [req EXCEPT ![c] = p]
    BY <1>5, <2>0 DEF Go
  <2>3. req' \in [Client -> Request] /\ req'[c] = p /\ \A d \in Client \ {c} : req'[d] = req[d]
    BY <1>1, <2>1, <2>2 DEF TypeOK
  <2>4. r.new \in Excerpt
    BY <1>1 DEF Request
  <2>5. excerpt' \in [Quote -> Excerpt] /\ excerpt'[q] = r.new
        /\ \A u \in Quote \ {q} : excerpt'[u] = excerpt[u]
    BY <1>1, <1>2, <1>5, <2>4 DEF TypeOK
  <2>6. /\ gather' \in [on : BOOLEAN, row : [Node -> Row], mixed : SUBSET Quote]
        /\ gather'.on = gather.on /\ gather'.row = gather.row
        /\ gather.mixed \subseteq gather'.mixed /\ (gather.on => q \in gather'.mixed)
    BY <1>1, <1>2, <1>5, MixFields DEF TypeOK
  <2>7. TypeOK'
    BY <1>1, <1>3, <2>3, <2>5, <2>6 DEF TypeOK, Rows
  <2>8. Requests'
    <3>1. RequestOK(c, p)'
      BY <1>0, <1>2, <2>1 DEF RequestOK, OnQuote, InSource
    <3>2. ASSUME NEW d \in Client \ {c} PROVE RequestOK(d, req[d])'
      BY <1>3, <2>3 DEF IInv, Requests, RequestOK
    <3> QED
      BY <2>3, <3>1, <3>2 DEF Requests, RequestOK
  <2>9. Pages'
    BY <1>3 DEF IInv, Pages
  <2>10. Agreement'
    <3>1. ASSUME NEW u \in Quote \ {q} PROVE Agree(u)'
      <4>1. Agree(u) /\ row'[u] = row[u] /\ excerpt'[u] = excerpt[u] /\ split' = split
        BY <1>3, <2>5, <3>1 DEF IInv, Agreement
      <4>2. c \notin AtPut(u) /\ ~Edits(req'[c], u)
        BY <1>0, <1>1, <2>1, <2>3, <3>1 DEF AtPut, Edits
      <4> QED
        BY <1>1, <2>3, <4>1, <4>2, AgreementStable
    <3>2. Agree(q)'
      <4>1. SUFFICES ASSUME q \notin split, row[q] # NoRow
                     PROVE  /\ \A d \in Client : Edits(req'[d], q)
                                                 /\ req'[d].at \in {"list", "putEvidence", "put"}
                                 => req'[d].read.version <= row[q].version
                            /\ c \in AtPut(q)' /\ excerpt'[q].text = req'[c].read.text
        BY <1>3 DEF Agree, AtPut
      <4>2. Agree(q)
        BY <1>2 DEF IInv, Agreement
      <4>3. Edits(r, q) /\ r.read.version <= row[q].version
        BY <1>0, <1>1, <1>2, <4>1, <4>2 DEF Agree, Edits
      <4>4. Edits(p, q)
        BY <1>0, <1>2, <2>1 DEF Edits, OnQuote
      <4>5. \A d \in Client \ {c} : Edits(req'[d], q) /\ req'[d].at \in {"list", "putEvidence", "put"}
                                      => req'[d].read.version <= row[q].version
        BY <2>3, <4>1, <4>2 DEF Agree
      <4> QED
        BY <1>2, <2>1, <2>3, <2>5, <4>3, <4>4, <4>5 DEF AtPut
    <3> QED
      BY <3>1, <3>2 DEF Agreement
  <2>11. Copies'
    BY <1>3, <2>5, <2>6 DEF IInv, Copies, InSource
  <2>12. Sources'
    BY <1>2, <2>5 DEF IInv, Sources, InSource
  <2> QED
    BY <2>7, <2>8, <2>9, <2>10, <2>11, <2>12 DEF IInv
<1> QED
  BY <1>0, <1>4, <1>5 DEF UpdateEvidence

(* A row written.  A title goes up in version, and the page of its author   *)
(* with it.  A quote's row says what the excerpt says, or another edit has  *)
(* written that since and is still to be refused; all others are now old.   *)
LEMMA UpdateNodeKeeps ==
  ASSUME IInv, NEW c \in Client, UpdateNode(c)
  PROVE  IInv'
<1> DEFINE r == req[c]
<1>0. PICK n : n = r.id
  OBVIOUS
<1>1. TypeOK /\ RequestOK(c, r) /\ r.at = "put" /\ r \in Request
  BY DEF IInv, Requests, UpdateNode, TypeOK
<1>2. /\ n \in Node /\ row[n] \in Row /\ r.read \in Row
      /\ OnQuote(r) => n \in Quote
      /\ ~OnQuote(r) => n \in Bullet
  BY <1>0, <1>1 DEF RequestOK, Node, TypeOK, Rows, Request
<1>3. UNCHANGED <<excerpt, shot, asked, restored>>
  BY DEF UpdateNode
<1>4. CASE /\ ~Matches(row[n], r.read)
           /\ IF OnQuote(r)
                THEN Finish(c) /\ UNCHANGED <<page, rolled, row>>
                ELSE row' = row /\ Answer(c)
           /\ Cut(c) /\ UNCHANGED gather
  <2>1. CASE OnQuote(r)
    BY <1>1, <1>3, <1>4, <2>1, RequestEnds
  <2>2. CASE ~OnQuote(r)
    <3>1. Resent(c) /\ Finish(c) /\ row' = row
      BY <1>4, <2>2 DEF Answer, Resent
    <3> QED
      BY <1>1, <1>3, <1>4, <3>1, RequestEnds
  <2> QED
    BY <2>1, <2>2
<1>5. CASE /\ Matches(row[n], r.read)
           /\ row' = [row EXCEPT ![n] = [r.read EXCEPT !.version = @ + 1]]
           /\ IF OnQuote(r) THEN Mix(n) ELSE UNCHANGED gather
           /\ Done(c) /\ UNCHANGED split
  <2>0. PICK w : w = [r.read EXCEPT !.version = r.read.version + 1]
    OBVIOUS
  <2>1. /\ w \in Row /\ w.text = r.read.text /\ w.version = r.read.version + 1 /\ w # NoRow
        /\ row[n] # NoRow /\ row[n].version = r.read.version /\ r.read.version \in Nat
        /\ row[n].version < w.version /\ w.version >= 1
    <3>1. r.read.version \in Nat
      BY <1>2 DEF Row
    <3>2. w \in Row /\ w.text = r.read.text /\ w.version = r.read.version + 1
      BY <1>2, <2>0, <3>1 DEF Row
    <3>3. w # NoRow
      BY <3>1, <3>2 DEF NoRow
    <3> QED
      BY <1>5, <3>1, <3>2, <3>3 DEF Matches
  <2>2. /\ row' = [row EXCEPT ![n] = w] /\ row' \in [Node -> Row] /\ row'[n] = w
        /\ \A m \in Node \ {n} : row'[m] = row[m]
    BY <1>1, <1>2, <1>5, <2>0, <2>1 DEF TypeOK, Rows
  <2>3. Rows(row', Node) /\ Upwards
    BY <1>1, <2>1, <2>2 DEF TypeOK, Rows, Upwards, Node
  <2>4. Finish(c) /\ (Resent(c) \/ NoContent(c))
    <3>1. CASE r.op = "SetTitle"
      <4>1. AnswerNoContent(c) /\ ~OnQuote(r)
        BY <1>5, <3>1 DEF Done, OnQuote
      <4>2. r.read.version = r.version /\ page[c][n].version = r.version /\ r.version > 0
        BY <1>0, <1>1, <4>1 DEF RequestOK
      <4> QED
        BY <1>0, <1>2, <2>1, <2>2, <4>1, <4>2 DEF AnswerNoContent, NoContent
    <3>2. CASE r.op # "SetTitle"
      BY <1>5, <3>2 DEF Done, Answer, Resent
    <3> QED
      BY <3>1, <3>2
  <2>5. /\ page' \in [Client -> [Bullet -> Row]] /\ \A d \in Client : Rows(page'[d], Bullet)
        /\ rolled' \subseteq Client /\ Pages'
        /\ \A d \in Client \ {c} : page'[d] = page[d]
    BY <1>1, <2>3, <2>4, PagesKept DEF IInv
  <2>6. req' \in [Client -> Request] /\ req'[c] = Idle /\ Idle.at = "idle"
        /\ \A d \in Client \ {c} : req'[d] = req[d]
    BY <1>1, <2>4, AskedTypes DEF Finish, TypeOK
  <2>7. /\ gather' \in [on : BOOLEAN, row : [Node -> Row], mixed : SUBSET Quote]
        /\ gather'.on = gather.on /\ gather'.row = gather.row
        /\ gather.mixed \subseteq gather'.mixed
    <3>1. CASE OnQuote(r)
      BY <1>1, <1>2, <1>5, <3>1, MixFields DEF TypeOK
    <3>2. CASE ~OnQuote(r)
      BY <1>1, <1>5, <3>2 DEF TypeOK
    <3> QED
      BY <3>1, <3>2
  <2>8. TypeOK'
    BY <1>1, <1>3, <1>5, <2>3, <2>5, <2>6, <2>7 DEF TypeOK
  <2>9. Requests'
    <3>1. RequestOK(c, req[c])'
      BY <2>6 DEF RequestOK
    <3>2. ASSUME NEW d \in Client \ {c} PROVE RequestOK(d, req[d])'
      BY <2>5, <2>6 DEF IInv, Requests, RequestOK
    <3> QED
      BY <3>1, <3>2 DEF Requests
  <2>10. Agreement'
    <3>1. ASSUME NEW q \in Quote \ {n} PROVE Agree(q)'
      <4>1. Agree(q) /\ row'[q] = row[q] /\ excerpt'[q] = excerpt[q] /\ split' = split
        BY <1>3, <1>5, <2>2, <3>1 DEF IInv, Agreement, Node
      <4>2. c \notin AtPut(q) /\ req'[c].at = "idle"
        BY <1>0, <2>6, <3>1 DEF AtPut, Edits
      <4> QED
        BY <1>1, <2>6, <4>1, <4>2, AgreementStable
    <3>2. CASE n \in Quote
      <4>1. OnQuote(r) /\ Edits(r, n) /\ n \notin Bullet
        BY <1>0, <1>2, <3>2, NodeEditsAssumption DEF Edits
      <4>2. SUFFICES ASSUME n \notin split
                     PROVE  /\ \A d \in Client : Edits(req'[d], n)
                                                 /\ req'[d].at \in {"list", "putEvidence", "put"}
                                 => req'[d].read.version < w.version
                            /\ AtPut(n)' = {} => w.text = excerpt[n].text
        <5>1. ASSUME NEW d \in Client, Edits(req'[d], n), req'[d].at \in {"list", "putEvidence", "put"},
                     req'[d].read.version < w.version
              PROVE  req'[d].read.version <= w.version
          <6>1. req'[d].read.version \in Nat /\ w.version \in Nat
            BY <2>1, <2>6 DEF Request, Row
          <6> QED
            BY <5>1, <6>1
        <5>2. CASE n \in split
          BY <1>5, <3>1, <5>2 DEF Agreement, Agree
        <5>3. CASE n \notin split
          <6>1. Agree(n)'
            BY <1>3, <1>5, <2>2, <4>2, <5>1, <5>3 DEF Agree, AtPut
          <6> QED
            BY <3>1, <6>1 DEF Agreement
        <5> QED
          BY <5>2, <5>3
      <4>3. /\ \A d \in Client : Edits(req[d], n) /\ req[d].at \in {"list", "putEvidence", "put"}
                                   => req[d].read.version <= row[n].version
            /\ \/ \A d \in AtPut(n) : req[d].read.version < row[n].version
               \/ \E d \in AtPut(n) : excerpt[n].text = req[d].read.text
        BY <2>1, <3>2, <4>2 DEF IInv, Agreement, Agree
      <4>4. ASSUME NEW d \in Client, Edits(req'[d], n), req'[d].at \in {"list", "putEvidence", "put"}
            PROVE  req'[d].read.version < w.version
        <5>1. d # c /\ req[d].read.version <= row[n].version /\ req'[d] = req[d]
          BY <2>6, <4>3, <4>4
        <5>2. req[d].read.version \in Nat
          BY <1>1 DEF TypeOK, Request, Row
        <5> QED
          BY <2>1, <5>1, <5>2
      <4>5. c \in AtPut(n) /\ ~(req[c].read.version < row[n].version)
        BY <1>1, <2>1, <4>1 DEF AtPut
      <4>6. PICK d \in AtPut(n) : excerpt[n].text = req[d].read.text
        BY <4>3, <4>5
      <4>7. ASSUME AtPut(n)' = {} PROVE w.text = excerpt[n].text
        <5>1. d = c
          BY <2>6, <4>6, <4>7 DEF AtPut
        <5> QED
          BY <2>1, <4>6, <5>1
      <4> QED
        BY <4>4, <4>7
    <3>3. CASE n \notin Quote
      BY <3>1, <3>3 DEF Agreement
    <3> QED
      BY <3>2, <3>3
  <2>11. Copies' /\ Sources'
    BY <1>3, <2>7 DEF IInv, Copies, Sources, InSource
  <2> QED
    BY <2>5, <2>8, <2>9, <2>10, <2>11 DEF IInv
<1> QED
  BY <1>0, <1>4, <1>5 DEF UpdateNode

(* A deletion: nothing is claimed of a row that is gone.                    *)
LEMMA DeleteKeeps ==
  ASSUME IInv, NEW n \in Node, Delete(n)
  PROVE  IInv'
<1>1. TypeOK
  BY DEF IInv
<1>2. /\ UNCHANGED <<page, req, gather, shot, restored, rolled>> /\ split' = split \ {n}
      /\ row' \in [Node -> Row] /\ row'[n] = NoRow /\ \A m \in Node \ {n} : row'[m] = row[m]
  BY <1>1, FirstTypes DEF Delete, snap, TypeOK, Rows
<1>3. /\ excerpt' \in [Quote -> Excerpt]
      /\ \A q \in Quote : excerpt'[q] = IF q = n THEN NoExcerpt ELSE excerpt[q]
  BY <1>1, FirstTypes DEF Delete, TypeOK
<1>4. Rows(row', Node)
  BY <1>1, <1>2 DEF Rows, TypeOK
<1>5. asked' \in 0..MaxRequests
  BY <1>1, NodeEditsAssumption DEF Delete, TypeOK
<1>6. TypeOK'
  BY <1>1, <1>2, <1>3, <1>4, <1>5 DEF TypeOK
<1>7. Requests'
  BY <1>2 DEF IInv, Requests, RequestOK
<1>8. Pages'
  BY <1>2 DEF IInv, Pages, Node
<1>9. Agreement'
  <2>1. ASSUME NEW q \in Quote PROVE Agree(q)'
    <3>1. CASE q = n
      BY <1>2, <3>1 DEF Agree
    <3>2. CASE q # n
      <4>1. /\ row'[q] = row[q] /\ excerpt'[q] = excerpt[q] /\ req' = req
            /\ q \notin split' => q \notin split
        BY <1>2, <1>3, <3>2 DEF Node
      <4>2. Agree(q)
        BY DEF IInv, Agreement
      <4> QED
        BY <4>1, <4>2 DEF Agree, AtPut
    <3> QED
      BY <3>1, <3>2
  <2> QED
    BY <2>1 DEF Agreement
<1>10. Copies'
  BY <1>2, <1>3 DEF IInv, Copies, InSource
<1>11. Sources'
  <2>1. ASSUME NEW q \in Quote PROVE InSource(excerpt'[q])
    BY <1>3, FirstTypes DEF IInv, Sources
  <2> QED
    BY <2>1 DEF Sources, InSource
<1> QED
  BY <1>6, <1>7, <1>8, <1>9, <1>10, <1>11 DEF IInv

(* A quote nobody edits half-way has its excerpt's text in its row.         *)
LEMMA WholeQuotes ==
  ASSUME IInv, NEW q \in Quote \ (split \cup HalfEdited), row[q] # NoRow
  PROVE  row[q].text = excerpt[q].text
<1>1. AtPut(q) = {}
  BY DEF AtPut, HalfEdited, Edits
<1> QED
  BY <1>1 DEF IInv, Agreement, Agree

(* A snapshot's rows, and those of an edit under way marked.                *)
LEMMA GatherRowsKeeps ==
  ASSUME IInv, GatherRows
  PROVE  IInv'
<1>1. TypeOK /\ UNCHANGED <<row, excerpt, page, req, shot, asked, restored, rolled, split>>
      /\ ~shot.taken
  BY DEF IInv, GatherRows, store
<1>2. HalfEdited \subseteq Quote
  BY DEF HalfEdited, IInv, Requests, RequestOK
<1>3. /\ gather'.on = TRUE /\ gather'.row = row /\ gather'.mixed = split \cup HalfEdited
      /\ gather' \in [on : BOOLEAN, row : [Node -> Row], mixed : SUBSET Quote]
  BY <1>1, <1>2 DEF GatherRows, TypeOK, Rows
<1>4. TypeOK'
  BY <1>1, <1>3 DEF TypeOK, Rows
<1>5. Copies'
  BY <1>1, <1>3, WholeQuotes DEF Copies, InSource
<1>6. Requests' /\ Pages' /\ Agreement' /\ Sources'
  BY <1>1 DEF IInv, Requests, RequestOK, Pages, Agreement, Agree, AtPut, Sources
<1> QED
  BY <1>4, <1>5, <1>6 DEF IInv

(* A snapshot's excerpts complete it.                                       *)
LEMMA GatherExcerptsKeeps ==
  ASSUME IInv, GatherExcerpts
  PROVE  IInv'
<1>1. TypeOK /\ UNCHANGED <<row, excerpt, page, req, asked, restored, rolled, split>> /\ gather.on
  BY DEF IInv, GatherExcerpts, store
<1>2. /\ shot'.taken = TRUE /\ shot'.row = gather.row /\ shot'.excerpt = excerpt
      /\ shot'.split = gather.mixed \cup {q \in Quote : excerpt[q] = NoExcerpt}
      /\ shot' \in [taken : BOOLEAN, row : [Node -> Row], excerpt : [Quote -> Excerpt],
                    split : SUBSET Quote]
  BY <1>1 DEF GatherExcerpts, TypeOK
<1>3. NoGather \in [on : BOOLEAN, row : [Node -> Row], mixed : SUBSET Quote]
      /\ ~NoGather.on /\ \A m \in Node : NoGather.row[m] = NoRow
  BY FirstTypes DEF NoGather
<1>4. gather' = NoGather
  BY DEF GatherExcerpts
<1>5. TypeOK'
  BY <1>1, <1>2, <1>3, <1>4 DEF TypeOK, Rows
<1>6. Copies'
  BY <1>1, <1>2, <1>3, <1>4 DEF IInv, Copies, Sources, InSource
<1>7. Requests' /\ Pages' /\ Agreement' /\ Sources'
  BY <1>1 DEF IInv, Requests, RequestOK, Pages, Agreement, Agree, AtPut, Sources
<1> QED
  BY <1>5, <1>6, <1>7 DEF IInv

(* A restore brings back rows and excerpts that agree; it excuses what was  *)
(* in flight, and makes every page one from before.                         *)
LEMMA RestoreKeeps ==
  ASSUME IInv, Restore
  PROVE  IInv'
<1>1. TypeOK /\ UNCHANGED <<page, req, gather, shot, asked>> /\ shot.taken
      /\ row' = shot.row /\ excerpt' = shot.excerpt
      /\ split' = shot.split \cup InEdit /\ rolled' = Client
  BY DEF IInv, Restore
<1>2. InEdit \subseteq Quote
  BY DEF InEdit, IInv, Requests, RequestOK
<1>3. restored' \in 0..MaxRestores
  BY <1>1, NodeEditsAssumption DEF Restore, TypeOK
<1>4. TypeOK'
  BY <1>1, <1>2, <1>3 DEF TypeOK, Rows
<1>5. Requests' /\ Pages'
  BY <1>1 DEF IInv, Requests, RequestOK, Pages
<1>6. Agreement'
  <2>1. ASSUME NEW q \in Quote PROVE Agree(q)'
    <3>1. SUFFICES ASSUME q \notin split', row'[q] # NoRow PROVE Agree(q)'
      BY DEF Agree
    <3>2. row'[q].text = excerpt'[q].text
      BY <1>1, <3>1 DEF IInv, Copies
    <3>3. \A d \in Client : Edits(req'[d], q) => req'[d].at = "idle"
      BY <1>1, <3>1 DEF InEdit, Edits
    <3> QED
      BY <3>2, <3>3 DEF Agree, AtPut
  <2> QED
    BY <2>1 DEF Agreement
<1>7. Copies' /\ Sources'
  BY <1>1 DEF IInv, Copies, Sources, InSource
<1> QED
  BY <1>4, <1>5, <1>6, <1>7 DEF IInv

-----------------------------------------------------------------------------
(* The bullets are untitled, the quotes whole, and nobody has asked.        *)
LEMMA InitIInv == Init => IInv
<1> SUFFICES ASSUME Init PROVE IInv
  OBVIOUS
<1> USE DEF Init
<1>1. FirstRows \in [Node -> Row] /\ NewExcerpt \in Excerpt /\ InSource(NewExcerpt)
      /\ (\A n \in Node : FirstRows[n].version = 1)
      /\ (\A q \in Quote : FirstRows[q].text = NewExcerpt.text)
  BY FirstTypes, NodeEditsAssumption DEF Rows, FirstRows, NewRow, Node
<1>2. Bullet \subseteq Node /\ Idle \in Request /\ Idle.at = "idle"
  BY AskedTypes DEF Node
<1>3. page \in [Client -> [Bullet -> Row]] /\ \A c \in Client, b \in Bullet : page[c][b] = row[b]
  BY <1>1, <1>2
<1>4. /\ gather \in [on : BOOLEAN, row : [Node -> Row], mixed : SUBSET Quote]
      /\ ~gather.on /\ (\A n \in Node : gather.row[n] = NoRow)
      /\ shot \in [taken : BOOLEAN, row : [Node -> Row], excerpt : [Quote -> Excerpt],
                   split : SUBSET Quote]
      /\ ~shot.taken /\ \A n \in Node : shot.row[n] = NoRow
  BY FirstTypes DEF NoGather, NoShot
<1>5. TypeOK
  <2>1. Rows(row, Node) /\ (\A c \in Client : Rows(page[c], Bullet)) /\ excerpt \in [Quote -> Excerpt]
    BY <1>1, <1>2, <1>3 DEF Rows
  <2>2. Rows(gather.row, Node) /\ Rows(shot.row, Node)
    BY <1>4 DEF Rows
  <2>3. asked \in 0..MaxRequests /\ restored \in 0..MaxRestores /\ rolled \subseteq Client
        /\ split \subseteq Quote /\ req \in [Client -> Request]
    BY <1>2, NodeEditsAssumption
  <2> QED
    BY <1>3, <1>4, <2>1, <2>2, <2>3 DEF TypeOK
<1>6. Requests
  BY <1>2 DEF Requests, RequestOK
<1>7. Pages
  BY <1>1, <1>2, <1>3 DEF Pages
<1>8. Agreement
  BY <1>1, <1>2 DEF Agreement, Agree, AtPut, Edits, Node
<1>9. Copies /\ Sources
  BY <1>1, <1>4 DEF Copies, Sources
<1> QED
  BY <1>5, <1>6, <1>7, <1>8, <1>9 DEF IInv

(* Every step keeps the invariant.                                          *)
LEMMA NextIInv == IInv /\ [Next]_vars => IInv'
<1> SUFFICES ASSUME IInv, [Next]_vars PROVE IInv'
  OBVIOUS
<1>1. ASSUME NEW c \in Client, Ask(c) \/ Step(c) \/ Abort(c) \/ Reload(c) PROVE IInv'
  BY <1>1, AskKeeps, GetNodeKeeps, ListEvidenceKeeps, UpdateEvidenceKeeps, UpdateNodeKeeps,
     AbortKeeps, ReloadKeeps DEF Step
<1>2. ASSUME NEW n \in Node, Delete(n) PROVE IInv'
  BY <1>2, DeleteKeeps
<1>3. CASE GatherRows \/ GatherExcerpts \/ Restore
  BY <1>3, GatherRowsKeeps, GatherExcerptsKeeps, RestoreKeeps
<1>4. CASE UNCHANGED vars
  <2>1. TypeOK'
    BY <1>4 DEF vars, IInv, TypeOK, Rows
  <2>2. Requests' /\ Pages' /\ Agreement' /\ Copies' /\ Sources'
    BY <1>4 DEF vars, IInv, Requests, RequestOK, Pages, Agreement, Agree, AtPut, Copies, Sources
  <2> QED
    BY <2>1, <2>2 DEF IInv
<1> QED
  BY <1>1, <1>2, <1>3, <1>4 DEF Next

(* The invariant holds of every reachable state.                            *)
THEOREM Invariant == Spec => []IInv
<1>1. Init => IInv
  BY InitIInv
<1>2. IInv /\ [Next]_vars => IInv'
  BY NextIInv
<1> QED
  BY <1>1, <1>2, PTL DEF Spec

(* Rows, excerpts, pages, requests and snapshots have their types, and a    *)
(* row that is there has a version.                                         *)
THEOREM Types == Spec => []TypeOK
<1>1. IInv => TypeOK
  BY DEF IInv
<1> QED
  BY <1>1, Invariant, PTL

(* A quote's bullet says what its excerpt says, unless an edit is half-way, *)
(* was cut there, or outlived a restore (EditQuote, SetQuoteText).          *)
THEOREM Agrees == Spec => []QuoteAgrees
<1>1. IInv => QuoteAgrees
  BY WholeQuotes DEF QuoteAgrees
<1> QED
  BY <1>1, Invariant, PTL

(* An excerpt is the source between its bounds unless it is marked as       *)
(* edited and changed inside, whatever the selections (AttachEvidence,      *)
(* EditQuote).                                                              *)
THEOREM InTheSource == Spec => []QuoteInSource
<1>1. IInv => QuoteInSource
  BY DEF IInv, Sources, InSource, QuoteInSource
<1> QED
  BY <1>1, Invariant, PTL

(* A title is replaced only by somebody whose page shows it, or whose page  *)
(* is from before a restore (UpdateNode's version).                         *)
THEOREM NotBlind == Spec => NoBlindOverwrite
<1> DEFINE Seen == \A c \in Client, b \in Bullet :
             (/\ req[c].at = "put" /\ req'[c].at = "idle" /\ req[c].id = b
              /\ row'[b].text # row[b].text /\ row'[b] # NoRow
              /\ c \notin rolled)
             => page[c][b].text = row[b].text
<1>1. ASSUME IInv, [Next]_vars PROVE Seen
  <2>1. SUFFICES ASSUME NEW c \in Client, NEW b \in Bullet,
                        req[c].at = "put", req'[c].at = "idle", req[c].id = b,
                        row'[b].text # row[b].text, row'[b] # NoRow, c \notin rolled
                 PROVE  page[c][b].text = row[b].text
    OBVIOUS
  <2>2. TypeOK /\ RequestOK(c, req[c]) /\ Pages
    BY <1>1 DEF IInv, Requests
  <2>3. ~OnQuote(req[c]) /\ req[c].version > 0 /\ page[c][b].version = req[c].version
        /\ req[c].read.version = req[c].version
    BY <2>1, <2>2, NodeEditsAssumption DEF RequestOK
  <2>4. page[c][b] # NoRow
    BY <2>3 DEF NoRow
  <2>5. \A d \in Client \ {c} : \A r : req' # [req EXCEPT ![d] = r]
    BY <2>1, <2>2 DEF TypeOK
  <2>6. UpdateNode(c)
    <3>1. row' # row /\ req' # req
      BY <2>1
    <3>2. \A d \in Client : ~Ask(d) /\ ~GetNode(d) /\ ~ListEvidence(d) /\ ~UpdateEvidence(d)
                            /\ ~Abort(d) /\ ~Reload(d)
      BY <3>1 DEF Ask, GetNode, ListEvidence, UpdateEvidence, Abort, Reload, store
    <3>3. (\A n \in Node : ~Delete(n)) /\ ~GatherRows /\ ~GatherExcerpts /\ ~Restore
      BY <3>1 DEF Delete, GatherRows, GatherExcerpts, Restore
    <3>4. PICK d \in Client : UpdateNode(d)
      BY <1>1, <3>1, <3>2, <3>3 DEF Next, Step, vars
    <3>5. Finish(d)
      BY <3>4 DEF UpdateNode, Done, Answer, AnswerNoContent
    <3>6. d = c
      BY <2>5, <3>5 DEF Finish
    <3> QED
      BY <3>4, <3>6
  <2>7. Matches(row[b], req[c].read)
    BY <2>1, <2>3, <2>6 DEF UpdateNode
  <2> QED
    BY <2>1, <2>2, <2>3, <2>4, <2>7 DEF Matches, Pages
<1>2. NoBlindOverwrite <=> [][Seen]_vars
  BY DEF NoBlindOverwrite
<1> QED
  BY <1>1, <1>2, Invariant, PTL DEF Spec

=============================================================================
