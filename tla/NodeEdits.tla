------------------------------ MODULE NodeEdits ------------------------------
(***************************************************************************)
(* What bullets and quotes say (outline.Service's SetTitle, EditQuote and  *)
(* SetQuoteText, the version column of nodes, and the handlers that carry  *)
(* a page's text and version to them).                                     *)
(*                                                                         *)
(*   row[n]      the nodes row: its text (a bullet's title, a quote's      *)
(*               body) and version; NoRow after a deletion                 *)
(*   excerpt[q]  the evidence row of a quote: text, bounds, edited flag    *)
(*   page[c]     what the browser of c has of each bullet                  *)
(*   req[c]      the request c has in flight; at is its next statement     *)
(*                                                                         *)
(* A quote's text is the sequence of the source's positions 1..Length it   *)
(* consists of; 0 stands for words of the author.  Other requests run      *)
(* between any two statements, and a request can end at any.               *)
(***************************************************************************)
EXTENDS Integers, Sequences, SequencesExt

CONSTANTS
  Client, Bullet, Quote,
  Title,             \* what a bullet can say
  Untitled,          \* the title the bullets have at first
  Length,            \* characters in the cited chunk
  Blank,             \* the positions that hold white space
  Selections,        \* pairs of offsets a selection in a quote can send
  Ops,               \* the operations the clients of this instance ask for
  MaxRequests,       \* bound: requests the clients make
  MaxRestores        \* bound: restores of the snapshot

AllOps == {"SetTitle", "PersistAnchor", "Trim", "Splice", "SetQuoteText"}

ASSUME NodeEditsAssumption ==
  /\ Untitled \in Title
  /\ Bullet \cap Quote = {}
  /\ Length \in Nat \ {0} /\ Blank \subseteq 1..Length
  /\ Selections \subseteq Int \X Int
  /\ Ops \subseteq AllOps
  /\ MaxRequests \in Nat /\ MaxRestores \in Nat

Node == Bullet \cup Quote

VARIABLES
  row, excerpt, page, req,
  gather,     \* a snapshot being taken: the rows it has read, or idle
  shot,       \* the snapshot: rows and excerpts, or none yet
  asked, restored,
  rolled,     \* history: clients whose page is older than the last restore
  split       \* history: quotes of which an edit was cut between its two statements,
              \* or ran on beyond a restore

vars == <<row, excerpt, page, req, gather, shot, asked, restored, rolled, split>>

store == <<row, excerpt>>
snap == <<gather, shot, restored>>

(* A title, the source's positions in a quote, or 0 for the author's words. *)
Text == Seq(Title \cup Int)

Row == [text : Text, version : Nat]

Excerpt == [text : Text, start : Int, end : Int, edited : BOOLEAN, rough : BOOLEAN]

NoRow == [text |-> <<>>, version |-> 0]
NoExcerpt == [text |-> <<>>, start |-> 0, end |-> 0, edited |-> FALSE, rough |-> FALSE]

(* The characters of the source between two offsets.                       *)
Source(start, end) == [i \in 1..(end - start) |-> start + i]

(* CreateNode's row, and the excerpt of a whole chunk.                      *)
NewRow(text) == [text |-> text, version |-> 1]
NewExcerpt == [text |-> Source(0, Length), start |-> 0, end |-> Length,
               edited |-> FALSE, rough |-> FALSE]

(* A request with what the browser sent; it has read nothing yet.           *)
Asked(op, id, text, from, to, version) ==
  [at |-> "get", op |-> op, id |-> id, text |-> text, from |-> from, to |-> to,
   version |-> version, read |-> NoRow, new |-> NoExcerpt]

Idle == [at |-> "idle", op |-> "SetTitle", id |-> CHOOSE n \in Node : TRUE, text |-> <<>>,
         from |-> 0, to |-> 0, version |-> 0, read |-> NoRow, new |-> NoExcerpt]

Request ==
  [at : {"idle", "get", "list", "putEvidence", "put"}, op : AllOps, id : Node \cup {Idle.id},
   text : Text, from : Int, to : Int, version : Nat, read : Row, new : Excerpt]

NoGather == [on |-> FALSE, row |-> [n \in Node |-> NoRow], mixed |-> {}]
NoShot == [taken |-> FALSE, row |-> [n \in Node |-> NoRow],
           excerpt |-> [q \in Quote |-> NoExcerpt], split |-> {}]

FirstRows == [n \in Node |-> NewRow(IF n \in Bullet THEN <<Untitled>> ELSE NewExcerpt.text)]

Init ==
  /\ row = FirstRows
  /\ excerpt = [q \in Quote |-> NewExcerpt]
  /\ page = [c \in Client |-> [b \in Bullet |-> FirstRows[b]]]
  /\ req = [c \in Client |-> Idle]
  /\ gather = NoGather /\ shot = NoShot
  /\ asked = 0 /\ restored = 0
  /\ rolled = {} /\ split = {}

-----------------------------------------------------------------------------
(* A client types into what its page shows and leaves the field (SetTitle), *)
(* presses a key that rearranges (PersistAnchor), or edits a quote.         *)

Go(c, at) == req' = [req EXCEPT ![c].at = at]

Finish(c) == req' = [req EXCEPT ![c] = Idle]

Typed(c) ==
  {Asked(op, n, <<t>>, 0, 0, page[c][n].version) :
     op \in {"SetTitle", "PersistAnchor"}, n \in {b \in Bullet : page[c][b] # NoRow}, t \in Title}

Selected ==
  {Asked(op, q, <<>>, s[1], s[2], 0) : op \in {"Trim", "Splice"}, q \in Quote, s \in Selections}

Rewritten == {Asked("SetQuoteText", q, <<0>>, 0, 0, 0) : q \in Quote}

Ask(c) ==
  /\ req[c].at = "idle"
  /\ asked < MaxRequests
  /\ asked' = asked + 1
  /\ \E r \in Typed(c) \cup Selected \cup Rewritten :
       r.op \in Ops /\ req' = [req EXCEPT ![c] = r]
  /\ UNCHANGED <<store, page, snap, rolled, split>>

-----------------------------------------------------------------------------
(* The text of an excerpt after an edit, with its bounds.                   *)

From(r) == IF r.from < 0 THEN 0 ELSE r.from

To(r, text) == IF r.to > Len(text) THEN Len(text) ELSE r.to

TrimTo(e, i, j) ==
  [text |-> SubSeq(e.text, i + 1, j), start |-> e.start + i, end |-> e.start + j,
   edited |-> TRUE, rough |-> e.rough]

\* mutant: cutting off the beginning leaves the bounds
SpliceOutUnmoved(e, i, j) ==
  [text |-> SubSeq(e.text, 1, i) \o SubSeq(e.text, j + 1, Len(e.text)),
   start |-> e.start,
   end |-> IF i > 0 /\ j = Len(e.text) THEN e.start + i ELSE e.end,
   edited |-> TRUE, rough |-> e.rough \/ (i > 0 /\ j < Len(e.text))]

SpliceOut(e, i, j) ==
  [text |-> SubSeq(e.text, 1, i) \o SubSeq(e.text, j + 1, Len(e.text)),
   start |-> IF i = 0 THEN e.start + j ELSE e.start,
   end |-> IF i > 0 /\ j = Len(e.text) THEN e.start + i ELSE e.end,
   edited |-> TRUE, rough |-> e.rough \/ (i > 0 /\ j < Len(e.text))]

Rewrite(e, text) ==
  [text |-> text, start |-> e.start, end |-> e.end, edited |-> TRUE, rough |-> TRUE]

Edit(r, e) ==
  LET i == From(r)
      j == To(r, e.text)
  IN CASE r.op = "SetQuoteText" -> Rewrite(e, r.text)
       [] r.op # "SetQuoteText" /\ i >= j -> e
       [] r.op = "Trim" /\ i < j -> TrimTo(e, i, j)
       [] r.op = "Splice" /\ i < j -> SpliceOut(e, i, j)

IsBlank(text) == ToSet(text) \subseteq Blank

(* ErrNoop: nothing selected, nothing left, nothing changed.                *)
Noop(r, e) ==
  LET new == Edit(r, e) IN IsBlank(new.text) \/ new.text = e.text

-----------------------------------------------------------------------------
(* The statements of a request.                                             *)

OnQuote(r) == r.op \in {"Trim", "Splice", "SetQuoteText"}

(* The answer re-renders the outline of c, or leaves the page as it is: a   *)
(* title saved on blur is answered 204, and the input keeps what was typed. *)
Answer(c) ==
  /\ page' = [page EXCEPT ![c] = [b \in Bullet |-> row'[b]]]
  /\ rolled' = rolled \ {c}
  /\ Finish(c)

AnswerNoContent(c) ==
  /\ page' = [page EXCEPT ![c][req[c].id].text = req[c].text]
  /\ UNCHANGED rolled
  /\ Finish(c)

Done(c) == IF req[c].op = "SetTitle" THEN AnswerNoContent(c) ELSE Answer(c)

\* mutant: SetTitle writes under the version it has just read
WrittenAsRead(r, read) ==
  IF OnQuote(r) THEN read ELSE [read EXCEPT !.text = r.text]

\* the row as the request is going to write it
Written(r, read) ==
  IF OnQuote(r) THEN read
  ELSE [text |-> r.text, version |-> IF r.version > 0 THEN r.version ELSE read.version]

\* the request once it has the row, and once it has made the new excerpt
Loaded(r, read) ==
  [r EXCEPT !.at = IF OnQuote(r) THEN "list" ELSE "put", !.read = Written(r, read)]

Holding(r, new) ==
  [r EXCEPT !.at = "putEvidence", !.from = 0, !.to = 0, !.new = new, !.read.text = new.text]

(* GetNode.  An unchanged title is answered without a write.                *)
GetNode(c) ==
  LET r == req[c]
      n == row[r.id]
  IN /\ r.at = "get"
     /\ \/ n = NoRow /\ Finish(c) /\ UNCHANGED <<page, rolled>>
        \/ n # NoRow /\ ~OnQuote(r) /\ n.text = r.text /\ row' = row /\ Done(c)
        \/ /\ n # NoRow /\ (OnQuote(r) \/ n.text # r.text)
           /\ req' = [req EXCEPT ![c] = Loaded(r, n)]
           /\ UNCHANGED <<page, rolled>>
     /\ UNCHANGED <<store, snap, asked, split>>

(* ListNodeEvidence, and what the edit makes of the excerpt.                *)
ListEvidence(c) ==
  LET r == req[c]
      e == excerpt[r.id]
  IN /\ r.at = "list"
     /\ \/ e = NoExcerpt /\ Finish(c) /\ UNCHANGED <<page, rolled>>
        \/ e # NoExcerpt /\ Noop(r, e) /\ row' = row /\ Answer(c)
        \/ /\ e # NoExcerpt /\ ~Noop(r, e)
           /\ req' = [req EXCEPT ![c] = Holding(r, Edit(r, e))]
           /\ UNCHANGED <<page, rolled>>
     /\ UNCHANGED <<store, snap, asked, split>>

\* a snapshot that is being taken reads rows from before and excerpts from after
Mix(q) == gather' = [gather EXCEPT !.mixed = IF gather.on THEN @ \cup {q} ELSE @]

(* UpdateEvidence has no version to check.                                  *)
UpdateEvidence(c) ==
  LET q == req[c].id
  IN /\ req[c].at = "putEvidence"
     /\ \/ excerpt[q] = NoExcerpt /\ Finish(c) /\ UNCHANGED <<excerpt, gather>>
        \/ /\ excerpt[q] # NoExcerpt
           /\ excerpt' = [excerpt EXCEPT ![q] = req[c].new]
           /\ Go(c, "put") /\ Mix(q)
     /\ UNCHANGED <<row, page, shot, asked, restored, rolled, split>>

\* mutant: UPDATE nodes ... WHERE id = ?
MatchesAny(stored, written) == stored # NoRow

Matches(stored, written) == stored # NoRow /\ stored.version = written.version

\* an edit of a quote that ends here leaves the excerpt without its row
Cut(c) == split' = IF OnQuote(req[c]) THEN split \cup {req[c].id} ELSE split

(* UpdateNode writes under the version; without a match it is a conflict,   *)
(* and the outline is sent again, or for a quote an error.                  *)
UpdateNode(c) ==
  LET r == req[c]
  IN /\ r.at = "put"
     /\ \/ /\ Matches(row[r.id], r.read)
           /\ row' = [row EXCEPT ![r.id] = [r.read EXCEPT !.version = @ + 1]]
           /\ IF OnQuote(r) THEN Mix(r.id) ELSE UNCHANGED gather
           /\ Done(c) /\ UNCHANGED split
        \/ /\ ~Matches(row[r.id], r.read)
           /\ IF OnQuote(r)
                THEN Finish(c) /\ UNCHANGED <<page, rolled, row>>
                ELSE row' = row /\ Answer(c)
           /\ Cut(c) /\ UNCHANGED gather
     /\ UNCHANGED <<excerpt, shot, asked, restored>>

(* The client goes away, a statement fails, the process dies.               *)
Abort(c) ==
  /\ req[c].at # "idle"
  /\ Finish(c)
  /\ IF req[c].at = "put" THEN Cut(c) ELSE UNCHANGED split
  /\ UNCHANGED <<store, page, snap, asked, rolled>>

(* Any request that re-renders the outline, or a page loaded anew.          *)
Reload(c) ==
  /\ req[c].at = "idle"
  /\ page' = [page EXCEPT ![c] = [b \in Bullet |-> row[b]]]
  /\ rolled' = rolled \ {c}
  /\ UNCHANGED <<store, req, snap, asked, split>>

Delete(n) ==
  /\ row[n] # NoRow
  /\ asked < MaxRequests /\ asked' = asked + 1
  /\ row' = [row EXCEPT ![n] = NoRow]
  /\ excerpt' = [q \in Quote |-> IF q = n THEN NoExcerpt ELSE excerpt[q]]
  /\ split' = split \ {n}
  /\ UNCHANGED <<page, req, snap, rolled>>

-----------------------------------------------------------------------------
(* A snapshot copies rows with their versions, rows and excerpts in         *)
(* statements of their own; restoring one, or switching to a branch, puts   *)
(* them back.                                                               *)

\* quotes of which an edit has written the excerpt and not yet the row
HalfEdited == {req[c].id : c \in {d \in Client : req[d].at = "put" /\ OnQuote(req[d])}}

\* quotes an edit has read something of
InEdit == {req[c].id : c \in {d \in Client : req[d].at # "idle" /\ OnQuote(req[d])}}

GatherRows ==
  /\ ~gather.on /\ ~shot.taken
  /\ gather' = [on |-> TRUE, row |-> row, mixed |-> split \cup HalfEdited]
  /\ UNCHANGED <<store, page, req, shot, asked, restored, rolled, split>>

(* An evidence row whose node was not gathered makes the snapshot useless   *)
(* (Revisions); here it is left out.                                        *)
GatherExcerpts ==
  /\ gather.on
  /\ shot' = [taken |-> TRUE, row |-> gather.row, excerpt |-> excerpt,
              split |-> gather.mixed \cup {q \in Quote : excerpt[q] = NoExcerpt}]
  /\ gather' = NoGather
  /\ UNCHANGED <<store, page, req, asked, restored, rolled, split>>

Restore ==
  /\ shot.taken
  /\ restored < MaxRestores /\ restored' = restored + 1
  /\ row' = shot.row /\ excerpt' = shot.excerpt
  /\ split' = shot.split \cup InEdit
  /\ rolled' = Client
  /\ UNCHANGED <<page, req, gather, shot, asked>>

Step(c) == GetNode(c) \/ ListEvidence(c) \/ UpdateEvidence(c) \/ UpdateNode(c)

Next ==
  \/ \E c \in Client : Ask(c) \/ Step(c) \/ Abort(c) \/ Reload(c)
  \/ \E n \in Node : Delete(n)
  \/ GatherRows \/ GatherExcerpts \/ Restore

Spec == Init /\ [][Next]_vars

-----------------------------------------------------------------------------
(* Types; a row that is there has a positive version, in a page or a copy   *)
(* as well.                                                                 *)
Rows(rows, S) == rows \in [S -> Row] /\ \A n \in S : rows[n] = NoRow \/ rows[n].version >= 1

TypeOK ==
  /\ Rows(row, Node) /\ excerpt \in [Quote -> Excerpt]
  /\ page \in [Client -> [Bullet -> Row]] /\ \A c \in Client : Rows(page[c], Bullet)
  /\ req \in [Client -> Request]
  /\ gather \in [on : BOOLEAN, row : [Node -> Row], mixed : SUBSET Quote]
  /\ Rows(gather.row, Node)
  /\ shot \in [taken : BOOLEAN, row : [Node -> Row], excerpt : [Quote -> Excerpt],
               split : SUBSET Quote]
  /\ Rows(shot.row, Node)
  /\ asked \in 0..MaxRequests /\ restored \in 0..MaxRestores
  /\ rolled \subseteq Client /\ split \subseteq Quote

(* The version column's purpose ("optimistic concurrency", doc.UpdateNode): *)
(* a title is only replaced by somebody whose page shows it.  A page from   *)
(* before a restore is the exception: versions come back with the rows, and *)
(* number another text.                                                     *)
NoBlindOverwrite ==
  [][\A c \in Client, b \in Bullet :
       (/\ req[c].at = "put" /\ req'[c].at = "idle" /\ req[c].id = b
        /\ row'[b].text # row[b].text /\ row'[b] # NoRow
        /\ c \notin rolled)
       => page[c][b].text = row[b].text]_vars

(* EditQuote and SetQuoteText write the excerpt and then the bullet that    *)
(* shows it, the second under a version: when no edit is half-way and none  *)
(* was cut there, or outlived a restore, the two say the same.              *)
QuoteAgrees ==
  \A q \in Quote \ (split \cup HalfEdited) : row[q] # NoRow => row[q].text = excerpt[q].text

(* AttachEvidence's "the stored excerpt and its offsets always agree", kept *)
(* by trims and by splices at an end ("valid for a fresh quote"): unless    *)
(* something inside was removed or the author's words are in it, the        *)
(* excerpt is the source between its bounds.  What differs from the source  *)
(* is marked as edited.                                                     *)
QuoteInSource ==
  \A q \in Quote :
    (~excerpt[q].rough \/ ~excerpt[q].edited)
      => excerpt[q].text = Source(excerpt[q].start, excerpt[q].end)

=============================================================================
