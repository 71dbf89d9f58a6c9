----------------------------- MODULE WorkingDocs -----------------------------
(***************************************************************************)
(* The mirror of a project beside its database (internal/workingdocs),     *)
(* recovery from it and shutting down (cmd/shuttle), and the preview pages *)
(* that follow it (web's Broadcaster and previewEvents).                   *)
(*                                                                         *)
(* A document is the bullets it has, which of them are cited (standing for *)
(* every table with a foreign key to nodes), and whether the project has   *)
(* branches, of which the mirror keeps a list only.  An edit is atomic     *)
(* here; the flusher's gather is not: a statement a table.  Contents can   *)
(* come back: deleting what was added, or restoring, leaves the tables as  *)
(* they were before.                                                       *)
(***************************************************************************)
EXTENDS Naturals, FiniteSets

CONSTANTS
  Bullet,
  NoFile,          \* the content of a file that is not there
  Page,            \* browser windows that show outline.html
  MaxEdits,        \* bound: edits
  MaxStarts,       \* bound: starts of the program
  MaxFailures      \* bound: statements and writes that fail

ASSUME WorkingDocsAssumption ==
  /\ MaxEdits \in Nat /\ MaxStarts \in Nat /\ MaxFailures \in Nat

VARIABLES
  proc,       \* "down", "serving", "draining" (srv.Shutdown before a switch of
              \* projects), "signalled" (the context was cancelled first), "closing"
  db,         \* the live tables
  md, st,     \* outline.md and state.json, or NoFile
  flush,      \* the flusher: its next step, what it has gathered, whether this
              \* is the final flush, whether the last one got to its end
  hash,       \* the content of lastHash, or NoFile
  page,       \* what a window shows, its event stream, and what is in it
  late,       \* Shutdown gave up waiting: requests still run
  edits, starts, failures,
  half,       \* history: outline.md was replaced and state.json was not
  missed,     \* history: windows loaded and not yet subscribed when pings went out
  stale,      \* history: an edit came since the flusher last listed the nodes
  left        \* history: the document at an orderly exit (see Exit), or NoFile

vars == <<proc, db, md, st, flush, hash, page, late, edits, starts, failures,
          half, missed, stale, left>>

files == <<md, st>>
counters == <<edits, starts, failures>>

Doc == [rows : SUBSET Bullet, cited : SUBSET Bullet, branched : BOOLEAN]

ASSUME NoFileAssumption == NoFile \notin Doc

Empty == [rows |-> {}, cited |-> {}, branched |-> FALSE]

(* restoreDAGState fails on an evidence row without its node.               *)
Sound(d) == d.cited \subseteq d.rows

FlusherOff == [at |-> "off", got |-> Empty, last |-> FALSE, ok |-> FALSE]
Closed == [shows |-> NoFile, open |-> FALSE, sub |-> FALSE, ping |-> FALSE]

Up == proc # "down"
Cancelled == proc \in {"signalled", "closing"}

Init ==
  /\ proc = "down" /\ db = Empty
  /\ md = NoFile /\ st = NoFile
  /\ flush = FlusherOff /\ hash = NoFile
  /\ page = [p \in Page |-> Closed]
  /\ late = FALSE
  /\ edits = 0 /\ starts = 0 /\ failures = 0
  /\ half = FALSE /\ missed = {} /\ stale = FALSE /\ left = NoFile

-----------------------------------------------------------------------------
(* Edits by the requests that are served: a bullet added (or brought back), *)
(* deleted with what cites for it, cited, the project branched.             *)

\* mutant: a switch of projects closes the listener only, and waits for no request
ServingToTheEnd == proc \in {"serving", "draining", "signalled", "closing"}

Serving == proc \in {"serving", "draining", "signalled"} \/ (proc = "closing" /\ late)

Edited(d) ==
  {[d EXCEPT !.rows = @ \cup {b}] : b \in Bullet \ d.rows}
    \cup {[d EXCEPT !.rows = @ \ {b}, !.cited = @ \ {b}] : b \in d.rows}
    \cup {[d EXCEPT !.cited = @ \cup {b}] : b \in d.rows \ d.cited}
    \cup {[d EXCEPT !.branched = TRUE]}

EditDoc ==
  /\ Serving
  /\ edits < MaxEdits /\ edits' = edits + 1
  /\ \E d \in Edited(db) : d # db /\ db' = d
  /\ stale' = TRUE
  /\ UNCHANGED <<proc, files, flush, hash, page, late, starts, failures, half, missed, left>>

-----------------------------------------------------------------------------
(* Flusher.Run: a flush at once, one on every tick, one when the context is *)
(* cancelled.  When both are ready either is taken.                         *)

Step(next) == flush' = [flush EXCEPT !.at = next]

\* the flush is over: the final one ends the goroutine
Over(ok) == flush' = [FlusherOff EXCEPT !.at = IF flush.last THEN "off" ELSE "wait", !.ok = ok]

ListNodes ==
  /\ flush.at = "wait"
  /\ \E last \in IF Cancelled THEN BOOLEAN ELSE {FALSE} :
       flush' = [flush EXCEPT !.at = "cited", !.got.rows = db.rows, !.last = last]
  /\ stale' = FALSE
  /\ UNCHANGED <<proc, db, files, hash, page, late, counters, half, missed, left>>

ListEvidence ==
  /\ flush.at = "cited"
  /\ flush' = [flush EXCEPT !.at = "branches", !.got.cited = db.cited]
  /\ UNCHANGED <<proc, db, files, hash, page, late, counters, half, missed, stale, left>>

\* mutant: only the outline is compared, not the list of branches
SameOutline(a, b) == b # NoFile /\ a.rows = b.rows /\ a.cited = b.cited

SameContent(a, b) == a = b

(* ListBranches; an unchanged content is not written.                       *)
ListBranches ==
  /\ flush.at = "branches"
  /\ LET got == [flush.got EXCEPT !.branched = db.branched]
     IN IF SameContent(got, hash) THEN Over(TRUE) ELSE flush' = [flush EXCEPT !.at = "md", !.got = got]
  /\ UNCHANGED <<proc, db, files, hash, page, late, counters, half, missed, stale, left>>

WriteOutline ==
  /\ flush.at = "md"
  /\ md' = flush.got /\ half' = TRUE
  /\ Step("state")
  /\ UNCHANGED <<proc, db, st, hash, page, late, counters, missed, stale, left>>

\* mutant: a flush ends without OnWrite
WriteStateSilently ==
  /\ flush.at = "state"
  /\ st' = flush.got /\ hash' = flush.got /\ half' = FALSE
  /\ Over(TRUE)
  /\ UNCHANGED <<proc, db, md, page, late, counters, missed, stale, left>>

WriteState ==
  /\ flush.at = "state"
  /\ st' = flush.got /\ hash' = flush.got /\ half' = FALSE
  /\ Step("notify")
  /\ UNCHANGED <<proc, db, md, page, late, counters, missed, stale, left>>

(* Broadcaster.Notify: a ping for each subscriber, one at most waiting.     *)
Ping == page' = [p \in Page |-> [page[p] EXCEPT !.ping = page[p].sub]]

Notify ==
  /\ flush.at = "notify"
  /\ Ping
  /\ missed' = missed \cup {p \in Page : page[p].open /\ ~page[p].sub}
  /\ Over(TRUE)
  /\ UNCHANGED <<proc, db, files, hash, late, counters, half, stale, left>>

(* A statement or a write fails: the flush is given up until the next tick. *)
FlushFails ==
  /\ flush.at \in {"cited", "branches", "md", "state"}
  /\ failures < MaxFailures /\ failures' = failures + 1
  /\ Over(FALSE)
  /\ UNCHANGED <<proc, db, files, hash, page, late, edits, starts, half, missed, stale, left>>

Flush == ListNodes \/ ListEvidence \/ ListBranches \/ WriteOutline \/ WriteState \/ Notify

-----------------------------------------------------------------------------
(* The way up and down.                                                     *)

(* storeIsEmpty and a state.json that can be imported.                      *)
Importable == db.rows = {} /\ st # NoFile /\ Sound(st)

(* ImportState replaces the document; the rows of branches are not its.     *)
Imported == [st EXCEPT !.branched = db.branched]

Start ==
  /\ proc = "down"
  /\ starts < MaxStarts /\ starts' = starts + 1
  /\ proc' = "serving"
  /\ \/ db' = (IF Importable THEN Imported ELSE db) /\ UNCHANGED failures
     \/ failures < MaxFailures /\ failures' = failures + 1 /\ db' = db
  /\ flush' = [FlusherOff EXCEPT !.at = "wait"] /\ hash' = NoFile
  /\ late' = FALSE /\ left' = NoFile
  /\ UNCHANGED <<files, page, edits, half, missed, stale>>

(* SIGINT or SIGTERM cancels the context the flusher runs under, before     *)
(* srv.Shutdown is called or, in a switch of projects, while it waits.      *)
Signal ==
  /\ proc \in {"serving", "draining"} /\ proc' = "signalled"
  /\ UNCHANGED <<db, files, flush, hash, page, late, counters, half, missed, stale, left>>

(* A switch of projects shuts the server down, and then cancels.            *)
SwitchProject ==
  /\ proc = "serving" /\ proc' = "draining"
  /\ UNCHANGED <<db, files, flush, hash, page, late, counters, half, missed, stale, left>>

Drained ==
  /\ proc = "draining" /\ proc' = "closing"
  /\ late' \in BOOLEAN
  /\ UNCHANGED <<db, files, flush, hash, page, counters, half, missed, stale, left>>

\* nothing of the process is left; windows lose their event stream
Gone ==
  /\ proc' = "down" /\ flush' = FlusherOff /\ hash' = NoFile /\ late' = FALSE
  /\ page' = [p \in Page |-> [page[p] EXCEPT !.sub = FALSE, !.ping = FALSE]]

\* no request is served and none comes any more
Quiet == proc = "closing" /\ ~late

(* wg.Wait: the flusher has ended.  The exit is orderly when the final      *)
(* flush succeeded and no edit came after it, or none should have: a switch *)
(* of projects that no signal cut short and no request outlived.  After a   *)
(* signal requests are served beside the final flush, and what they change  *)
(* after it is in the database only.                                        *)
Exit ==
  /\ Cancelled /\ flush.at = "off"
  /\ left' = IF flush.ok /\ (~stale \/ Quiet) THEN db ELSE NoFile
  /\ Gone
  /\ UNCHANGED <<db, files, counters, half, missed, stale>>

Crash ==
  /\ Up
  /\ Gone
  /\ UNCHANGED <<db, files, counters, half, missed, stale, left>>

(* The database is lost, or set aside because it is corrupt.                *)
LoseDatabase ==
  /\ ~Up
  /\ db # Empty
  /\ failures < MaxFailures /\ failures' = failures + 1
  /\ db' = Empty
  /\ UNCHANGED <<proc, files, flush, hash, page, late, edits, starts, half, missed, stale, left>>

-----------------------------------------------------------------------------
(* Preview windows.                                                         *)

Load(p) ==
  /\ Up
  /\ page' = [page EXCEPT ![p] = [Closed EXCEPT !.shows = md, !.open = TRUE]]
  /\ missed' = missed \ {p}
  /\ UNCHANGED <<proc, db, files, flush, hash, late, counters, half, stale, left>>

Open(p) == ~page[p].open /\ Load(p)

(* The page's EventSource connects, again after a lost connection.          *)
Subscribe(p) ==
  /\ Up /\ page[p].open /\ ~page[p].sub
  /\ page' = [page EXCEPT ![p].sub = TRUE, ![p].ping = FALSE]
  /\ UNCHANGED <<proc, db, files, flush, hash, late, counters, half, missed, stale, left>>

(* The reload event: the window loads the page anew, which ends its stream. *)
Reload(p) == page[p].sub /\ page[p].ping /\ Load(p)

Next ==
  \/ EditDoc
  \/ Flush \/ FlushFails
  \/ Start \/ Signal \/ SwitchProject \/ Drained \/ Exit \/ Crash \/ LoseDatabase
  \/ \E p \in Page : Open(p) \/ Subscribe(p) \/ Reload(p)

Spec == Init /\ [][Next]_vars

(* The flusher is a goroutine with a ticker; a stream delivers what is sent *)
(* on it, and a browser reloads and connects again.                         *)
FairSpec ==
  /\ Spec
  /\ WF_vars(Flush)
  /\ \A p \in Page : WF_vars(Subscribe(p)) /\ WF_vars(Reload(p))

-----------------------------------------------------------------------------
(* "Both are fully regenerated [...] whenever the state changes": once the  *)
(* edits stop, the files have the document.  outline.md may be left with a  *)
(* newer one that was taken back (half): the flusher compares with what it  *)
(* last wrote to both files.                                                *)
FilesCatchUp ==
  <>[](proc = "serving" => st = db /\ (half \/ md = db))

(* The Broadcaster coalesces and never waits, and still no window that has  *)
(* its event stream stays behind, unless the ping went out between its      *)
(* loading and its subscribing.                                             *)
WindowsFollow ==
  <>[](proc = "serving" =>
         \A p \in Page : page[p].sub => p \in missed \/ half \/ page[p].shows = md)

(* "so work survives a lost or corrupt database": after an orderly exit the *)
(* next start has the document of the exit, whether the tables were lost    *)
(* meanwhile or not; in particular a document without bullets stays one.    *)
(* An exit is orderly when the final flush had the last word: after every   *)
(* switch of projects that drained, and after a signal, in a switch too,    *)
(* unless a request changed the document while or after that flush read it. *)
OrderlyRestartKeeps ==
  [][(proc = "down" /\ proc' = "serving" /\ left # NoFile /\ failures' = failures)
       => db'.rows = left.rows /\ db'.cited = left.cited]_vars

=============================================================================
