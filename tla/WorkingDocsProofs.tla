-------------------------- MODULE WorkingDocsProofs --------------------------
(***************************************************************************)
(* An orderly exit and the next start keep the document, for any bullets,  *)
(* any number of edits, crashes and failures before, and whether the       *)
(* database is lost between the two: Spec => OrderlyRestartKeeps.          *)
(*                                                                         *)
(* The argument: what a flush has gathered, and what it writes or finds    *)
(* already written, is the document as long as no edit came since it       *)
(* listed the nodes; none comes after the final flush of a switch that     *)
(* drained, which begins when no request is served any more; and while the *)
(* program is down after such an exit the tables are that document or are  *)
(* empty, and state.json is that document.                                 *)
(***************************************************************************)
EXTENDS WorkingDocs, TLAPS

FlushStep == {"off", "wait", "cited", "branches", "md", "state", "notify"}

Typed ==
  /\ proc \in {"down", "serving", "draining", "signalled", "closing"}
  /\ db \in Doc /\ Sound(db)
  /\ st \in Doc \cup {NoFile} /\ hash \in Doc \cup {NoFile}
  /\ flush \in [at : FlushStep, got : Doc, last : BOOLEAN, ok : BOOLEAN]
  /\ late \in BOOLEAN /\ stale \in BOOLEAN
  /\ left \in Doc \cup {NoFile}

\* lastHash is the content of state.json; it is forgotten when the program ends.
HashWritten == hash # NoFile => st = hash

\* What a flush has gathered so far, or has written, is the document, unless an
\* edit came since it began.
Gathered ==
  ~stale =>
    /\ flush.at \in {"cited", "branches", "md", "state"} => flush.got.rows = db.rows
    /\ flush.at \in {"branches", "md", "state"} => flush.got.cited = db.cited
    /\ flush.at \in {"md", "state"} => flush.got = db
    /\ flush.at = "notify" => st = db
    /\ flush.at = "off" /\ flush.ok => st = db

\* The final flush is the last of the flusher; that of a switch that drained begins
\* after the last edit.
FinalFlush ==
  /\ flush.last => Cancelled
  /\ flush.at = "off" => ~flush.last /\ (Up => Cancelled)
  /\ ~Up => flush.at = "off" /\ ~flush.ok
  /\ Quiet /\ (flush.last \/ flush.at = "off") => ~stale

\* After an orderly exit.
LeftOrderly ==
  left # NoFile => /\ proc = "down" /\ st = left /\ Sound(left)
                   /\ db = left \/ db = Empty

DocsInv == Typed /\ HashWritten /\ Gathered /\ FinalFlush /\ LeftOrderly

(* The failures there have been are a number. *)
Counted == failures \in Nat

-----------------------------------------------------------------------------
(* Contents. *)

(* An edit leaves a document that can be imported.                          *)
LEMMA EditedSound ==
  ASSUME NEW d \in Doc, Sound(d), NEW e \in Edited(d)
  PROVE  e \in Doc /\ Sound(e)
<1>1. CASE \E b \in Bullet \ d.rows : e = [d EXCEPT !.rows = @ \cup {b}]
  BY <1>1 DEF Doc, Sound
<1>2. CASE \E b \in d.rows : e = [d EXCEPT !.rows = @ \ {b}, !.cited = @ \ {b}]
  <2>1. PICK b \in d.rows : e = [d EXCEPT !.rows = @ \ {b}, !.cited = @ \ {b}]
    BY <1>2
  <2>2. e.rows = d.rows \ {b} /\ e.cited = d.cited \ {b} /\ e.branched = d.branched
    BY <2>1 DEF Doc
  <2>3. e = [rows |-> e.rows, cited |-> e.cited, branched |-> e.branched]
    BY <2>1 DEF Doc
  <2> QED
    BY <2>2, <2>3 DEF Doc, Sound
<1>3. CASE \E b \in d.rows \ d.cited : e = [d EXCEPT !.cited = @ \cup {b}]
  BY <1>3 DEF Doc, Sound
<1>4. CASE e = [d EXCEPT !.branched = TRUE]
  BY <1>4 DEF Doc, Sound
<1> QED
  BY <1>1, <1>2, <1>3, <1>4 DEF Edited

(* The empty document is one, and not a missing file.                       *)
LEMMA EmptyDoc == Empty \in Doc /\ Sound(Empty)
  BY DEF Empty, Doc, Sound

(* While the program runs, no orderly exit is remembered.                   *)
LEMMA UpNotLeft == ASSUME DocsInv, Up PROVE left = NoFile
  BY DEF DocsInv, LeftOrderly, Up

-----------------------------------------------------------------------------
(* The steps. *)

(* A fresh data directory: no file, an empty database.                      *)
LEMMA InitDocs == Init => DocsInv
<1> SUFFICES ASSUME Init PROVE DocsInv
  OBVIOUS
<1>1. Typed
  BY EmptyDoc DEF Init, Typed, FlusherOff, FlushStep
<1> QED
  BY <1>1 DEF Init, DocsInv, HashWritten, Gathered, FinalFlush, Quiet, LeftOrderly, FlusherOff,
     Up, Cancelled

(* A request edits the document in the tables.                              *)
LEMMA EditKeeps == ASSUME DocsInv, EditDoc PROVE DocsInv'
<1>1. db' \in Doc /\ Sound(db')
  BY EditedSound DEF EditDoc, DocsInv, Typed
<1>2. ~Quiet /\ Up
  BY DEF EditDoc, Serving, Quiet, Up
<1>3. left = NoFile
  BY <1>2, UpNotLeft
<1> QED
  BY <1>1, <1>2, <1>3 DEF EditDoc, files, DocsInv, Typed, HashWritten, Gathered, FinalFlush,
     Quiet, LeftOrderly, Cancelled, Up, Sound

(* A step of the flusher that writes no file keeps the invariant if it      *)
(* gathers what is there.                                                   *)
LEMMA FlusherKeeps ==
  ASSUME DocsInv, UNCHANGED <<proc, db, st, hash, late, left>>,
         flush' \in [at : FlushStep, got : Doc, last : BOOLEAN, ok : BOOLEAN],
         stale' \in BOOLEAN, Gathered', FinalFlush'
  PROVE  DocsInv'
  BY DEF DocsInv, Typed, HashWritten, LeftOrderly

(* A flush that ends, one way or the other.                                 *)
LEMMA OverKeeps ==
  ASSUME DocsInv, UNCHANGED <<proc, db, st, hash, late, stale, left>>, NEW ok \in BOOLEAN, Over(ok),
         flush.at # "off",
         ~stale /\ ok => st = db
  PROVE  DocsInv'
<1>1. flush' = [at |-> IF flush.last THEN "off" ELSE "wait", got |-> Empty, last |-> FALSE, ok |-> ok]
  BY DEF Over, FlusherOff
<1>2. flush' \in [at : FlushStep, got : Doc, last : BOOLEAN, ok : BOOLEAN]
  BY <1>1, EmptyDoc DEF FlushStep
<1>3. Gathered' /\ FinalFlush'
  BY <1>1 DEF Gathered, FinalFlush, DocsInv, Quiet, Cancelled, Up
<1>4. stale' \in BOOLEAN
  BY DEF DocsInv, Typed
<1> QED
  BY <1>2, <1>3, <1>4, FlusherKeeps

(* The flusher reads nodes and edges.                                       *)
LEMMA ListNodesKeeps == ASSUME DocsInv, ListNodes PROVE DocsInv'
<1>1. PICK last \in IF Cancelled THEN BOOLEAN ELSE {FALSE} :
        flush' = [flush EXCEPT !.at = "cited", !.got.rows = db.rows, !.last = last]
  BY DEF ListNodes
<1>2. /\ flush \in [at : FlushStep, got : Doc, last : BOOLEAN, ok : BOOLEAN]
      /\ db \in Doc /\ flush.got \in Doc
  BY DEF DocsInv, Typed
<1>3. PICK got : got = [flush.got EXCEPT !.rows = db.rows]
  OBVIOUS
<1>4. got \in Doc /\ got.rows = db.rows
  BY <1>2, <1>3 DEF Doc
<1>5. flush' = [flush EXCEPT !.at = "cited", !.got = got, !.last = last]
  BY <1>1, <1>2, <1>3
<1>6. /\ flush'.at = "cited" /\ flush'.got = got /\ flush'.last = last
      /\ flush' \in [at : FlushStep, got : Doc, last : BOOLEAN, ok : BOOLEAN]
      /\ last => Cancelled
  BY <1>1, <1>2, <1>4, <1>5 DEF FlushStep
<1>7. UNCHANGED <<proc, db, st, hash, late, left>> /\ flush.at = "wait" /\ stale' = FALSE
  BY DEF ListNodes, files
<1>8. Gathered' /\ FinalFlush'
  BY <1>4, <1>6, <1>7 DEF DocsInv, Gathered, FinalFlush, Quiet, Cancelled, Up
<1> QED
  BY <1>6, <1>7, <1>8, FlusherKeeps

(* Then the evidence, unless the read fails.                                *)
LEMMA ListEvidenceKeeps == ASSUME DocsInv, ListEvidence PROVE DocsInv'
<1>1. flush' = [flush EXCEPT !.at = "branches", !.got.cited = db.cited]
  BY DEF ListEvidence
<1>2. /\ flush \in [at : FlushStep, got : Doc, last : BOOLEAN, ok : BOOLEAN]
      /\ db \in Doc /\ flush.got \in Doc
  BY DEF DocsInv, Typed
<1>3. PICK got : got = [flush.got EXCEPT !.cited = db.cited]
  OBVIOUS
<1>4. got \in Doc /\ got.rows = flush.got.rows /\ got.cited = db.cited
  BY <1>2, <1>3 DEF Doc
<1>5. flush' = [flush EXCEPT !.at = "branches", !.got = got]
  BY <1>1, <1>2, <1>3
<1>6. /\ flush'.at = "branches" /\ flush'.got = got /\ flush'.last = flush.last
      /\ flush' \in [at : FlushStep, got : Doc, last : BOOLEAN, ok : BOOLEAN]
  BY <1>2, <1>4, <1>5 DEF FlushStep
<1>7. UNCHANGED <<proc, db, st, hash, late, stale, left>> /\ flush.at = "cited"
  BY DEF ListEvidence, files
<1>8. Gathered' /\ FinalFlush'
  BY <1>4, <1>6, <1>7 DEF DocsInv, Gathered, FinalFlush, Quiet, Cancelled, Up
<1> QED
  BY <1>6, <1>7, <1>8, FlusherKeeps DEF DocsInv, Typed

(* Then the branches, and compares the hash of what it gathered.            *)
LEMMA ListBranchesKeeps == ASSUME DocsInv, ListBranches PROVE DocsInv'
<1>1. PICK got : got = [flush.got EXCEPT !.branched = db.branched]
  OBVIOUS
<1>2. /\ flush \in [at : FlushStep, got : Doc, last : BOOLEAN, ok : BOOLEAN]
      /\ db \in Doc /\ flush.got \in Doc /\ flush.at = "branches"
      /\ UNCHANGED <<proc, db, st, hash, late, stale, left>> /\ stale \in BOOLEAN
  BY DEF DocsInv, Typed, ListBranches, files
<1>3. /\ got \in Doc /\ got.rows = flush.got.rows /\ got.cited = flush.got.cited
      /\ got.branched = db.branched
  BY <1>1, <1>2 DEF Doc
<1>4. ~stale => got = db
  <2>1. ~stale => got.rows = db.rows /\ got.cited = db.cited
    BY <1>2, <1>3 DEF DocsInv, Gathered
  <2>2. /\ got = [rows |-> got.rows, cited |-> got.cited, branched |-> got.branched]
        /\ db = [rows |-> db.rows, cited |-> db.cited, branched |-> db.branched]
    BY <1>2, <1>3 DEF Doc
  <2> QED
    BY <1>3, <2>1, <2>2
<1>5. CASE got = hash
  <2>1. Over(TRUE)
    BY <1>1, <1>5 DEF ListBranches, SameContent
  <2>2. st = hash
    BY <1>3, <1>5, NoFileAssumption DEF DocsInv, HashWritten
  <2> QED
    BY <1>2, <1>4, <1>5, <2>1, <2>2, OverKeeps
<1>6. CASE got # hash
  <2>1. flush' = [flush EXCEPT !.at = "md", !.got = got]
    BY <1>1, <1>6 DEF ListBranches, SameContent
  <2>2. /\ flush'.at = "md" /\ flush'.got = got /\ flush'.last = flush.last
        /\ flush' \in [at : FlushStep, got : Doc, last : BOOLEAN, ok : BOOLEAN]
    BY <1>2, <1>3, <2>1 DEF FlushStep
  <2>3. Gathered' /\ FinalFlush'
    BY <1>2, <1>4, <2>2 DEF DocsInv, Gathered, FinalFlush, Quiet, Cancelled, Up
  <2> QED
    BY <1>2, <2>2, <2>3, FlusherKeeps
<1> QED
  BY <1>5, <1>6

(* It renames outline.md into place.                                        *)
LEMMA WriteOutlineKeeps == ASSUME DocsInv, WriteOutline PROVE DocsInv'
<1>1. /\ flush' = [flush EXCEPT !.at = "state"] /\ flush.at = "md"
      /\ UNCHANGED <<proc, db, st, hash, late, stale, left>>
  BY DEF WriteOutline, Step
<1>2. /\ flush'.at = "state" /\ flush'.got = flush.got /\ flush'.last = flush.last
      /\ flush' \in [at : FlushStep, got : Doc, last : BOOLEAN, ok : BOOLEAN]
  BY <1>1 DEF DocsInv, Typed, FlushStep
<1>3. Gathered' /\ FinalFlush'
  BY <1>1, <1>2 DEF DocsInv, Gathered, FinalFlush, Quiet, Cancelled, Up
<1> QED
  BY <1>1, <1>2, <1>3, FlusherKeeps DEF DocsInv, Typed

(* Then state.json, and remembers the hash.                                 *)
LEMMA WriteStateKeeps == ASSUME DocsInv, WriteState PROVE DocsInv'
<1>1. /\ flush' = [flush EXCEPT !.at = "notify"] /\ flush.at = "state"
      /\ st' = flush.got /\ hash' = flush.got /\ UNCHANGED <<proc, db, late, stale, left>>
  BY DEF WriteState, Step
<1>2. /\ flush'.at = "notify" /\ flush'.last = flush.last
      /\ flush' \in [at : FlushStep, got : Doc, last : BOOLEAN, ok : BOOLEAN]
      /\ flush.got \in Doc
  BY <1>1 DEF DocsInv, Typed, FlushStep
<1>3. Gathered' /\ FinalFlush'
  BY <1>1, <1>2 DEF DocsInv, Gathered, FinalFlush, Quiet, Cancelled, Up
<1>4. left = NoFile
  <2>1. flush.at # "off" => Up \/ left = NoFile
    BY <1>1 DEF DocsInv, FinalFlush, LeftOrderly, Up
  <2> QED
    BY <1>1, <2>1, UpNotLeft
<1> QED
  BY <1>1, <1>2, <1>3, <1>4 DEF DocsInv, Typed, HashWritten, LeftOrderly

(* The watcher hears of the two files.                                      *)
LEMMA NotifyKeeps == ASSUME DocsInv, Notify PROVE DocsInv'
<1>1. UNCHANGED <<proc, db, st, hash, late, stale, left>> /\ flush.at = "notify" /\ Over(TRUE)
  BY DEF Notify, files
<1>2. ~stale => st = db
  BY <1>1 DEF DocsInv, Gathered
<1> QED
  BY <1>1, <1>2, OverKeeps

(* A flush that fails leaves the files it has written.                      *)
LEMMA FlushFailsKeeps == ASSUME DocsInv, FlushFails PROVE DocsInv'
<1>1. UNCHANGED <<proc, db, st, hash, late, stale, left>> /\ Over(FALSE) /\ flush.at # "off"
  BY DEF FlushFails, files
<1> QED
  BY <1>1, OverKeeps

(* A start imports state.json when the tables are empty.                    *)
LEMMA StartKeeps == ASSUME DocsInv, Start PROVE DocsInv'
<1>1. db' = db \/ (Importable /\ db' = [st EXCEPT !.branched = db.branched])
  BY DEF Start, Imported
<1>2. db' \in Doc /\ Sound(db')
  <2>1. CASE db' = db
    BY <2>1 DEF DocsInv, Typed
  <2>2. CASE Importable /\ db' = [st EXCEPT !.branched = db.branched]
    <3>1. st \in Doc /\ Sound(st) /\ db \in Doc
      BY <2>2 DEF DocsInv, Typed, Importable
    <3> QED
      BY <2>2, <3>1 DEF Doc, Sound
  <2> QED
    BY <1>1, <2>1, <2>2
<1>3. /\ proc' = "serving" /\ st' = st /\ hash' = NoFile /\ late' = FALSE /\ left' = NoFile
      /\ stale' = stale
      /\ flush' = [at |-> "wait", got |-> Empty, last |-> FALSE, ok |-> FALSE]
  BY DEF Start, files, FlusherOff
<1>4. flush' \in [at : FlushStep, got : Doc, last : BOOLEAN, ok : BOOLEAN]
  BY <1>3, EmptyDoc DEF FlushStep
<1> QED
  BY <1>2, <1>3, <1>4 DEF DocsInv, Typed, HashWritten, Gathered, FinalFlush, Quiet, LeftOrderly,
     Sound, Up

(* A step on the way down.                                                  *)
LEMMA DownKeeps ==
  ASSUME DocsInv, Signal \/ SwitchProject \/ Drained
  PROVE  DocsInv'
<1>1. /\ proc \in {"serving", "draining"} /\ proc' \in {"draining", "signalled", "closing"}
      /\ late' \in BOOLEAN /\ UNCHANGED <<db, st, hash, flush, stale, left>>
  BY DEF Signal, SwitchProject, Drained, files, DocsInv, Typed
<1>2. flush.at # "off" /\ ~flush.last
  BY <1>1 DEF DocsInv, FinalFlush, Up, Cancelled
<1>3. left = NoFile
  BY <1>1, UpNotLeft DEF Up
<1>4. Gathered' /\ FinalFlush'
  BY <1>1, <1>2 DEF DocsInv, Gathered, FinalFlush, Up
<1> QED
  BY <1>1, <1>3, <1>4 DEF DocsInv, Typed, HashWritten, LeftOrderly, Sound

(* An orderly exit, or a crash.                                             *)
LEMMA ExitKeeps == ASSUME DocsInv, Exit \/ Crash PROVE DocsInv'
<1>1. /\ proc' = "down" /\ UNCHANGED <<db, st, stale>> /\ hash' = NoFile /\ late' = FALSE
      /\ flush' = [at |-> "off", got |-> Empty, last |-> FALSE, ok |-> FALSE]
  BY DEF Exit, Crash, Gone, files, FlusherOff
<1>2. Up
  BY DEF Exit, Crash, Cancelled, Up
<1>3. left' = NoFile \/ (left' = db /\ st = db)
  <2>1. CASE Exit
    BY <2>1 DEF Exit, DocsInv, Gathered, FinalFlush, Quiet
  <2>2. CASE Crash
    BY <1>2, <2>2, UpNotLeft DEF Crash
  <2> QED
    BY <2>1, <2>2
<1>4. flush' \in [at : FlushStep, got : Doc, last : BOOLEAN, ok : BOOLEAN]
  BY <1>1, EmptyDoc DEF FlushStep
<1> QED
  BY <1>1, <1>3, <1>4 DEF DocsInv, Typed, HashWritten, Gathered, FinalFlush, Quiet, LeftOrderly,
     Sound, Up

(* The database goes while the program is down.                             *)
LEMMA LossKeeps == ASSUME DocsInv, LoseDatabase PROVE DocsInv'
<1>1. /\ db' = Empty /\ proc = "down" /\ UNCHANGED <<proc, st, hash, flush, late, stale, left>>
  BY DEF LoseDatabase, files, Up
<1> QED
  BY <1>1, EmptyDoc DEF DocsInv, Typed, HashWritten, Gathered, FinalFlush, Quiet, LeftOrderly,
     Cancelled, Up

(* Windows change nothing of it.                                            *)
LEMMA OthersKeep ==
  ASSUME DocsInv, (\E p \in Page : Open(p) \/ Subscribe(p) \/ Reload(p)) \/ UNCHANGED vars
  PROVE  DocsInv'
<1>1. UNCHANGED <<proc, db, st, hash, flush, late, stale, left>>
  BY DEF Open, Subscribe, Reload, Load, files, vars
<1> QED
  BY <1>1 DEF DocsInv, Typed, HashWritten, Gathered, FinalFlush, Quiet, LeftOrderly, Cancelled,
     Up, Sound

(* Every step keeps the invariant.                                          *)
LEMMA DocsKept == DocsInv /\ [Next]_vars => DocsInv'
<1> SUFFICES ASSUME DocsInv, [Next]_vars PROVE DocsInv'
  OBVIOUS
<1>1. CASE Flush
  BY <1>1, ListNodesKeeps, ListEvidenceKeeps, ListBranchesKeeps, WriteOutlineKeeps,
     WriteStateKeeps, NotifyKeeps DEF Flush
<1>2. CASE ~Flush
  BY <1>2, EditKeeps, FlushFailsKeeps, StartKeeps, DownKeeps, ExitKeeps, LossKeeps, OthersKeep
     DEF Next
<1> QED
  BY <1>1, <1>2

(* The mirror is what the flusher last wrote to it, the document is one the *)
(* program can import, and an orderly exit leaves the two alike.            *)
THEOREM Invariant == Spec => []DocsInv
  BY InitDocs, DocsKept, PTL DEF Spec

(* Failures are counted.                                                    *)
LEMMA FailuresCounted == Spec => []Counted
<1>1. Init => Counted
  BY DEF Init, Counted
<1>2. Counted /\ [Next]_vars => Counted'
  <2>1. [Next]_vars => failures' \in {failures, failures + 1}
    BY DEF Next, EditDoc, Flush, ListNodes, ListEvidence, ListBranches, WriteOutline, WriteState,
           Notify, FlushFails, Start, Signal, SwitchProject, Drained, Exit, Crash, Gone,
           LoseDatabase, Open, Subscribe, Reload, Load, counters, vars
  <2> QED
    BY <2>1 DEF Counted
<1> QED
  BY <1>1, <1>2, PTL DEF Spec

(* The next start after an orderly exit, of a switch of projects that       *)
(* drained or of any whose final flush no edit came after, has the document *)
(* of the exit, even when the database was lost in between (Flusher.Run,    *)
(* recovery in main.go).                                                    *)
THEOREM RestartKeeps == Spec => OrderlyRestartKeeps
<1> DEFINE A == (proc = "down" /\ proc' = "serving" /\ left # NoFile /\ failures' = failures)
                  => db'.rows = left.rows /\ db'.cited = left.cited
<1>1. DocsInv /\ Counted /\ [Next]_vars => [A]_vars
  <2> SUFFICES ASSUME DocsInv, Counted, Next, proc = "down", proc' = "serving", left # NoFile,
                      failures' = failures
               PROVE  db'.rows = left.rows /\ db'.cited = left.cited
    OBVIOUS
  <2>1. Start
    BY DEF Next, EditDoc, Flush, ListNodes, ListEvidence, ListBranches, WriteOutline, WriteState,
           Notify, FlushFails, Signal, SwitchProject, Drained, Exit, Crash, Gone, LoseDatabase,
           Open, Subscribe, Reload, Load
  <2>2. db' = IF Importable THEN [st EXCEPT !.branched = db.branched] ELSE db
    BY <2>1 DEF Start, Imported, Counted
  <2>3. st = left /\ st \in Doc /\ Sound(st) /\ (db = left \/ db = Empty)
    BY DEF DocsInv, LeftOrderly, Typed
  <2>4. CASE Importable
    BY <2>2, <2>3, <2>4 DEF Doc
  <2>5. CASE ~Importable
    BY <2>2, <2>3, <2>5, NoFileAssumption DEF Importable, Empty
  <2> QED
    BY <2>4, <2>5
<1> QED
  BY <1>1, Invariant, FailuresCounted, PTL DEF Spec, OrderlyRestartKeeps

=============================================================================
