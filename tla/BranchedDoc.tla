------------------------------ MODULE BranchedDoc ------------------------------
(***************************************************************************)
(* What snapshots and branches promise to a writer, with no tables, reads  *)
(* or transactions: a snapshot is the document as it was in one instant,   *)
(* and every branch keeps the document as it was left.                     *)
(* internal/doc/sqlite.go implements it for one client (MCBranchedDoc).    *)
(***************************************************************************)

CONSTANTS
  Docs,      \* the documents there can be
  Branch, Snapshot,
  None       \* no branch

VARIABLES
  work,      \* the document being edited
  current,   \* the branch it belongs to; None when there are no branches
  shelf,     \* other branch -> the document it was left with
  shots      \* snapshot -> its document

vars == <<work, current, shelf, shots>>

(* A project starts with no branches and no snapshots. *)
Init ==
  /\ work \in Docs
  /\ current = None
  /\ DOMAIN shelf = {}
  /\ DOMAIN shots = {}

Edit ==
  /\ work' \in Docs
  /\ UNCHANGED <<current, shelf, shots>>

Take(p) ==
  /\ p \notin DOMAIN shots
  /\ shots' = [q \in DOMAIN shots \cup {p} |-> IF q = p THEN work ELSE shots[q]]
  /\ UNCHANGED <<work, current, shelf>>

Discard(p) ==
  /\ shots' = [q \in DOMAIN shots \ {p} |-> shots[q]]
  /\ UNCHANGED <<work, current, shelf>>

Restore(p) ==
  /\ work' = shots[p]
  /\ UNCHANGED <<current, shelf, shots>>

(* The work is left on the branches bs as it is, and goes on on another. *)
Shelve(bs) == [b \in DOMAIN shelf \cup bs |-> IF b \in bs THEN work ELSE shelf[b]]

Split(b, old) ==
  /\ {b, old} \cap DOMAIN shelf = {} /\ b # old
  /\ current \in {None, old}
  /\ current = None => DOMAIN shelf = {}
  /\ shelf' = Shelve({old})
  /\ current' = b
  /\ UNCHANGED <<work, shots>>

Switch(b) ==
  LET left == Shelve({current})
  IN  /\ work' = shelf[b]
      /\ current' = b
      /\ shelf' = [c \in DOMAIN left \ {b} |-> left[c]]
      /\ UNCHANGED shots

(* With the last other branch, the current one goes; the work stays. *)
Delete(b) ==
  /\ shelf' = [c \in DOMAIN shelf \ {b} |-> shelf[c]]
  /\ current' = IF DOMAIN shelf = {b} THEN None ELSE current
  /\ UNCHANGED <<work, shots>>

Next ==
  \/ Edit
  \/ \E p \in Snapshot : Take(p)
  \/ \E p \in DOMAIN shots : Discard(p) \/ Restore(p)
  \/ \E b \in Branch, old \in Branch : Split(b, old)
  \/ \E b \in DOMAIN shelf : Switch(b) \/ Delete(b)

Spec == Init /\ [][Next]_vars

=============================================================================
