----------------------------- MODULE CorpusLock -----------------------------
(***************************************************************************)
(* The advisory writer lock of a corpus: internal/project/lock.go, taken   *)
(* once at start-up and released at exit by cmd/shuttle/main.go.  The lock *)
(* is a file that holds the pid of its owner.  The first session to open a *)
(* corpus becomes its writer, later ones open it read-only.                *)
(*                                                                         *)
(* A session is one process.  Creating the file and writing the pid into   *)
(* it are two steps, and so are judging a lock stale and removing it.      *)
(***************************************************************************)
EXTENDS CorpusSessions

CONSTANTS Dead,         \* stands for the pid of a process that is gone
          NoFile,       \* there is no lock file
          MaxStarts     \* bound: starts of a session, over all sessions

ASSUME LockAssumption ==
    /\ Dead \notin Session
    /\ NoFile \notin [by : Session \cup {Dead}, pid : BOOLEAN]

VARIABLES lockFile,     \* NoFile, or whose inode it is and whether its pid is written
          mode,         \* where each session is
          attempt,      \* the loop counter of AcquireCorpusLock
          starts,       \* starts so far
          raced         \* history: two sessions were acquiring with no live lock in place

lockVars == <<lockFile, mode, attempt, starts, raced>>

LockInfo == [by : Session \cup {Dead}, pid : BOOLEAN]
AcquiringModes == {"opening", "writing", "reading", "reclaiming"}
Modes == AcquiringModes \cup {"off", "rw", "ro"}
Attempts == 2

LockTypeOK ==
    /\ lockFile \in LockInfo \cup {NoFile}
    /\ mode \in [Session -> Modes]
    /\ attempt \in [Session -> 1 .. Attempts + 1]
    /\ starts \in Nat
    /\ raced \in BOOLEAN

LockInit ==
    /\ lockFile = NoFile
    /\ mode = [s \in Session |-> "off"]
    /\ attempt = [s \in Session |-> 1]
    /\ starts = 0
    /\ raced = FALSE
-----------------------------------------------------------------------------
\* A file without a pid reads as pid 0, which is never alive.
PidAlive(info) == info.pid /\ info.by # Dead

LiveLock == lockFile # NoFile /\ PidAlive(lockFile)

Contended ==
    /\ ~ LiveLock
    /\ \E s, t \in Session : s # t /\ {mode[s], mode[t]} \subseteq AcquiringModes

Observe == raced' = (raced \/ Contended')

Goto(s, m) == mode' = [mode EXCEPT ![s] = m]

Open(s) ==
    /\ mode[s] = "off"
    /\ starts < MaxStarts
    /\ Goto(s, "opening")
    /\ attempt' = [attempt EXCEPT ![s] = 1]
    /\ starts' = starts + 1
    /\ UNCHANGED lockFile

\* O_CREATE|O_EXCL: the file is new, and still empty.
CreateLock(s) ==
    /\ mode[s] = "opening" /\ attempt[s] <= Attempts
    /\ lockFile = NoFile
    /\ lockFile' = [by |-> s, pid |-> FALSE]
    /\ Goto(s, "writing")
    /\ UNCHANGED <<attempt, starts>>

\* The pid goes to the inode s created, which may have been unlinked since.
WritePid(s) ==
    /\ mode[s] = "writing"
    /\ lockFile' = IF lockFile = [by |-> s, pid |-> FALSE]
                   THEN [by |-> s, pid |-> TRUE] ELSE lockFile
    /\ Goto(s, "rw")
    /\ UNCHANGED <<attempt, starts>>

LockExists(s) ==
    /\ mode[s] = "opening" /\ attempt[s] <= Attempts
    /\ lockFile # NoFile
    /\ Goto(s, "reading")
    /\ UNCHANGED <<lockFile, attempt, starts>>

GiveUp(s) ==
    /\ mode[s] = "opening" /\ attempt[s] > Attempts
    /\ Goto(s, "off")
    /\ UNCHANGED <<lockFile, attempt, starts>>

\* A lock that vanished since the create failed is an error: the start fails.
ReadLock(s) ==
    /\ mode[s] = "reading"
    /\ Goto(s, IF lockFile = NoFile THEN "off"
               ELSE IF PidAlive(lockFile) THEN "ro" ELSE "reclaiming")
    /\ UNCHANGED <<lockFile, attempt, starts>>

\* os.Remove takes the path, whatever is there by now.
ReclaimStale(s) ==
    /\ mode[s] = "reclaiming"
    /\ lockFile' = NoFile
    /\ attempt' = [attempt EXCEPT ![s] = @ + 1]
    /\ Goto(s, "opening")
    /\ UNCHANGED starts

Acquire(s) ==
    \/ Open(s)
    \/ CreateLock(s)
    \/ WritePid(s)
    \/ LockExists(s)
    \/ GiveUp(s)
    \/ ReadLock(s)
    \/ ReclaimStale(s)

\* Mutant: a session that only reads removes the lock as well.
ReleaseUnowned(s) ==
    /\ mode[s] \in {"rw", "ro"}
    /\ lockFile' = NoFile
    /\ Goto(s, "off")
    /\ UNCHANGED <<attempt, starts>>

\* Orderly exit, a project switch, or a start that fails after this point.
\* Only an owned lock is removed, again by its path.
Release(s) ==
    /\ mode[s] \in {"rw", "ro"}
    /\ lockFile' = IF mode[s] = "rw" THEN NoFile ELSE lockFile
    /\ Goto(s, "off")
    /\ UNCHANGED <<attempt, starts>>

\* The process dies, or log.Fatalf ends it: no deferred call runs.
Die(s) ==
    /\ mode[s] # "off"
    /\ lockFile' = IF lockFile # NoFile /\ lockFile.by = s
                   THEN [lockFile EXCEPT !.by = Dead] ELSE lockFile
    /\ Goto(s, "off")
    /\ UNCHANGED <<attempt, starts>>

LockNext == (\E s \in Session : Acquire(s) \/ Release(s) \/ Die(s)) /\ Observe

LockSpec == LockInit /\ [][LockNext]_lockVars
-----------------------------------------------------------------------------
(* One writer: "the first session to open a corpus becomes its writer,     *)
(* later sessions open the corpus read-only" - through stale locks, failed *)
(* starts and crashes at every step - as long as no two sessions were      *)
(* acquiring the lock at a moment when no live writer held it.             *)
OneWriter == ~ raced => \A s, t \in Session : (mode[s] = "rw" /\ mode[t] = "rw") => s = t
=============================================================================
