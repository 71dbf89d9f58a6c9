------------------------------- MODULE Homes -------------------------------
(* The files of a home directory: projects and corpora, the project the       *)
(* program starts on (project/project.go, web/project_handler.go), and the    *)
(* migration of the former layout, one directory a project, to the present    *)
(* one (cmd/shuttle/migrate.go).  The migration runs offline, one statement   *)
(* or file operation a step; any of them can fail, and the migration or the   *)
(* program can be cut short between any two.                                  *)
EXTENDS Integers, FiniteSets

CONSTANTS
    Name,         \* names of projects and of corpora
    Default,      \* the name of the first project
    Nothing,      \* no name
    MaxFaults     \* failures and kills in a behaviour

ASSUME HomesAssumption == Default \in Name /\ Nothing \notin Name

VARIABLES
    old,        \* name -> where its former directory is, and what it holds
    proj,       \* name -> its project directory
    corp,       \* name -> its corpus directory
    current,    \* the project config.json names
    migration,  \* the statement the migration is at
    server,     \* the program
    written,    \* the projects and corpora written to in the present layout
    faults

homeVars == <<old, proj, corp, current, migration, server, written, faults>>

Mirror == {"outline", "state"}

Index == {"bm25", "hnsw"}

\* What a database holds: the document, its foreign keys into the chunks, the
\* chunks, and what was written since.
Whole == {"document", "links", "chunks"}

Former == Whole \union Mirror \union Index \union {"uploads", "branches"}

NoDir == [dir |-> FALSE, holds |-> {}, bound |-> Nothing]

Idle == [at |-> "idle", name |-> Nothing, todo |-> {}]

Down == [at |-> "down", name |-> Nothing, corpus |-> Nothing, first |-> FALSE, next |-> Nothing]

\* A home of the former layout, or an empty one.
HomeInit ==
    /\ \E names \in SUBSET Name :
         old = [n \in Name |-> IF n \in names THEN [at |-> "dir", holds |-> Former]
                               ELSE [at |-> "none", holds |-> {}]]
    /\ proj = [n \in Name |-> NoDir]
    /\ corp = [n \in Name |-> NoDir]
    /\ current \in Name \union {Nothing}
    /\ migration = Idle
    /\ server = Down
    /\ written = {}
    /\ faults = 0

ListProjects == {n \in Name : proj[n].dir}

ListCorpora == {n \in Name : corp[n].dir}

-----------------------------------------------------------------------------
\* shuttle migrate split

preSplitProjects == {n \in Name : old[n].at = "dir"}

\* The statements of splitOne, in order.
Steps == <<"dirs", "copy_corpus", "drop_document", "copy_project", "drop_corpus",
           "unlink", "index", "uploads", "mirror", "branches", "bind", "retire">>

After(step) == LET i == CHOOSE k \in DOMAIN Steps : Steps[k] = step IN Steps[i + 1]

\* Mutant: a layout that has content is not refused.
MigrateOver ==
    /\ server = Down /\ migration = Idle /\ preSplitProjects # {}
    /\ \E n \in preSplitProjects :
         migration' = [at |-> "dirs", name |-> n, todo |-> preSplitProjects \ {n}]
    /\ UNCHANGED <<old, proj, corp, current, server, written, faults>>

Migrate ==
    /\ server = Down /\ migration = Idle
    /\ preSplitProjects # {} /\ ListProjects = {} /\ ListCorpora = {}
    /\ \E n \in preSplitProjects :
         migration' = [at |-> "dirs", name |-> n, todo |-> preSplitProjects \ {n}]
    /\ UNCHANGED <<old, proj, corp, current, server, written, faults>>

At(step) == migration.at = step

Proceed ==
    migration' = [migration EXCEPT !.at = After(@)]

Fault == faults < MaxFaults /\ faults' = faults + 1

OnlyMigration == UNCHANGED <<current, server, written>>

\* What the two directories of name n hold after a step.
PutProject(n, holds) == proj' = [proj EXCEPT ![n].holds = holds]

PutCorpus(n, holds) == corp' = [corp EXCEPT ![n].holds = holds]

MakeDirs ==
    LET n == migration.name
    IN  /\ At("dirs") /\ Proceed
        /\ proj' = [proj EXCEPT ![n].dir = TRUE]
        /\ corp' = [corp EXCEPT ![n].dir = TRUE]
        /\ UNCHANGED <<old, faults>> /\ OnlyMigration

\* corpus.db and project.db are copies that lose the tables of the other half.
SplitCorpus ==
    LET n == migration.name
    IN  /\ \/ At("copy_corpus") /\ PutCorpus(n, Whole)
           \/ At("drop_document") /\ PutCorpus(n, corp[n].holds \ {"document", "links"})
        /\ Proceed /\ UNCHANGED <<old, proj, faults>> /\ OnlyMigration

SplitProject ==
    LET n == migration.name
    IN  /\ \/ At("copy_project") /\ PutProject(n, Whole)
           \/ At("drop_corpus") /\ PutProject(n, proj[n].holds \ {"chunks"})
           \/ At("unlink") /\ PutProject(n, proj[n].holds \ {"links"})
        /\ Proceed /\ UNCHANGED <<old, corp, faults>> /\ OnlyMigration

Unmoved(n, files) == old' = [old EXCEPT ![n].holds = @ \ files]

\* moveIfExists, for two files one after the other: a failure is only logged.
MoveIndex ==
    LET n == migration.name
    IN  /\ At("index") /\ Proceed
        /\ \E moved \in SUBSET Index :
             /\ Unmoved(n, moved) /\ PutCorpus(n, corp[n].holds \union moved)
             /\ IF moved = Index THEN UNCHANGED faults ELSE Fault
        /\ UNCHANGED proj /\ OnlyMigration

MoveMirror ==
    LET n == migration.name
    IN  /\ At("mirror") /\ Proceed
        /\ \E moved \in SUBSET Mirror :
             /\ Unmoved(n, moved) /\ PutProject(n, proj[n].holds \union moved)
             /\ IF moved = Mirror THEN UNCHANGED faults ELSE Fault
        /\ UNCHANGED corp /\ OnlyMigration

\* The directory made with the new one is removed, and the former one takes its
\* place.
MoveUploads ==
    LET n == migration.name
    IN  /\ At("uploads") /\ Proceed
        /\ Unmoved(n, {"uploads"}) /\ PutCorpus(n, (corp[n].holds \ {"new uploads"}) \union {"uploads"})
        /\ UNCHANGED <<proj, faults>> /\ OnlyMigration

MoveBranches ==
    LET n == migration.name
    IN  /\ At("branches") /\ Proceed
        /\ Unmoved(n, {"branches"}) /\ PutProject(n, proj[n].holds \union {"branches"})
        /\ UNCHANGED <<corp, faults>> /\ OnlyMigration

BindSplit ==
    /\ At("bind") /\ Proceed
    /\ proj' = [proj EXCEPT ![migration.name].bound = migration.name]
    /\ UNCHANGED <<old, corp, faults>> /\ OnlyMigration

\* The former directory is renamed, and the next project is split.
Retire ==
    /\ At("retire")
    /\ old' = [old EXCEPT ![migration.name].at = "retired"]
    /\ \/ /\ migration.todo = {} /\ migration' = Idle
       \/ \E n \in migration.todo :
            migration' = [at |-> "dirs", name |-> n, todo |-> migration.todo \ {n}]
    /\ UNCHANGED <<proj, corp, faults>> /\ OnlyMigration

\* The migration is killed, or a step fails and it returns: a copy may be left
\* in part, and uploads/ or branches/ may already be gone from the new place.
Abandon ==
    LET n == migration.name
    IN  /\ migration # Idle /\ Fault /\ migration' = Idle
        /\ \/ UNCHANGED <<proj, corp>>
           \/ At("copy_corpus") /\ PutCorpus(n, {"damaged"}) /\ UNCHANGED proj
           \/ At("copy_project") /\ PutProject(n, {"damaged"}) /\ UNCHANGED corp
        /\ UNCHANGED old /\ OnlyMigration

MigrateSplit ==
    \/ Migrate \/ MakeDirs \/ SplitCorpus \/ SplitProject \/ MoveIndex \/ MoveUploads
    \/ MoveMirror \/ MoveBranches \/ BindSplit \/ Retire \/ Abandon

-----------------------------------------------------------------------------
\* project.Resolve, and the requests that change the project or its corpus

KeepFormer == UNCHANGED <<old, migration>>

\* Current: what config.json names, else the first project, else Default.
StartOn(n) == \/ current = n
              \/ /\ current = Nothing
                 /\ IF ListProjects = {} THEN n = Default ELSE n \in ListProjects

CreateProjectDirs ==
    /\ server = Down /\ migration = Idle
    /\ \E n \in Name :
         /\ StartOn(n)
         /\ proj' = [proj EXCEPT ![n].dir = TRUE]
         /\ corp' = IF ListProjects = {} THEN [corp EXCEPT ![Default].dir = TRUE] ELSE corp
         /\ server' = [Down EXCEPT !.at = "bind", !.name = n, !.first = ListProjects = {}]
    /\ UNCHANGED <<current, written, faults>> /\ KeepFormer

\* Only the first project of a home is bound here, to the corpus Default.
BindFirst ==
    /\ server.at = "bind"
    /\ proj' = IF server.first /\ proj[server.name].bound = Nothing
               THEN [proj EXCEPT ![server.name].bound = Default] ELSE proj
    /\ server' = [server EXCEPT !.at = "current"]
    /\ UNCHANGED <<corp, current, written, faults>> /\ KeepFormer

\* SetCurrent, and the binding read back; a corpus that is absent hides it.  A
\* damaged database ends the start.
Serve ==
    LET n == server.name
        bound == proj[n].bound
        c == IF bound # Nothing /\ corp[bound].dir THEN bound ELSE Nothing
    IN  /\ server.at = "current"
        /\ current' = n
        /\ server' = IF "damaged" \in proj[n].holds \union
                                       (IF c = Nothing THEN {} ELSE corp[c].holds)
                     THEN Down
                     ELSE [Down EXCEPT !.at = "serving", !.name = n, !.corpus = c]
        /\ UNCHANGED <<proj, corp, written, faults>> /\ KeepFormer

Serving == server.at = "serving"

\* The writer edits, and the working documents follow.
Edit ==
    /\ Serving
    /\ PutProject(server.name, proj[server.name].holds \union {"new text"} \union Mirror)
    /\ written' = written \union {<<"project", server.name>>}
    /\ UNCHANGED <<corp, current, server, faults>> /\ KeepFormer

Upload ==
    /\ Serving /\ server.corpus # Nothing
    /\ PutCorpus(server.corpus, corp[server.corpus].holds \union {"new chunks", "new uploads"})
    /\ written' = written \union {<<"corpus", server.corpus>>}
    /\ UNCHANGED <<proj, current, server, faults>> /\ KeepFormer

\* trySend: of two restarts asked for, the first is made.
AskRestart(n) == server' = [server EXCEPT !.next = IF @ = Nothing THEN n ELSE @]

\* projectSwitch; the name need not be that of a project.
ProjectSwitch ==
    /\ Serving
    /\ \E n \in Name \ {server.name} : AskRestart(n)
    /\ UNCHANGED <<proj, corp, current, written, faults>> /\ KeepFormer

\* projectNew: bound to the corpus of its own name, unless it has one.
ProjectNew ==
    /\ Serving
    /\ \E n \in Name :
         /\ AskRestart(n)
         /\ corp' = [corp EXCEPT ![n].dir = TRUE]
         /\ proj' = [proj EXCEPT ![n].dir = TRUE,
                                 ![n].bound = IF @ = Nothing THEN n ELSE @]
    /\ UNCHANGED <<current, written, faults>> /\ KeepFormer

BindCorpus ==
    /\ Serving
    /\ \E c \in Name :
         /\ corp' = [corp EXCEPT ![c].dir = TRUE]
         /\ proj' = [proj EXCEPT ![server.name].bound = c]
    /\ AskRestart(server.name)
    /\ UNCHANGED <<current, written, faults>> /\ KeepFormer

\* The restart: config.json names the project, and the program is executed again.
Restart ==
    /\ Serving /\ server.next # Nothing
    /\ current' = server.next
    /\ server' = Down
    /\ UNCHANGED <<proj, corp, written, faults>> /\ KeepFormer

\* The program is stopped or killed, while it starts or later.
Kill ==
    /\ server # Down /\ server' = Down
    /\ IF Serving THEN UNCHANGED faults ELSE Fault
    /\ UNCHANGED <<proj, corp, current, written>> /\ KeepFormer

Session ==
    \/ CreateProjectDirs \/ BindFirst \/ Serve \/ Edit \/ Upload \/ ProjectSwitch 
    \/ ProjectNew \/ BindCorpus \/ Restart \/ Kill

HomeNext == MigrateSplit \/ Session

HomeSpec == HomeInit /\ [][HomeNext]_homeVars

-----------------------------------------------------------------------------
\* Everything the former directory held is there, in one of the places where
\* the program or its user can find it.
Found(n) ==
    old[n].holds \union (proj[n].holds \intersect (Mirror \union {"branches"}))
                 \union (corp[n].holds \intersect (Index \union {"uploads"}))

(* Whatever fails, whenever it is killed, and whatever is started before or   *)
(* after it, the migration loses nothing of a former project and overwrites   *)
(* nothing that was written in the present layout; a directory it retired has *)
(* been split completely, but for files whose move failed and which it kept;  *)
(* and a program serves the corpus its project is bound to, unless it is      *)
(* about to restart (migrate.go, project.go Resolve, project_handler.go).     *)
HomeSound ==
    /\ \A n \in Name : old[n].at # "none" => Found(n) = Former
    /\ \A w \in written : IF w[1] = "project" THEN "new text" \in proj[w[2]].holds
                           ELSE {"new chunks", "new uploads"} \subseteq corp[w[2]].holds
    /\ \A n \in Name : old[n].at = "retired" =>
         /\ {"document"} \subseteq proj[n].holds /\ proj[n].holds \intersect {"chunks", "links"} = {}
         /\ {"chunks", "uploads"} \subseteq corp[n].holds /\ "document" \notin corp[n].holds
         /\ "branches" \in proj[n].holds /\ proj[n].bound # Nothing
    /\ (Serving /\ server.next = Nothing) => server.corpus = proj[server.name].bound

=============================================================================
