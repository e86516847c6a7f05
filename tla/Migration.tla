----------------------------- MODULE Migration -----------------------------
(***************************************************************************)
(* MigrateProject: the import of a project that keeps its Tasks in files   *)
(* into the database.  It globs the folders, parses the files, merges the  *)
(* history of task-id-registry.json, loads Tasks and Sprints one by one    *)
(* and archives the rows it met no file for.                               *)
(*                                                                         *)
(* A step is one glob, one file read or one transaction, so that the       *)
(* commands of other processes come in between; the process may be killed  *)
(* at any step, a load may fail, and the import may be run again.          *)
(***************************************************************************)
EXTENDS Integers, Sequences, FiniteSets, FiniteSetsExt

CONSTANTS
    TaskNo,           \* numbers of Tasks
    SprintNo,         \* Sprints, in the order of their names
    Layouts,          \* sets of files a project may start with
    Registries,       \* what task-id-registry.json may hold
    OldRows,          \* rows that may be there before
    MaxRuns, MaxEvents, MaxLoadFailures,
    NoRow, NoRegistry

VARIABLES
    files,        \* the Task files
    folder,       \* where each Sprint's folder is
    registry,     \* task-id-registry.json
    taskRows,     \* NoRow or a status, for each number
    sprintRows,
    counter,
    import,       \* the import under way
    runs, events, loadFailures,
    undisturbed,  \* history: nothing else has run since the import started
    settled       \* history: an import has ended and nothing has run since

migVars == <<files, folder, registry, taskRows, sprintRows, counter, import,
             runs, events, loadFailures, undisturbed, settled>>

Location == {"active", "backlog", "completed", "superseded"}
TaskStatus == {"todo", "done", "archived", "superseded"}

\* Where a Task file may be: in the tasks folder of a Sprint, of a folder
\* within it of the Sprint's own name, in works/tasks or its completed folder.
Place == {[sprint |-> n, deep |-> d] : n \in SprintNo, d \in BOOLEAN}
         \cup {[sprint |-> 0, deep |-> d] : d \in BOOLEAN}
TaskFile == [task : TaskNo, place : Place, status : TaskStatus, ok : BOOLEAN]

\* What the project may be.  No two files have one name in one place; Sprints
\* are numbered from 1.
ProjectAssumption ==
    /\ TaskNo \in SUBSET Nat /\ IsFiniteSet(TaskNo)
    /\ SprintNo \in SUBSET (Nat \ {0})
    /\ NoRow \notin TaskStatus \cup Location
    /\ OldRows \in SUBSET [TaskNo -> TaskStatus \cup {NoRow}]
    /\ \A L \in Layouts : /\ L \in SUBSET TaskFile /\ IsFiniteSet(L)
                          /\ \A f, g \in L : f.task = g.task /\ f.place = g.place => f = g
    /\ \A r \in Registries : r # NoRegistry => r.lastId \in Nat /\ r.history \in SUBSET TaskNo

Rest == [at |-> "rest"]

TypeOK ==
    /\ files \subseteq TaskFile
    /\ folder \in [SprintNo -> Location]
    /\ taskRows \in [TaskNo -> TaskStatus \cup {NoRow}]
    /\ sprintRows \in [SprintNo -> Location \cup {NoRow}]
    /\ counter \in Nat
    /\ import.at \in {"rest", "glob", "parse", "merge", "sprints", "load",
                      "loadSprints", "count", "orphans", "archive"}

Init ==
    /\ files \in Layouts
    /\ folder \in [SprintNo -> Location]
    /\ registry \in Registries
    /\ taskRows \in OldRows
    /\ sprintRows = [n \in SprintNo |-> NoRow]
    /\ counter = Max({0} \cup {t \in TaskNo : taskRows[t] # NoRow})
    /\ import = Rest
    /\ runs = 0 /\ events = 0 /\ loadFailures = 0
    /\ undisturbed = TRUE /\ settled = FALSE

-----------------------------------------------------------------------------
(* parseMigrationPlan. *)

\* scanSpecs, in order; the last is works/tasks.
scanSpecs ==
    LET shallow == << "completed", "active", "backlog", "superseded" >>
    IN  [i \in 1..9 |-> IF i = 9 THEN [loc |-> "tasks", deep |-> FALSE]
                        ELSE [loc |-> shallow[1 + ((i - 1) % 4)], deep |-> i > 4]]

location(f) == IF f.place.sprint = 0 THEN "tasks" ELSE folder[f.place.sprint]

\* A file matches a pattern; filepath.Glob answers in the order of the names.
matches(spec) == {f \in files : location(f) = spec.loc /\ f.place.deep = spec.deep}
earlier(f, g) ==
    \/ f.place.sprint < g.place.sprint
    \/ f.place.sprint = g.place.sprint /\ f.task < g.task
globbed(spec) ==
    [i \in 1..Cardinality(matches(spec)) |->
        LET f == CHOOSE f \in matches(spec) :
                    Cardinality({g \in matches(spec) : earlier(g, f)}) = i - 1
        IN  [task |-> f.task, place |-> f.place, loc |-> spec.loc]]

goto(l) == import' = [import EXCEPT !.at = l]

Start ==
    /\ import = Rest /\ runs < MaxRuns
    /\ runs' = runs + 1
    /\ \E d \in BOOLEAN :
        import' = [at |-> "glob", dryRun |-> d, spec |-> 1, found |-> <<>>,
                   tasks |-> [t \in TaskNo |-> NoRow],
                   sprints |-> [n \in SprintNo |-> NoRow],
                   maxTaskSeq |-> 0, parsed |-> {}, places |-> << "active", "backlog", "completed", "superseded" >>,
                   orphans |-> {}, failed |-> FALSE]
    /\ undisturbed' = TRUE
    /\ UNCHANGED <<files, folder, registry, taskRows, sprintRows, counter, events,
                   loadFailures, settled>>

Glob ==
    /\ import.at = "glob"
    /\ import' = [import EXCEPT
                    !.found = @ \o globbed(scanSpecs[import.spec]),
                    !.spec = @ + 1,
                    !.at = IF import.spec = Len(scanSpecs) THEN "parse" ELSE "glob"]
    /\ UNCHANGED <<files, folder, registry, taskRows, sprintRows, counter, runs, events,
                   loadFailures, undisturbed, settled>>

\* The file a path leads to, if it is still there and parses.
at(e) == {f \in files : /\ f.task = e.task /\ f.place = e.place /\ f.ok
                        /\ location(f) = e.loc}

\* parseTaskFilesInto: the last file of a Task counts; one in a superseded
\* Sprint is superseded whatever it says.
Parse ==
    /\ import.at = "parse"
    /\ IF import.found = <<>> THEN goto("merge")
       ELSE LET e == Head(import.found)
            IN  import' = [import EXCEPT
                    !.found = Tail(@),
                    !.tasks[e.task] =
                        IF at(e) = {} THEN @
                        ELSE IF e.loc = "superseded" THEN "superseded"
                        ELSE (CHOOSE f \in at(e) : TRUE).status]
    /\ UNCHANGED <<files, folder, registry, taskRows, sprintRows, counter, runs, events,
                   loadFailures, undisturbed, settled>>

\* mergeRegistryTasks: history without a file is archived; the highest number
\* is that of lastId, the files and the history.
Merge ==
    /\ import.at = "merge"
    /\ LET history == IF registry = NoRegistry THEN {} ELSE registry.history
           tasks == [t \in TaskNo |->
                        IF import.tasks[t] = NoRow /\ t \in history THEN "archived"
                        ELSE import.tasks[t]]
       IN  import' = [import EXCEPT
               !.at = "sprints", !.tasks = tasks,
               !.parsed = {t \in TaskNo : tasks[t] # NoRow},
               !.maxTaskSeq = Max({IF registry = NoRegistry THEN 0 ELSE registry.lastId}
                                  \cup {t \in TaskNo : tasks[t] # NoRow})]
    /\ UNCHANGED <<files, folder, registry, taskRows, sprintRows, counter, runs, events,
                   loadFailures, undisturbed, settled>>

\* scanSprintFiles, one location at a step: the folder decides the status.
\* A dry run ends here.
ScanSprints ==
    /\ import.at = "sprints"
    /\ IF import.places # <<>>
       THEN import' = [import EXCEPT
                !.places = Tail(@),
                !.sprints = [n \in SprintNo |->
                    IF folder[n] = Head(import.places) THEN folder[n] ELSE @[n]]]
       ELSE IF import.dryRun THEN import' = Rest ELSE goto("load")
    /\ UNCHANGED <<files, folder, registry, taskRows, sprintRows, counter, runs, events,
                   loadFailures, undisturbed, settled>>

-----------------------------------------------------------------------------
(* applyMigrationSteps. *)

Larger(a, b) == IF a > b THEN a ELSE b

\* Mutant of upsertTaskInsert: the counter goes up by one instead.
upsertTaskInsertCounting(t, status) ==
    /\ taskRows' = [taskRows EXCEPT ![t] = IF @ = NoRow THEN status ELSE @]
    /\ counter' = counter + 1

\* Mutant of upsertTaskInsert: the counter is left to the end.
upsertTaskInsertAlone(t, status) ==
    /\ taskRows' = [taskRows EXCEPT ![t] = IF @ = NoRow THEN status ELSE @]
    /\ counter' = counter

\* UpsertTaskInsert: INSERT OR IGNORE, and the counter is raised.
upsertTaskInsert(t, status) ==
    /\ taskRows' = [taskRows EXCEPT ![t] = IF @ = NoRow THEN status ELSE @]
    /\ counter' = Larger(counter, t)

\* insertPlanIntoDB: the Tasks in the order of a map, which is any ...
LoadTask ==
    /\ import.at = "load"
    /\ \E t \in TaskNo :
        /\ import.tasks[t] # NoRow
        /\ upsertTaskInsert(t, import.tasks[t])
        /\ import' = [import EXCEPT !.tasks[t] = NoRow]
    /\ UNCHANGED <<files, folder, registry, sprintRows, runs, events, loadFailures,
                   undisturbed, settled>>

\* Mutant of LoadTaskFails: what could not be loaded counts as not parsed.
LoadTaskForgotten ==
    /\ import.at = "load" /\ loadFailures < MaxLoadFailures
    /\ loadFailures' = loadFailures + 1
    /\ \E t \in TaskNo :
        /\ import.tasks[t] # NoRow
        /\ import' = [import EXCEPT !.tasks[t] = NoRow, !.failed = TRUE, !.parsed = @ \ {t}]
    /\ UNCHANGED <<files, folder, registry, taskRows, sprintRows, counter, runs, events,
                   undisturbed, settled>>

\* ... one whose transaction fails is reported and passed over ...
LoadTaskFails ==
    /\ import.at = "load" /\ loadFailures < MaxLoadFailures
    /\ loadFailures' = loadFailures + 1
    /\ \E t \in TaskNo :
        /\ import.tasks[t] # NoRow
        /\ import' = [import EXCEPT !.tasks[t] = NoRow, !.failed = TRUE]
    /\ UNCHANGED <<files, folder, registry, taskRows, sprintRows, counter, runs, events,
                   undisturbed, settled>>

LoadTasksDone ==
    /\ import.at = "load" /\ \A t \in TaskNo : import.tasks[t] = NoRow
    /\ goto("loadSprints")
    /\ UNCHANGED <<files, folder, registry, taskRows, sprintRows, counter, runs, events,
                   loadFailures, undisturbed, settled>>

\* Mutant of LoadSprint: a row that is there stays.
LoadSprintIfMissing ==
    /\ import.at = "loadSprints"
    /\ IF \A n \in SprintNo : import.sprints[n] = NoRow
       THEN goto("count") /\ UNCHANGED sprintRows
       ELSE \E n \in SprintNo :
                /\ import.sprints[n] # NoRow
                /\ sprintRows' = [sprintRows EXCEPT ![n] = IF @ = NoRow THEN import.sprints[n] ELSE @]
                /\ import' = [import EXCEPT !.sprints[n] = NoRow]
    /\ UNCHANGED <<files, folder, registry, taskRows, counter, runs, events,
                   loadFailures, undisturbed, settled>>

\* ... then the Sprints (INSERT OR REPLACE) ...
LoadSprint ==
    /\ import.at = "loadSprints"
    /\ IF \A n \in SprintNo : import.sprints[n] = NoRow
       THEN goto("count") /\ UNCHANGED sprintRows
       ELSE \E n \in SprintNo :
                /\ import.sprints[n] # NoRow
                /\ sprintRows' = [sprintRows EXCEPT ![n] = import.sprints[n]]
                /\ import' = [import EXCEPT !.sprints[n] = NoRow]
    /\ UNCHANGED <<files, folder, registry, taskRows, counter, runs, events,
                   loadFailures, undisturbed, settled>>

\* ... of which one that fails is passed over as well ...
LoadSprintFails ==
    /\ import.at = "loadSprints" /\ loadFailures < MaxLoadFailures
    /\ loadFailures' = loadFailures + 1
    /\ \E n \in SprintNo :
        /\ import.sprints[n] # NoRow
        /\ import' = [import EXCEPT !.sprints[n] = NoRow, !.failed = TRUE]
    /\ UNCHANGED <<files, folder, registry, taskRows, sprintRows, counter, runs, events,
                   undisturbed, settled>>

\* ... and the counter, which never goes down; that it cannot be set is
\* reported, and the import goes on.
SetCounterMax ==
    /\ import.at = "count"
    /\ counter' = Larger(counter, import.maxTaskSeq)
    /\ goto("orphans")
    /\ UNCHANGED <<files, folder, registry, taskRows, sprintRows, runs, events,
                   loadFailures, undisturbed, settled>>

SetCounterFails ==
    /\ import.at = "count" /\ import.maxTaskSeq > 0 /\ loadFailures < MaxLoadFailures
    /\ loadFailures' = loadFailures + 1
    /\ import' = [import EXCEPT !.at = "orphans", !.failed = TRUE]
    /\ UNCHANGED <<files, folder, registry, taskRows, sprintRows, counter, runs, events,
                   undisturbed, settled>>

\* reconcileOrphanedTasks: the rows of Tasks that are neither archived nor
\* superseded and were not parsed (GetNonArchivedTasks) ...
Orphans ==
    /\ import.at = "orphans"
    /\ import' = [import EXCEPT !.at = "archive", !.orphans =
            {t \in TaskNo : taskRows[t] \notin {NoRow, "archived", "superseded"}}
            \ import.parsed]
    /\ UNCHANGED <<files, folder, registry, taskRows, sprintRows, counter, runs, events,
                   loadFailures, undisturbed, settled>>

\* ... are archived in one transaction.
ArchiveTasks ==
    /\ import.at = "archive"
    /\ taskRows' = [t \in TaskNo |->
            IF t \in import.orphans /\ taskRows[t] # NoRow THEN "archived" ELSE taskRows[t]]
    /\ import' = Rest
    /\ settled' = (undisturbed /\ ~import.failed)
    /\ UNCHANGED <<files, folder, registry, sprintRows, counter, runs, events,
                   loadFailures, undisturbed>>

\* The process is killed, or the archiving fails, which only warns.
Killed ==
    /\ import # Rest /\ events < MaxEvents
    /\ events' = events + 1
    /\ import' = Rest
    /\ UNCHANGED <<files, folder, registry, taskRows, sprintRows, counter, runs,
                   loadFailures, undisturbed, settled>>

-----------------------------------------------------------------------------
(* Other commands, each as one step. *)

Meanwhile ==
    /\ events < MaxEvents
    /\ events' = events + 1
    /\ undisturbed' = FALSE /\ settled' = FALSE
    /\ UNCHANGED <<registry, import, runs, loadFailures>>

\* CheckBootstrapNeeded: no row yet and a registry to import.
BootstrapNeeded == (\A t \in TaskNo : taskRows[t] = NoRow) /\ registry # NoRegistry

\* `task create`, which the bootstrap gate refuses while it is needed.
CreateTask ==
    LET t == 1 + Max({counter} \cup {u \in TaskNo : taskRows[u] # NoRow}
                              \cup {f.task : f \in files})
    IN  /\ ~BootstrapNeeded
        /\ t \in TaskNo
        /\ files' = files \cup {[task |-> t, place |-> [sprint |-> 0, deep |-> FALSE],
                                 status |-> "todo", ok |-> TRUE]}
        /\ taskRows' = [taskRows EXCEPT ![t] = "todo"]
        /\ counter' = t
        /\ UNCHANGED <<folder, sprintRows>>
        /\ Meanwhile

\* `sprint start` and `sprint complete` move the folder.
MoveSprint(n) ==
    /\ folder[n] \in {"backlog", "active"}
    /\ folder' = [folder EXCEPT ![n] = IF @ = "backlog" THEN "active" ELSE "completed"]
    /\ sprintRows' = [sprintRows EXCEPT ![n] = IF @ = NoRow THEN @ ELSE folder'[n]]
    /\ UNCHANGED <<files, taskRows, counter>>
    /\ Meanwhile

Next ==
    \/ Start \/ Glob \/ Parse \/ Merge \/ ScanSprints
    \/ LoadTask \/ LoadTaskFails \/ LoadTasksDone
    \/ LoadSprint \/ LoadSprintFails \/ SetCounterMax \/ SetCounterFails
    \/ Orphans \/ ArchiveTasks \/ Killed
    \/ CreateTask \/ \E n \in SprintNo : MoveSprint(n)

Spec == Init /\ [][Next]_migVars

-----------------------------------------------------------------------------
(* Properties. *)

\* The files an import looks at and can read, and the history it merges.
Readable == {f \in files : f.ok /\ (f.place.sprint = 0 => ~f.place.deep)}
Known == {f.task : f \in Readable}
         \cup IF registry = NoRegistry THEN {} ELSE registry.history

\* No row ever has a number beyond the counter, wherever an import was killed
\* and whatever was created beside it: UpsertTaskInsert raises the counter in
\* the transaction of the row.
CounterCovers == \A t \in TaskNo : taskRows[t] # NoRow => t <= counter

\* When an import has ended, was not disturbed and met no failure, killed
\* imports may have gone before: every Task it could read and every one of the
\* history has a row, every row that is alive is one of these, the counter is
\* past all of them, and every Sprint's row has the status of its folder.
MigratedComplete ==
    settled =>
        /\ \A t \in Known : taskRows[t] # NoRow /\ t <= counter
        /\ registry # NoRegistry => registry.lastId <= counter
        /\ \A t \in TaskNo :
              taskRows[t] \notin {NoRow, "archived", "superseded"} => t \in Known
        /\ \A n \in SprintNo : sprintRows[n] = folder[n]

\* An import that nothing disturbs archives no Task that has a file it can
\* read, even one that could not be loaded.
ArchivesUnseen ==
    undisturbed' =>
        \A t \in TaskNo :
            /\ taskRows[t] \notin {NoRow, "archived"} /\ taskRows'[t] = "archived"
            => t \notin Known
ArchivesOnlyUnseen == [][ArchivesUnseen]_migVars

\* An import over what another has left changes nothing.
ChangesNothing ==
    settled /\ events' = events => UNCHANGED <<taskRows, sprintRows, counter>>
RerunStable == [][ChangesNothing]_migVars
=============================================================================
