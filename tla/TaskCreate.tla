----------------------------- MODULE TaskCreate -----------------------------
(***************************************************************************)
(* `hstl-oss task create`: the allocation of a Task's identifier, its file,*)
(* its line in BACKLOG.md and its row in the database; and `backlog sync`, *)
(* as far as it concerns the unassigned Tasks that create makes: it inserts*)
(* rows for files without one, lists files that BACKLOG.md misses and      *)
(* deletes the rows of Tasks that are nowhere else.  Any number of         *)
(* processes run these at once.  The database is shared, files belong to a *)
(* worktree.                                                               *)
(*                                                                         *)
(* A step is one statement that commits on its own, the transaction of     *)
(* nextCounter or UpsertTaskInsert (each begins with a write, and so acts  *)
(* on the current state), or one read or write of a file.                  *)
(***************************************************************************)
EXTENDS Integers

CONSTANTS
    Proc,          \* processes running a command
    Worktree,
    Tree,          \* the worktree each process runs in
    Title,         \* normalized titles
    Command,       \* the commands users issue
    KnownRows,     \* identifiers in the table tasks at the start
    KnownFiles,    \* identifiers of the files in every worktree at the start
    KnownTitle,    \* the title of those
    Counter,       \* id_counters at the start, maybe behind them
    TaskIDSanityMax,
    Window,        \* HSTL_TASK_CREATE_DUPLICATE_WINDOW_SEC
    Day, Zone,     \* length of a day; local time minus UTC
    MaxTime,       \* bound on the clock
    MaxId,         \* bound on the identifiers issued
    MaxFaults      \* bound on crashes and failed operations

AllCommands == {"create", "sync"}

ASSUME CreateAssumption ==
    /\ Tree \in [Proc -> Worktree]
    /\ Command \subseteq AllCommands
    /\ KnownRows \subseteq Nat \ {0} /\ KnownFiles \subseteq Nat \ {0}
    /\ {Counter, TaskIDSanityMax, Window, MaxTime, MaxId, MaxFaults} \subseteq Nat
    /\ Day \in Nat \ {0} /\ Zone \in Int

VARIABLES
    now,       \* the clock, in UTC
    counter,   \* id_counters.current_value of the Task counter
    tasks,     \* rows of the table tasks; `at` is when each was inserted
    files,     \* Task files of each worktree
    backlog,   \* identifiers listed in BACKLOG.md of each worktree
    pc, job,
    faults,
    torn       \* identifiers whose create died or could not roll back

vars == <<now, counter, tasks, files, backlog, pc, job, faults, torn>>

\* A file's frontmatter: its date of creation and the field sprint.
Files == [id : Nat, title : Title \cup {KnownTitle}, created : Int,
          sprint : {"", "backlog"}]
Rows  == [id : Nat, title : Title \cup {KnownTitle}, created : Int, at : Int]
Ids(s) == {x.id : x \in s}
Everywhere == UNION {files[w] : w \in Worktree}

Label == {"idle", "scan", "bump", "max", "sync", "next", "file", "list",
          "listed", "summary", "summed", "insert", "undo",
          "rows", "page", "ghosts", "stat", "repair", "relist", "purge"}

\* Where a process has an identifier of its own for a Task it is creating.
Making == {"file", "list", "listed", "summary", "summed", "insert", "undo"}
Holds(p) == job[p].cmd = "create" /\ pc[p] \in Making

\* The local variables of a command.  For create: title and identifier of the
\* new Task, the largest identifier found in file names, then in the table.
\* For sync: the files it found, those without a row, those not listed, the
\* identifiers of rows without a file.  For both: the BACKLOG.md read.
Job == [cmd : AllCommands \cup {"none"}, title : Title \cup {KnownTitle},
        id : Nat, max : Nat, page : SUBSET Nat, seen : SUBSET Files,
        missing : SUBSET Files, unlisted : SUBSET Nat, orphans : SUBSET Nat]
NoJob == [cmd |-> "none", title |-> KnownTitle, id |-> 0, max |-> 0,
          page |-> {}, seen |-> {}, missing |-> {}, unlisted |-> {},
          orphans |-> {}]

TypeOK ==
    /\ now \in Nat
    /\ counter \in Nat
    /\ tasks \subseteq Rows
    /\ files \in [Worktree -> SUBSET Files]
    /\ backlog \in [Worktree -> SUBSET Nat]
    /\ pc \in [Proc -> Label]
    /\ job \in [Proc -> Job]
    /\ faults \in Nat
    /\ torn \subseteq Nat

KnownFile(n) == [id |-> n, title |-> KnownTitle, created |-> -Day, sprint |-> ""]

\* A repository that adopts the tool, or comes to a machine with another
\* database: files and rows need not match, and the counter may lie behind
\* both; its files have no sprint field, its BACKLOG.md lists nothing yet.
Init ==
    /\ now = 0
    /\ counter = Counter
    /\ tasks = {[id |-> n, title |-> KnownTitle, created |-> -Day, at |-> -Day] :
                  n \in KnownRows}
    /\ files = [w \in Worktree |-> {KnownFile(n) : n \in KnownFiles}]
    /\ backlog = [w \in Worktree |-> {}]
    /\ pc = [p \in Proc |-> "idle"]
    /\ job = [p \in Proc |-> NoJob]
    /\ faults = 0
    /\ torn = {}

-----------------------------------------------------------------------------
Continue(p, l, j) ==
    /\ pc' = [pc EXCEPT ![p] = l]
    /\ job' = [job EXCEPT ![p] = IF l = "idle" THEN NoJob ELSE j]
Goto(p, l) == Continue(p, l, job[p])
Return(p)  == Goto(p, "idle")

\* A statement or file operation fails, a wait for the database among them.
Fault == faults < MaxFaults /\ faults' = faults + 1

AtLeast(m, n) == IF m < n THEN n ELSE m

\* The largest of a set of identifiers, 0 of none.
Largest(n, s) == n \in s \cup {0} /\ \A m \in s : m <= n

\* time.Now().Format("2006-01-02") is the local date, and FindDuplicateTitle
\* parses it as midnight UTC.
Timestamp == now                               \* mutant of Today
Today     == ((now + Zone) \div Day) * Day

-----------------------------------------------------------------------------
(* task create                                                             *)

\* Mutant of Recent: the window is left out.
Later(title) == Window > 0 /\ \E r \in tasks : r.title = title /\ r.created > now

\* FindDuplicateTitle: a row of the same title whose created_at lies in the
\* window.
Recent(title) ==
    Window > 0 /\ \E r \in tasks : r.title = title /\ r.created > now - Window

\* CheckDuplicateTitleOrReject; --allow-duplicate-title is not used.
CheckTitle(p, title) ==
    /\ pc[p] = "idle"
    /\ "create" \in Command
    /\ counter < MaxId
    /\ ~Recent(title)
    /\ Continue(p, "scan", [NoJob EXCEPT !.cmd = "create", !.title = title])
    /\ UNCHANGED <<now, counter, tasks, files, backlog, faults, torn>>

\* ScanPlaceholderTaskIDs: the largest number among the file names under
\* works/; one beyond TaskIDSanityMax is not believed.
Scan(p) ==
    LET ids == Ids(files[Tree[p]]) IN
    /\ pc[p] = "scan"
    /\ \E n \in ids \cup {0} :
         /\ Largest(n, ids)
         /\ Continue(p, "bump", [job[p] EXCEPT !.max =
                                   IF n > TaskIDSanityMax THEN 0 ELSE n])
    /\ UNCHANGED <<now, counter, tasks, files, backlog, faults, torn>>

\* BumpTaskCounter, whose error is ignored.
Bump(p) ==
    /\ pc[p] = "bump"
    /\ \/ counter' = AtLeast(counter, job[p].max) /\ UNCHANGED faults
       \/ Fault /\ UNCHANGED counter
    /\ Goto(p, "max")
    /\ UNCHANGED <<now, tasks, files, backlog, torn>>

\* HealAndGetNextTaskID: SELECT MAX, then the counter raised to it, ...
ReadMax(p) ==
    /\ pc[p] = "max"
    /\ \E n \in Ids(tasks) \cup {0} :
         Largest(n, Ids(tasks)) /\ Continue(p, "sync", [job[p] EXCEPT !.max = n])
    /\ UNCHANGED <<now, counter, tasks, files, backlog, faults, torn>>

\* Mutant of SyncCounter: the counter is set to what was read.
OverwriteCounter(p) ==
    /\ pc[p] = "sync"
    /\ counter' = job[p].max
    /\ Goto(p, "next")
    /\ UNCHANGED <<now, tasks, files, backlog, faults, torn>>

SyncCounter(p) ==
    /\ pc[p] = "sync"
    /\ \/ /\ counter' = AtLeast(counter, job[p].max)
          /\ Goto(p, "next")
          /\ UNCHANGED faults
       \/ Fault /\ Return(p) /\ UNCHANGED counter
    /\ UNCHANGED <<now, tasks, files, backlog, torn>>

\* ... then nextCounter: increment and read back in one transaction.
NextCounter(p) ==
    /\ pc[p] = "next"
    /\ \/ /\ counter' = counter + 1
          /\ Continue(p, "file", [job[p] EXCEPT !.id = counter + 1])
          /\ UNCHANGED faults
       \/ Fault /\ Return(p) /\ UNCHANGED counter
    /\ UNCHANGED <<now, tasks, files, backlog, torn>>

\* What RenderTaskTemplate writes in the field sprint of a new Task; a mutant.
NullSprint  == "null"
SprintValue == "backlog"

\* CreateTaskFile.
WriteFile(p) ==
    /\ pc[p] = "file"
    /\ \/ /\ files' = [files EXCEPT ![Tree[p]] = @ \cup
                         {[id |-> job[p].id, title |-> job[p].title,
                           created |-> Today, sprint |-> SprintValue]}]
          /\ Goto(p, "list")
          /\ UNCHANGED faults
       \/ Fault /\ Return(p) /\ UNCHANGED files
    /\ UNCHANGED <<now, counter, tasks, backlog, torn>>

\* UpdateBacklogMD: BACKLOG.md is read whole and written back with one more
\* line; a failure is ignored.
AfterListing(j) == IF j.cmd = "create" THEN "summary" ELSE "relist"

ReadBacklog(p) ==
    /\ pc[p] = "list"
    /\ \/ /\ Continue(p, "listed", [job[p] EXCEPT !.page = backlog[Tree[p]]])
          /\ UNCHANGED faults
       \/ Fault /\ Goto(p, AfterListing(job[p]))
    /\ UNCHANGED <<now, counter, tasks, files, backlog, torn>>

WriteBacklog(p) ==
    /\ pc[p] = "listed"
    /\ \/ /\ backlog' = [backlog EXCEPT ![Tree[p]] = job[p].page \cup {job[p].id}]
          /\ UNCHANGED faults
       \/ Fault /\ UNCHANGED backlog
    /\ Goto(p, AfterListing(job[p]))
    /\ UNCHANGED <<now, counter, tasks, files, torn>>

\* RebuildBacklogSummary: the same once more, if a date or a count differs.
AfterSummary(j) == IF j.cmd = "create" THEN "insert" ELSE "idle"

ReadSummary(p) ==
    /\ pc[p] = "summary"
    /\ \/ Continue(p, "summed", [job[p] EXCEPT !.page = backlog[Tree[p]]])
       \/ Goto(p, AfterSummary(job[p]))
    /\ UNCHANGED <<now, counter, tasks, files, backlog, faults, torn>>

WriteSummary(p) ==
    /\ pc[p] = "summed"
    /\ backlog' = [backlog EXCEPT ![Tree[p]] = job[p].page]
    /\ Goto(p, AfterSummary(job[p]))
    /\ UNCHANGED <<now, counter, tasks, files, faults, torn>>

\* CreateTask: INSERT, refused for an identifier that has a row.
InsertRow(p) ==
    LET j == job[p] IN
    /\ pc[p] = "insert"
    /\ \/ /\ j.id \notin Ids(tasks)
          /\ tasks' = tasks \cup {[id |-> j.id, title |-> j.title,
                                   created |-> Today, at |-> now]}
          /\ Return(p)
          /\ UNCHANGED faults
       \/ /\ IF j.id \in Ids(tasks) THEN UNCHANGED faults ELSE Fault
          /\ Goto(p, "undo")
          /\ UNCHANGED tasks
    /\ UNCHANGED <<now, counter, files, backlog, torn>>

\* Mutant of UndoFile: the file stays.
KeepFile(p) ==
    /\ pc[p] = "undo"
    /\ Return(p)
    /\ UNCHANGED <<now, counter, tasks, files, backlog, faults, torn>>

\* The deferred rollback: there is no row of its own to delete, the file is
\* removed, the line in BACKLOG.md stays.
UndoFile(p) ==
    LET j == job[p] IN
    /\ pc[p] = "undo"
    /\ \/ /\ files' = [files EXCEPT ![Tree[p]] =
                         {f \in @ : <<f.id, f.title>> # <<j.id, j.title>>}]
          /\ UNCHANGED <<faults, torn>>
       \/ /\ Fault
          /\ torn' = torn \cup {j.id}
          /\ UNCHANGED files
    /\ Return(p)
    /\ UNCHANGED <<now, counter, tasks, backlog>>

-----------------------------------------------------------------------------
(* backlog sync: everything is compared first, then repaired.              *)

\* globTaskFiles.
ListFiles(p) ==
    /\ pc[p] = "idle"
    /\ "sync" \in Command
    /\ Continue(p, "rows", [NoJob EXCEPT !.cmd = "sync", !.seen = files[Tree[p]]])
    /\ UNCHANGED <<now, counter, tasks, files, backlog, faults, torn>>

StillThere(p) == job[p].seen \cap files[Tree[p]]

\* checkDBVsFrontmatter: files without a row.
FindMissing(p) ==
    /\ pc[p] = "rows"
    /\ Continue(p, "page", [job[p] EXCEPT !.missing =
                              {f \in StillThere(p) : f.id \notin Ids(tasks)}])
    /\ UNCHANGED <<now, counter, tasks, files, backlog, faults, torn>>

\* checkBacklogMDVsFiles: files without a sprint that BACKLOG.md does not list.
FindUnlisted(p) ==
    /\ pc[p] = "page"
    /\ Continue(p, "ghosts", [job[p] EXCEPT !.unlisted =
                                Ids({f \in StillThere(p) : f.sprint = ""})
                                  \ backlog[Tree[p]]])
    /\ UNCHANGED <<now, counter, tasks, files, backlog, faults, torn>>

\* checkDBOrphanTasks: rows without a file in the list, ...
ReadRows(p) ==
    /\ pc[p] = "ghosts"
    /\ Continue(p, "stat", [job[p] EXCEPT !.orphans = Ids(tasks) \ Ids(job[p].seen)])
    /\ UNCHANGED <<now, counter, tasks, files, backlog, faults, torn>>

\* Mutant of FileExistsInAnyWorktree: only this worktree is looked at.
FileExistsHere(p) == Ids(files[Tree[p]])
FileExistsInAnyWorktree(p) == Ids(Everywhere)

\* ... not in BACKLOG.md, and without a file in any worktree.
FindOrphans(p) ==
    /\ pc[p] = "stat"
    /\ Continue(p, "repair",
                [job[p] EXCEPT !.orphans = @ \ (backlog[Tree[p]] \cup
                                                FileExistsInAnyWorktree(p))])
    /\ UNCHANGED <<now, counter, tasks, files, backlog, faults, torn>>

\* applyFixes.  UpsertTaskInsert inserts the row, unless there is one by now,
\* and raises the counter.  A repair that fails is skipped, here and below.
RepairRow(p) ==
    /\ pc[p] = "repair"
    /\ \/ \E f \in job[p].missing :
            /\ Continue(p, "repair", [job[p] EXCEPT !.missing = @ \ {f}])
            /\ \/ /\ tasks' = IF f.id \in Ids(tasks) THEN tasks
                              ELSE tasks \cup {[id |-> f.id, title |-> f.title,
                                                created |-> f.created, at |-> now]}
                  /\ counter' = AtLeast(counter, f.id)
                  /\ UNCHANGED faults
               \/ Fault /\ UNCHANGED <<tasks, counter>>
       \/ /\ job[p].missing = {}
          /\ Goto(p, "relist")
          /\ UNCHANGED <<tasks, counter, faults>>
    /\ UNCHANGED <<now, files, backlog, torn>>

\* UpdateBacklogMD for each of the unlisted.
Relist(p) ==
    /\ pc[p] = "relist"
    /\ \/ \E n \in job[p].unlisted :
            Continue(p, "list", [job[p] EXCEPT !.id = n,
                                               !.unlisted = @ \ {n}])
       \/ job[p].unlisted = {} /\ Goto(p, "purge")
    /\ UNCHANGED <<now, counter, tasks, files, backlog, faults, torn>>

\* DeleteTask for each of the orphans.
Purge(p) ==
    /\ pc[p] = "purge"
    /\ \/ \E n \in job[p].orphans :
            /\ Continue(p, "purge", [job[p] EXCEPT !.orphans = @ \ {n}])
            /\ \/ tasks' = {r \in tasks : r.id # n} /\ UNCHANGED faults
               \/ Fault /\ UNCHANGED tasks
       \/ /\ job[p].orphans = {}
          /\ Goto(p, "summary")
          /\ UNCHANGED <<tasks, faults>>
    /\ UNCHANGED <<now, counter, files, backlog, torn>>

-----------------------------------------------------------------------------
Crash(p) ==
    /\ pc[p] # "idle"
    /\ Fault
    /\ torn' = IF Holds(p) THEN torn \cup {job[p].id} ELSE torn
    /\ Return(p)
    /\ UNCHANGED <<now, counter, tasks, files, backlog>>

Tick == /\ now < MaxTime
        /\ now' = now + 1
        /\ UNCHANGED <<counter, tasks, files, backlog, pc, job, faults, torn>>

Create(p) ==
    \/ \E title \in Title : CheckTitle(p, title)
    \/ Scan(p) \/ Bump(p) \/ ReadMax(p) \/ SyncCounter(p) \/ NextCounter(p)
    \/ WriteFile(p) \/ InsertRow(p) \/ UndoFile(p)

Page(p) == \/ ReadBacklog(p) \/ WriteBacklog(p)
           \/ ReadSummary(p) \/ WriteSummary(p)

Sync(p) == \/ ListFiles(p) \/ FindMissing(p) \/ FindUnlisted(p) \/ ReadRows(p)
           \/ FindOrphans(p) \/ RepairRow(p) \/ Relist(p) \/ Purge(p)

Next == Tick \/ \E p \in Proc : Create(p) \/ Page(p) \/ Sync(p) \/ Crash(p)

Spec == Init /\ [][Next]_vars

-----------------------------------------------------------------------------
(* Properties.                                                             *)

\* "Concurrent calls never collide": the identifiers of Tasks in the making
\* differ, wherever the counter stood before (TaskIDNext, nextCounter).
DistinctIds ==
    \A p, q \in Proc : p # q /\ Holds(p) /\ Holds(q) => job[p].id # job[q].id

\* ... and nobody has a row by that identifier, so that CreateTask's INSERT is
\* never refused and a rollback never removes another Task's file.
UnusedIds == \A p \in Proc : Holds(p) => job[p].id \notin Ids(tasks)

\* With a sync beside it there may be one: but it is the Task's own, as is the
\* file by that identifier, in whatever worktree.  (The error of BumpTaskCounter
\* is ignored: after one the identifier of a file without a row is used again.)
OwnId ==
    faults = 0 => \A p \in Proc : Holds(p) =>
      \A x \in tasks \cup Everywhere : x.id = job[p].id => x.title = job[p].title

\* checkDBOrphanTasks: sync deletes no row of a Task whose file lies in some
\* worktree, not even one that appeared while it was comparing.
DeletesOnlyOrphans ==
    [][(Ids(tasks) \ Ids(tasks')) \cap Ids(Everywhere) = {}]_vars

Idle == \A p \in Proc : pc[p] = "idle"

\* A create that fails takes its file back: at rest every file that create
\* made has a row, unless its process died or could not remove it.
FilesHaveRows ==
    Idle => {n \in Ids(Everywhere) : n \notin KnownFiles \cup torn} \subseteq Ids(tasks)

\* What the check does keep: with a window of a day, wherever the clock stands
\* in the local day, no create gets past it while a Task of its title dated
\* today has a row.
NoTwinToday ==
    [][\A p \in Proc : pc[p] = "idle" /\ pc'[p] = "scan" =>
         \A r \in tasks : r.title = job'[p].title => r.created # Today]_vars
=============================================================================
