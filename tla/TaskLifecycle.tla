--------------------------- MODULE TaskLifecycle ---------------------------
(***************************************************************************)
(* The lifecycle of Tasks: `hstl-oss task start | checkpoint | complete |  *)
(* reopen | delete | update` and `harness check`, each run by an operating *)
(* system process of its own, any number of them at once (several          *)
(* terminals, several worktrees).  The processes share                     *)
(*                                                                         *)
(*   - one SQLite database in WAL mode: the tables tasks and harness_items;*)
(*   - the Task files under works/, whose frontmatter repeats the status;  *)
(*   - the SPRINT.md table, which repeats it once more.                    *)
(*                                                                         *)
(* A step is one database statement that commits, one statement of the     *)
(* transition transaction, or one access to a file.  Reads and writes of   *)
(* a file take no lock.  Other writers of the database (the audit log, the *)
(* other commands) appear through the failures they cause: a transaction   *)
(* may always lose its upgrade to a write transaction.                     *)
(***************************************************************************)
EXTENDS Naturals, FiniteSets

CONSTANTS
    Proc,        \* processes running a command
    Task,        \* Tasks that exist at the start
    SprintTask,  \* those bound to the (one, active) Sprint
    Prepared,    \* those with a work ticket and a Result section of their own
    Misplaced,   \* those whose tasks.file_path is outdated at the start
    Item,        \* required harness items of a Task
    Command,     \* the commands users issue
    MaxFaults,   \* bound on crashes and failed operations
    NoProc, NoTask, NoItem

AllCommands ==
    {"start", "checkpoint", "complete", "reopen", "delete", "update", "check"}

ASSUME SetAssumption == /\ SprintTask \subseteq Task
                        /\ Prepared \subseteq Task
                        /\ Misplaced \subseteq Task
                        /\ Command \subseteq AllCommands
                        /\ MaxFaults \in Nat
ASSUME SentinelAssumption == /\ NoProc \notin Proc
                             /\ NoTask \notin Task
                             /\ NoItem \notin Item

VARIABLES
    \* tables of the database
    dbStatus,    \* tasks.status, Absent without a row
    dbPath,      \* tasks.file_path
    ticket,      \* whether tasks.work_ticket is set
    seeded,      \* whether the Task's harness_items rows exist
    checked,     \* the harness items with done = 1
    \* SQLite's concurrency control
    lock,        \* the process in a write transaction
    stale,       \* processes whose snapshot predates another's commit
    \* files
    file,        \* frontmatter status of the Task's file in each folder
    row,         \* status column of the Task's row of SPRINT.md
    \* processes
    pc, job,
    \* faults, and the Tasks whose last transition died after its file work
    faults, torn

tables == <<dbStatus, dbPath, ticket, seeded, checked>>
files  == <<file, row>>
vars   == <<dbStatus, dbPath, ticket, seeded, checked, lock, stale,
            file, row, pc, job, faults, torn>>

Absent  == "absent"
Nowhere == "nowhere"
Status  == {"todo", "in-progress", "done", "absorbed"}
Content == Status \cup {Absent}

\* works/tasks, works/tasks/completed, works/sprints/active/<sprint>/tasks
Loc == {"tasks", "completed", "sprint"}
Home(t) == IF t \in SprintTask THEN "sprint" ELSE "tasks"

Label == {"idle", "read", "ensure", "gate", "check", "stub",
          "lookup", "resolve", "begin", "lock", "fm", "move", "commit",
          "row", "ticket", "body", "rewrite", "reconcile",
          "fm_free", "unmove", "set_path", "force", "reset",
          "remove", "drop_row", "drop", "orphan"}
InTransaction == {"fm", "move", "commit"}

\* The local variables of a command: the Task, the status transition in hand,
\* the file it works on, the file content it read, the harness item, whether
\* the file moved, whether `complete` began from todo, what follows `ensure`.
Job == [cmd : AllCommands \cup {"none"}, task : Task \cup {NoTask},
        from : Content, to : Content, path : Loc \cup {Nowhere},
        buf : Content, item : Item \cup {NoItem}, moved : BOOLEAN,
        cascade : BOOLEAN, next : Label]

NoJob == [cmd |-> "none", task |-> NoTask, from |-> Absent, to |-> Absent,
          path |-> Nowhere, buf |-> Absent, item |-> NoItem,
          moved |-> FALSE, cascade |-> FALSE, next |-> "idle"]

TypeOK ==
    /\ dbStatus \in [Task -> Content]
    /\ dbPath \in [Task -> Loc]
    /\ ticket \in [Task -> BOOLEAN]
    /\ seeded \in [Task -> BOOLEAN]
    /\ checked \in [Task -> SUBSET Item]
    /\ lock \in Proc \cup {NoProc}
    /\ stale \subseteq Proc
    /\ file \in [Task -> [Loc -> Content]]
    /\ row \in [Task -> Content]
    /\ pc \in [Proc -> Label]
    /\ job \in [Proc -> Job]
    /\ faults \in Nat
    /\ torn \subseteq Task

\* Tasks as `task create` leaves them: todo in the database, in the file and,
\* for a Task of the Sprint, in SPRINT.md.
Init ==
    /\ dbStatus = [t \in Task |-> "todo"]
    /\ dbPath = [t \in Task |-> IF t \notin Misplaced THEN Home(t)
                                ELSE IF t \in SprintTask THEN "tasks"
                                ELSE "completed"]
    /\ ticket = [t \in Task |-> t \in Prepared]
    /\ seeded = [t \in Task |-> FALSE]
    /\ checked = [t \in Task |-> {}]
    /\ lock = NoProc
    /\ stale = {}
    /\ file = [t \in Task |->
                 [l \in Loc |-> IF l = Home(t) THEN "todo" ELSE Absent]]
    /\ row = [t \in Task |-> IF t \in SprintTask THEN "todo" ELSE Absent]
    /\ pc = [p \in Proc |-> "idle"]
    /\ job = [p \in Proc |-> NoJob]
    /\ faults = 0
    /\ torn = {}

-----------------------------------------------------------------------------
(* Control flow, and the database's and the file system's primitives.      *)

\* The process goes on at label l with local variables j; at "idle" the
\* command has returned.
Continue(p, l, j) ==
    /\ pc' = [pc EXCEPT ![p] = l]
    /\ job' = [job EXCEPT ![p] = IF l = "idle" THEN NoJob ELSE j]

Goto(p, l) == Continue(p, l, job[p])
Return(p)  == Goto(p, "idle")

\* One failed write, rename or COMMIT; MaxFaults bounds how many happen.
Fault == faults < MaxFaults /\ faults' = faults + 1

\* A statement outside an explicit transaction commits on its own.  It waits
\* for the write lock, up to busy_timeout.
Free == lock = NoProc
Busy == lock # NoProc

\* A commit that changes the database outdates every other open snapshot.
Committed(changes) == stale' = IF changes THEN Proc ELSE stale

\* ResolveTaskPath: the file named by tasks.file_path, else the one found in
\* works/tasks, else the only one found anywhere.
Copies(t) == {l \in Loc : file[t][l] # Absent}
Resolved(t, l) ==
    CASE file[t][l] # Absent -> l
      [] file[t][l] = Absent /\ file[t]["tasks"] # Absent -> "tasks"
      [] OTHER -> IF \E m \in Loc : Copies(t) = {m}
                  THEN CHOOSE m \in Loc : Copies(t) = {m}
                  ELSE Nowhere

\* Mutant of HealPath: a search that found nothing is written back too.
HealAnything(t, l, found) ==
    IF found # l /\ dbStatus[t] # Absent /\ Free
    THEN dbPath' = [dbPath EXCEPT ![t] = found] /\ Committed(TRUE)
    ELSE UNCHANGED <<dbPath, stale>>

\* ... and a path found by the search is written back to the database,
\* unless the write finds the database busy: its error is ignored.
HealPath(t, l, found) ==
    IF found \in Loc \ {l} /\ dbStatus[t] # Absent
    THEN \/ /\ Free
            /\ dbPath' = [dbPath EXCEPT ![t] = found]
            /\ Committed(TRUE)
         \/ /\ Busy
            /\ UNCHANGED <<dbPath, stale>>
    ELSE UNCHANGED <<dbPath, stale>>

WriteFile(t, l, s) == file' = [file EXCEPT ![t][l] = s]

\* Mutants of MoveFile: the source is kept; the file is not moved.
CopyFile(t, from, to)  == file' = [file EXCEPT ![t][to] = file[t][from]]
LeaveFile(t, from, to) == UNCHANGED file

\* Renaming the file to another folder; where the destination exists already
\* the source is removed instead.
MoveFile(t, from, to) ==
    LET kept == IF file[t][to] # Absent THEN file[t][to] ELSE file[t][from]
    IN  file' = [file EXCEPT ![t] = [@ EXCEPT ![from] = Absent, ![to] = kept]]

-----------------------------------------------------------------------------
(* A user issues a command.                                                *)

Issue(p, c, t) ==
    LET new == [NoJob EXCEPT !.cmd = c, !.task = t]
    IN
    /\ pc[p] = "idle"
    /\ c \in Command
    /\ CASE c = "start" ->
              Continue(p, "lookup",
                       [new EXCEPT !.from = "todo", !.to = "in-progress"])
         [] c = "check" -> \E i \in Item :
              Continue(p, "ensure", [new EXCEPT !.item = i, !.next = "check"])
         [] c = "reopen" -> \E s \in {"todo", "in-progress"} :
              Continue(p, "read", [new EXCEPT !.to = s])
         [] c = "update" -> \E s \in Status :
              Continue(p, "read", [new EXCEPT !.to = s])
         [] OTHER -> Continue(p, "read", new)
    /\ UNCHANGED <<tables, files, lock, stale, faults, torn>>

\* The status each command reads first, and what it demands of it.  A Task
\* without a row is left to `delete --orphan-file`.
ReadStatus(p) ==
    LET j == job[p]
        s == dbStatus[j.task]
        Admitted ==
            CASE j.cmd = "complete"   -> s \in {"todo", "in-progress"}
              [] j.cmd = "checkpoint" -> s = "in-progress"
              [] j.cmd = "reopen"     -> \/ s = "done"
                                         \/ s = "in-progress" /\ j.to = "todo"
              [] j.cmd = "delete"     -> s = "todo"
              [] j.cmd = "update"     -> s # Absent /\ s # j.to
              [] OTHER                -> FALSE
    IN
    /\ pc[p] = "read"
    /\ \/ ~Admitted /\ Return(p)
       \/ j.cmd = "delete" /\ s = Absent /\ Goto(p, "orphan")
       \/ /\ Admitted
          /\ CASE j.cmd = "complete" ->
                    Continue(p, "ensure", [j EXCEPT !.cascade = (s = "todo"),
                                                    !.next = "gate"])
               [] j.cmd = "checkpoint" -> Goto(p, "ticket")
               [] OTHER ->
                    Continue(p, "resolve", [j EXCEPT !.from = s,
                                                     !.path = dbPath[j.task]])
    /\ UNCHANGED <<tables, files, lock, stale, faults, torn>>

-----------------------------------------------------------------------------
(* The Harness Gate.                                                       *)

\* Mutant of EnsureItems: an error goes unnoticed.
EnsureRegardless(p) ==
    /\ pc[p] = "ensure"
    /\ IF Free THEN /\ seeded' = [seeded EXCEPT ![job[p].task] = TRUE]
                    /\ Committed(~seeded[job[p].task])
               ELSE UNCHANGED <<seeded, stale>>
    /\ Goto(p, job[p].next)
    /\ UNCHANGED <<dbStatus, dbPath, ticket, checked, files, lock, faults, torn>>

\* EnsureHarnessItems: insert the rows of the template that are missing.
EnsureItems(p) ==
    LET t == job[p].task IN
    /\ pc[p] = "ensure"
    /\ \/ /\ Free
          /\ seeded' = [seeded EXCEPT ![t] = TRUE]
          /\ Committed(~seeded[t])
          /\ Goto(p, job[p].next)
       \/ /\ Busy
          /\ Return(p)
          /\ UNCHANGED <<seeded, stale>>
    /\ UNCHANGED <<dbStatus, dbPath, ticket, checked, files, lock, faults, torn>>

\* Mutant of Unchecked: one checked item is enough.
NoneChecked(t) == seeded[t] /\ checked[t] = {} /\ Item # {}

\* The rows say that some required item is unchecked; no rows say nothing.
Unchecked(t) == seeded[t] /\ checked[t] # Item

\* CheckHarness reads the items back with a statement of its own.  A Task
\* that passes may still be refused: its Rollback or
\* Result section does not hold up.
Gate(p) ==
    LET blocked == Unchecked(job[p].task) IN
    /\ pc[p] = "gate"
    /\ \/ blocked /\ Continue(p, "ensure", [job[p] EXCEPT !.next = "idle"])
       \/ ~blocked /\ Goto(p, "stub")
       \/ ~blocked /\ Return(p)
    /\ UNCHANGED <<tables, files, lock, stale, faults, torn>>

\* HarnessCheck marks an item, unless its row is missing or its evidence is
\* refused, and evaluates the gate again.
CheckItem(p) ==
    LET t == job[p].task
        after == [job[p] EXCEPT !.next = "idle"]
    IN
    /\ pc[p] = "check"
    /\ \/ /\ Free
          /\ seeded[t]
          /\ checked' = [checked EXCEPT ![t] = @ \cup {job[p].item}]
          /\ Committed(job[p].item \notin checked[t])
          /\ Continue(p, "ensure", after)
       \/ /\ ~seeded[t]
          /\ Continue(p, "ensure", after)
          /\ UNCHANGED <<checked, stale>>
       \/ /\ Return(p)
          /\ UNCHANGED <<checked, stale>>
    /\ UNCHANGED <<dbStatus, dbPath, ticket, seeded, files, lock, faults, torn>>

-----------------------------------------------------------------------------
(* transitionTask, the transition every `start` and `complete` goes through*)

\* Mutant of FirstTransition: `complete` goes from todo to done at once.
StraightToDone(p) ==
    LET s == IF job[p].cascade THEN "todo" ELSE "in-progress"
    IN  Continue(p, "lookup", [job[p] EXCEPT !.from = s, !.to = "done"])

FirstTransition(p) ==
    LET s == IF job[p].cascade THEN "todo" ELSE "in-progress"
        r == IF job[p].cascade THEN "in-progress" ELSE "done"
    IN  Continue(p, "lookup", [job[p] EXCEPT !.from = s, !.to = r])

\* Mutant of TransitionFailed: try again until it works.
RetryTransition(p) == Goto(p, "lookup")

\* A failed transition ends the command, after `complete` has taken a cascade
\* from todo back.
TransitionFailed(p) ==
    LET j == job[p] IN
    IF j.cmd = "complete" /\ j.cascade /\ j.to = "done"
    THEN Continue(p, "lookup",
                  [j EXCEPT !.from = "in-progress", !.to = "todo"])
    ELSE Return(p)

TransitionSucceeded(p) ==
    LET j == job[p] IN
    CASE j.cmd = "start" -> Goto(p, "ticket")
      [] j.cmd = "complete" /\ j.to = "in-progress" ->
           Continue(p, "lookup", [j EXCEPT !.from = "in-progress", !.to = "done"])
      [] j.cmd = "complete" /\ j.to = "done" -> Goto(p, "reconcile")
      [] OTHER -> Return(p)

\* GetTaskFull and the test of the expected status, outside the transaction.
Lookup(p) ==
    LET j == job[p] IN
    /\ pc[p] = "lookup"
    /\ IF dbStatus[j.task] = j.from
       THEN Continue(p, "resolve", [j EXCEPT !.path = dbPath[j.task],
                                             !.moved = FALSE])
       ELSE TransitionFailed(p)
    /\ UNCHANGED <<tables, files, lock, stale, faults, torn>>

\* Find the file; without one only a transition gives up.
Resolve(p) ==
    LET j == job[p]
        found == Resolved(j.task, j.path)
    IN
    /\ pc[p] = "resolve"
    /\ HealPath(j.task, j.path, found)
    /\ IF found = Nowhere
       THEN CASE j.cmd \in {"start", "complete"} -> TransitionFailed(p)
              [] j.cmd = "delete" -> Goto(p, "drop_row")
              [] OTHER -> Goto(p, "force")
       ELSE Continue(p, CASE j.cmd \in {"start", "complete"} -> "begin"
                          [] j.cmd = "delete" -> "remove"
                          [] OTHER -> "fm_free",
                     [j EXCEPT !.path = found])
    /\ UNCHANGED <<dbStatus, ticket, seeded, checked, files, lock, faults, torn>>

\* Mutant of BeginTransaction: the status is not tested again.
BeginUntested(p) ==
    /\ pc[p] = "begin"
    /\ stale' = stale \ {p}
    /\ Goto(p, "lock")
    /\ UNCHANGED <<tables, files, lock, faults, torn>>

\* BEGIN DEFERRED and SELECT status: the snapshot is taken here.
BeginTransaction(p) ==
    /\ pc[p] = "begin"
    /\ IF dbStatus[job[p].task] = job[p].from
       THEN /\ stale' = stale \ {p}
            /\ Goto(p, "lock")
       ELSE /\ TransitionFailed(p)
            /\ UNCHANGED stale
    /\ UNCHANGED <<tables, files, lock, faults, torn>>

\* UPDATE tasks SET status: the write lock is taken if the snapshot is still
\* current; SQLITE_BUSY or SQLITE_BUSY_SNAPSHOT otherwise.
UpdateStatus(p) ==
    /\ pc[p] = "lock"
    /\ \/ /\ Free
          /\ p \notin stale
          /\ lock' = p
          /\ Goto(p, "fm")
       \/ /\ TransitionFailed(p)
          /\ UNCHANGED lock
    /\ UNCHANGED <<tables, files, stale, faults, torn>>

\* Mutant of Rollback: the transaction stays open.
NoRollback(p) == UNCHANGED lock /\ TransitionFailed(p)

Rollback(p) == lock' = NoProc /\ TransitionFailed(p)

\* fileOp, first half: the frontmatter of the file, in place.
WriteFrontmatter(p) ==
    LET j == job[p]
        exists == file[j.task][j.path] # Absent
    IN
    /\ pc[p] = "fm"
    /\ \/ /\ exists
          /\ WriteFile(j.task, j.path, j.to)
          /\ Goto(p, "move")
          /\ UNCHANGED <<lock, faults>>
       \/ /\ IF exists THEN Fault ELSE UNCHANGED faults
          /\ Rollback(p)
          /\ UNCHANGED file
    /\ UNCHANGED <<tables, row, stale, torn>>

\* fileOp, second half: a Task without a Sprint that is done moves from
\* works/tasks to works/tasks/completed.  A failed move writes the old status
\* back (which may fail as well) and rolls the transaction back.
MoveToCompleted(p) ==
    LET j == job[p]
        t == j.task
        moves == t \notin SprintTask /\ j.to = "done" /\ j.path = "tasks"
        exists == file[t][j.path] # Absent
    IN
    /\ pc[p] = "move"
    /\ \/ /\ ~moves
          /\ Goto(p, "commit")
          /\ UNCHANGED <<file, lock, faults, torn>>
       \/ /\ moves
          /\ exists \/ file[t]["completed"] # Absent
          /\ MoveFile(t, "tasks", "completed")
          /\ Continue(p, "commit", [j EXCEPT !.path = "completed",
                                             !.moved = TRUE])
          /\ UNCHANGED <<lock, faults, torn>>
       \/ /\ moves
          /\ IF exists
             THEN /\ Fault
                  /\ \/ /\ WriteFile(t, j.path, j.from)
                        /\ UNCHANGED torn
                     \/ /\ torn' = torn \cup {t}
                        /\ UNCHANGED file
             ELSE /\ file[t]["completed"] = Absent
                  /\ UNCHANGED <<file, faults, torn>>
          /\ Rollback(p)
    /\ UNCHANGED <<tables, row, stale>>

\* COMMIT.  When it fails the database is rolled back, the files are not.
CommitTransaction(p) ==
    LET j == job[p]
        t == j.task
    IN
    /\ pc[p] = "commit"
    /\ \/ /\ dbStatus' = [dbStatus EXCEPT ![t] = j.to]
          /\ dbPath' = IF j.moved THEN [dbPath EXCEPT ![t] = j.path] ELSE dbPath
          /\ Committed(TRUE)
          /\ torn' = torn \ {t}
          /\ IF t \in SprintTask THEN Goto(p, "row") ELSE TransitionSucceeded(p)
          /\ UNCHANGED faults
       \/ /\ Fault
          /\ torn' = torn \cup {t}
          /\ TransitionFailed(p)
          /\ UNCHANGED <<dbStatus, dbPath, stale>>
    /\ lock' = NoProc
    /\ UNCHANGED <<ticket, seeded, checked, files>>

\* UpdateSprintMD: the status cell of the Task's row, which is added if there
\* is none; a cell that says absorbed is no label it replaces.  `task update`
\* removes the row first.
KeptAbsorbed(j) == IF row[j.task] = "absorbed" THEN "absorbed" ELSE j.to \* mutant
NewCell(j) ==
    IF row[j.task] = "absorbed" /\ j.cmd # "update" THEN "absorbed" ELSE j.to

\* Only a Task that was done loses its checks; mutant: none does.
KeepChecks(j)  == "reconcile"
AfterReopen(j) == IF j.from = "done" THEN "reset" ELSE "reconcile"

WriteSprintRow(p) ==
    LET j == job[p] IN
    /\ pc[p] = "row"
    /\ row' = [row EXCEPT ![j.task] = NewCell(j)]
    /\ CASE j.cmd = "update" -> Return(p)
         [] j.cmd = "reopen" -> Goto(p, AfterReopen(j))
         [] OTHER -> TransitionSucceeded(p)
    /\ UNCHANGED <<tables, file, lock, stale, faults, torn>>

-----------------------------------------------------------------------------
(* Work ticket and Result stub: the body of the file is read whole, changed*)
(* and written back, outside any transaction and under no lock.            *)

AfterBody(j) == IF j.cmd = "start" THEN "reconcile" ELSE "idle"

\* SetTaskWorkTicket; `start` keeps a ticket that is there.
IssueTicket(p) ==
    LET j == job[p] IN
    /\ pc[p] = "ticket"
    /\ \/ /\ j.cmd = "start" /\ ticket[j.task]
          /\ Goto(p, "reconcile")
          /\ UNCHANGED <<ticket, stale>>
       \/ /\ ~(j.cmd = "start" /\ ticket[j.task])
          /\ Free
          /\ ticket' = [ticket EXCEPT ![j.task] = (dbStatus[j.task] # Absent)]
          /\ Committed(dbStatus[j.task] # Absent)
          /\ Goto(p, "body")
       \/ /\ ~(j.cmd = "start" /\ ticket[j.task])
          /\ Busy
          /\ Goto(p, AfterBody(j))
          /\ UNCHANGED <<ticket, stale>>
    /\ UNCHANGED <<dbStatus, dbPath, seeded, checked, files, lock, faults, torn>>

\* writeWorkTicketToFrontmatter, up to its ReadFile.
ReadBody(p) ==
    LET j == job[p]
        t == j.task
        found == Resolved(t, dbPath[t])
    IN
    /\ pc[p] = "body"
    /\ IF dbStatus[t] = Absent \/ found = Nowhere
       THEN /\ Goto(p, AfterBody(j))
            /\ UNCHANGED <<dbPath, stale>>
       ELSE /\ HealPath(t, dbPath[t], found)
            /\ Continue(p, "rewrite", [j EXCEPT !.path = found,
                                                !.buf = file[t][found]])
    /\ UNCHANGED <<dbStatus, ticket, seeded, checked, files, lock, faults, torn>>

\* EnsureResultSectionStub and StripT578Blockquote, up to their ReadFile: they
\* use tasks.file_path as it stands.  A Result section that is complete is
\* left alone.
ReadForStub(p) ==
    LET j == job[p]
        t == j.task
        l == dbPath[t]
    IN
    /\ pc[p] = "stub"
    /\ \/ FirstTransition(p)
       \/ /\ t \notin Prepared
          /\ dbStatus[t] # Absent
          /\ file[t][l] # Absent
          /\ Continue(p, "rewrite", [j EXCEPT !.path = l, !.buf = file[t][l]])
    /\ UNCHANGED <<tables, files, lock, stale, faults, torn>>

\* WriteFile: the content read before, status included, to the path found
\* before; the file is created if it is not there any more.
RewriteBody(p) ==
    LET j == job[p] IN
    /\ pc[p] = "rewrite"
    /\ WriteFile(j.task, j.path, j.buf)
    /\ IF j.cmd = "complete" THEN FirstTransition(p) ELSE Goto(p, AfterBody(j))
    /\ UNCHANGED <<tables, row, lock, stale, faults, torn>>

\* reconcileTaskPathsForSprint: the path of every Task of the Sprint is set
\* from the files found in its folder.
Reconcile(p) ==
    LET t == job[p].task
        present == {s \in SprintTask : /\ dbStatus[s] # Absent
                                       /\ file[s]["sprint"] # Absent}
    IN
    /\ pc[p] = "reconcile"
    /\ \/ /\ t \in SprintTask
          /\ dbStatus[t] # Absent \/ job[p].cmd = "reopen"
          /\ Free
          /\ dbPath' = [s \in Task |->
                          IF s \in present THEN "sprint" ELSE dbPath[s]]
          /\ Committed(\E s \in present : dbPath[s] # "sprint")
       \/ /\ \/ t \notin SprintTask
             \/ dbStatus[t] = Absent /\ job[p].cmd # "reopen"
             \/ Busy
          /\ UNCHANGED <<dbPath, stale>>
    /\ Return(p)
    /\ UNCHANGED <<dbStatus, ticket, seeded, checked, files, lock, faults, torn>>

-----------------------------------------------------------------------------
(* reopen, update and delete: no transaction, one file or statement after  *)
(* the other, errors of the database ignored.                              *)

\* The frontmatter.  Only `update` gives up when the write fails.
WriteFrontmatterFree(p) ==
    LET j == job[p]
        t == j.task
        exists == file[t][j.path] # Absent
        after == IF j.cmd = "reopen" /\ t \notin SprintTask /\ j.from = "done"
                 THEN "unmove" ELSE "force"
    IN
    /\ pc[p] = "fm_free"
    /\ \/ /\ exists
          /\ WriteFile(t, j.path, j.to)
          /\ Goto(p, after)
          /\ UNCHANGED faults
       \/ /\ IF exists THEN Fault ELSE UNCHANGED faults
          /\ Goto(p, IF j.cmd = "update" THEN "idle" ELSE after)
          /\ UNCHANGED file
    /\ UNCHANGED <<tables, row, lock, stale, torn>>

\* MoveTaskFromCompleted.
MoveFromCompleted(p) ==
    LET j == job[p]
        t == j.task
        possible == /\ j.path = "completed"
                    /\ Copies(t) \cap {"tasks", "completed"} # {}
    IN
    /\ pc[p] = "unmove"
    /\ \/ /\ possible
          /\ MoveFile(t, "completed", "tasks")
          /\ Goto(p, "set_path")
          /\ UNCHANGED faults
       \/ /\ IF possible THEN Fault ELSE UNCHANGED faults
          /\ Goto(p, "force")
          /\ UNCHANGED file
    /\ UNCHANGED <<tables, row, lock, stale, torn>>

\* UpdateTaskFilePath after the move.
SetPath(p) ==
    LET t == job[p].task IN
    /\ pc[p] = "set_path"
    /\ \/ /\ Free /\ dbStatus[t] # Absent
          /\ dbPath' = [dbPath EXCEPT ![t] = "tasks"]
          /\ Committed(dbPath[t] # "tasks")
       \/ /\ Busy \/ dbStatus[t] = Absent
          /\ UNCHANGED <<dbPath, stale>>
    /\ Goto(p, "force")
    /\ UNCHANGED <<dbStatus, ticket, seeded, checked, files, lock, faults, torn>>

\* UpdateTaskStatusDirect, UpdateTaskDirect: whatever the status is by now.
ForceStatus(p) ==
    LET j == job[p]
        t == j.task
    IN
    /\ pc[p] = "force"
    /\ \/ /\ Free /\ dbStatus[t] # Absent
          /\ dbStatus' = [dbStatus EXCEPT ![t] = j.to]
          /\ Committed(dbStatus[t] # j.to)
       \/ /\ Busy \/ dbStatus[t] = Absent
          /\ UNCHANGED <<dbStatus, stale>>
    /\ Goto(p, IF t \in SprintTask THEN "row"
               ELSE IF j.cmd = "update" THEN "idle" ELSE AfterReopen(j))
    /\ UNCHANGED <<dbPath, ticket, seeded, checked, files, lock, faults, torn>>

\* DeleteHarnessItemsForEntity: a done Task that was reopened has to pass the
\* gate again.
ResetHarness(p) ==
    LET t == job[p].task IN
    /\ pc[p] = "reset"
    /\ \/ /\ Free
          /\ seeded' = [seeded EXCEPT ![t] = FALSE]
          /\ checked' = [checked EXCEPT ![t] = {}]
          /\ Committed(seeded[t])
       \/ /\ Busy
          /\ UNCHANGED <<seeded, checked, stale>>
    /\ Goto(p, "reconcile")
    /\ UNCHANGED <<dbStatus, dbPath, ticket, files, lock, faults, torn>>

\* os.Remove; its error is ignored.
RemoveFile(p) ==
    LET j == job[p] IN
    /\ pc[p] = "remove"
    /\ \/ /\ WriteFile(j.task, j.path, Absent)
          /\ UNCHANGED faults
       \/ /\ Fault
          /\ UNCHANGED file
    /\ Goto(p, "drop_row")
    /\ UNCHANGED <<tables, row, lock, stale, torn>>

\* RemoveRowFromSprintMD.
RemoveRow(p) ==
    LET t == job[p].task IN
    /\ pc[p] = "drop_row"
    /\ row' = IF t \in SprintTask THEN [row EXCEPT ![t] = Absent] ELSE row
    /\ Goto(p, "drop")
    /\ UNCHANGED <<tables, file, lock, stale, faults, torn>>

\* DeleteTask.
DeleteTask(p) ==
    LET t == job[p].task IN
    /\ pc[p] = "drop"
    /\ \/ /\ Free
          /\ dbStatus' = [dbStatus EXCEPT ![t] = Absent]
          /\ ticket' = [ticket EXCEPT ![t] = FALSE]
          /\ Committed(dbStatus[t] # Absent)
       \/ /\ Busy
          /\ UNCHANGED <<dbStatus, ticket, stale>>
    /\ Return(p)
    /\ UNCHANGED <<dbPath, seeded, checked, files, lock, faults, torn>>

\* deleteOrphanFile: the one file of a Task that has no row; more than one
\* is left to the user.
RemoveOrphan(p) ==
    LET t == job[p].task IN
    /\ pc[p] = "orphan"
    /\ \/ /\ \E l \in Loc : Copies(t) = {l} /\ WriteFile(t, l, Absent)
          /\ UNCHANGED faults
       \/ /\ IF Cardinality(Copies(t)) = 1 THEN Fault ELSE UNCHANGED faults
          /\ UNCHANGED file
    /\ Return(p)
    /\ UNCHANGED <<tables, row, lock, stale, torn>>

-----------------------------------------------------------------------------
\* The process is killed: SQLite rolls its transaction back.
Crash(p) ==
    /\ pc[p] # "idle"
    /\ Fault
    /\ lock' = IF lock = p THEN NoProc ELSE lock
    /\ torn' = IF pc[p] \in {"move", "commit"} THEN torn \cup {job[p].task}
                                               ELSE torn
    /\ Return(p)
    /\ UNCHANGED <<tables, files, stale>>

GateStep(p) == EnsureItems(p) \/ Gate(p) \/ CheckItem(p)

TransitionStep(p) ==
    \/ Lookup(p) \/ Resolve(p) \/ BeginTransaction(p) \/ UpdateStatus(p)
    \/ WriteFrontmatter(p) \/ MoveToCompleted(p) \/ CommitTransaction(p)
    \/ WriteSprintRow(p)

BodyStep(p) == \/ IssueTicket(p) \/ ReadBody(p) \/ ReadForStub(p)
               \/ RewriteBody(p) \/ Reconcile(p)

DirectStep(p) ==
    \/ WriteFrontmatterFree(p) \/ MoveFromCompleted(p) \/ SetPath(p)
    \/ ForceStatus(p) \/ ResetHarness(p)
    \/ RemoveFile(p) \/ RemoveRow(p) \/ DeleteTask(p) \/ RemoveOrphan(p)

\* A step of a running command.
Step(p) == ReadStatus(p) \/ GateStep(p) \/ TransitionStep(p) \/ BodyStep(p)
              \/ DirectStep(p)

\* The commands a user may issue on a Task.
TaskStart(p, t)      == Issue(p, "start", t)
TaskCheckpoint(p, t) == Issue(p, "checkpoint", t)
TaskComplete(p, t)   == Issue(p, "complete", t)
TaskReopen(p, t)     == Issue(p, "reopen", t)
TaskDelete(p, t)     == Issue(p, "delete", t)
TaskUpdate(p, t)     == Issue(p, "update", t)
HarnessCheck(p, t)   == Issue(p, "check", t)

Begin(p, t) ==
    \/ TaskStart(p, t) \/ TaskCheckpoint(p, t) \/ TaskComplete(p, t)
    \/ TaskReopen(p, t) \/ TaskDelete(p, t) \/ TaskUpdate(p, t)
    \/ HarnessCheck(p, t)

Next == \E p \in Proc : \/ \E t \in Task : Begin(p, t)
                        \/ Step(p)
                        \/ Crash(p)

Spec == Init /\ [][Next]_vars

\* The operating system schedules every process: a command that can go on
\* does.  Users need not issue commands, and nothing need fail.
Fairness == \A p \in Proc : WF_vars(Step(p))
FairSpec == Spec /\ Fairness

-----------------------------------------------------------------------------
(* Properties.                                                             *)

\* A process holds the write lock exactly while it is between the UPDATE and
\* the COMMIT of its transition, file work included.
WriterHoldsLock == \A p \in Proc : pc[p] \in InTransaction <=> lock = p

\* The status a transition tested, outside the transaction and again in its
\* snapshot, is still the Task's status when the files are changed on the
\* strength of it (transitionTask, TransitionTaskAtomic).
TestedStatusHolds ==
    \A p \in Proc :
      \/ pc[p] \in InTransaction
      \/ pc[p] = "lock" /\ p \notin stale
      => dbStatus[job[p].task] = job[p].from

\* Nobody is done past the Harness Gate: a done Task has every required item
\* checked (Complete, CheckHarness).
GateHolds == \A t \in Task : dbStatus[t] = "done" => checked[t] = Item

InFlight(t) == \E p \in Proc : pc[p] \in InTransaction /\ job[p].task = t
Idle == \A p \in Proc : pc[p] = "idle"

\* The Task has one file, and it says what the database says.
FileAgrees(t) ==
    IF dbStatus[t] = Absent THEN Copies(t) = {}
    ELSE \E l \in Loc : Copies(t) = {l} /\ file[t][l] = dbStatus[t]

\* Transitions that neither issue a ticket nor write a Result section keep
\* database and file together at every moment outside a transaction, except
\* for a Task whose last transition died between its file work and COMMIT:
\* and that one heals with the next transition that commits.  And, a failure
\* apart, the file of a done Task lies in completed/, of any other in
\* works/tasks, that of a Task of the Sprint in the Sprint's folder: wherever
\* tasks.file_path pointed at the start (MoveTaskToCompleted).
InPlace(t) == Copies(t) = IF t \notin SprintTask /\ dbStatus[t] = "done"
                          THEN {"completed"} ELSE {Home(t)}
TransitionsAgree ==
    \A t \in Prepared : InFlight(t) \/ /\ t \in torn \/ FileAgrees(t)
                                       /\ faults > 0 \/ InPlace(t)

\* Whatever commands ran, one after the other and without a failure: the
\* database, the one file and the Sprint's table say the same.
RestAgrees ==
    Idle => \A t \in Task :
              /\ FileAgrees(t)
              /\ t \in SprintTask => row[t] = dbStatus[t]

\* The escape hatch `task update` apart, a Task is done only by having been
\* in progress just before, and a deleted one does not come back.
UpdateBy(p) == pc[p] = "force" /\ job[p].cmd = "update"
StatusStep(t) ==
    /\ dbStatus'[t] = "done" => dbStatus[t] \in {"in-progress", "done"}
    /\ dbStatus'[t] = "absorbed" => dbStatus[t] = "absorbed"
    /\ dbStatus[t] = Absent => dbStatus'[t] = Absent
StatusPath ==
    [][\A t \in Task : StatusStep(t) \/ \E p \in Proc : UpdateBy(p)]_vars

\* Every command returns, the rollback of a cascade included.
CommandsReturn == \A p \in Proc : pc[p] # "idle" ~> pc[p] = "idle"

\* The promise of the guides, TaskStateMachine, with the moment a reopened
\* Task loses its checks moved to the moment its status changes.
Disarming(t) == \E p \in Proc : /\ pc[p] \in {"row", "reset"}
                                /\ job[p].cmd = "reopen"
                                /\ job[p].from = "done"
                                /\ job[p].task = t
Earned == [t \in Task |-> IF Disarming(t) THEN {} ELSE checked[t]]
Promise == INSTANCE TaskStateMachine WITH status <- dbStatus, earned <- Earned
PromiseKept == Promise!Spec

\* ... and with the escape hatch `task update` beside it, every step that is
\* not the hatch's is still one of the promise (Complete, Reopen, Delete).
PromiseButForUpdate ==
    Promise!Init /\ [][Promise!Next \/ \E p \in Proc : UpdateBy(p)]_(Promise!vars)
=============================================================================
