-------------------------- MODULE SprintLifecycle --------------------------
(***************************************************************************)
(* Sprints and the Tasks in them: `sprint create, start, complete, discard,*)
(* update` and `reconcile`, `task assign` and `task unassign`.             *)
(*                                                                         *)
(* A Sprint is a row of the table sprints and a folder                     *)
(* works/sprints/<place>/<id> with SPRINT.md and the files of its Tasks.   *)
(* A Task is a row of the table tasks and one file, in works/tasks or in   *)
(* the folder of a Sprint.  Any number of processes run commands at once;  *)
(* nothing locks the files.                                                *)
(*                                                                         *)
(* A step is one statement, or one access to a file or folder (the checks a*)
(* command starts with, and the reading and rewriting of one document,     *)
(* count as one).  A step that fails uses up one of MaxFaults, and so does *)
(* a crash.                                                                *)
(***************************************************************************)
EXTENDS Integers

CONSTANTS
    Proc, Sprint, Task,
    NoSprint,      \* tasks.sprint is NULL or a pseudo Sprint; focus is idle
    NoTask,
    Depends,       \* depends_on of each Task
    Created,       \* the Sprints that exist at the start
    Enrolled,      \* the Sprint each Task is in at the start
    Menus,         \* the sets of commands users may be confined to
    MaxFaults

Place  == {"backlog", "active", "completed", "discarded"}
Status == Place                        \* sprints.status
Work   == {"todo", "in-progress", "done"}

\* "--force" is that option of assign and unassign, "force" is update --force.
AllCommands == {"create", "start", "complete", "discard", "return", "db-only",
                "update", "force", "reconcile", "assign", "unassign", "--force"}

ASSUME SprintAssumption ==
    /\ NoSprint \notin Sprint /\ NoTask \notin Task
    /\ Depends \in [Task -> SUBSET Task]
    /\ Created \subseteq Sprint
    /\ Enrolled \in [Task -> Created \cup {NoSprint}]
    /\ Menus \subseteq SUBSET AllCommands
    /\ MaxFaults \in Nat

VARIABLES
    sprints,   \* rows of the table sprints; status "none" when there is none
    folders,   \* places where each Sprint has a folder
    inner,     \* places where that folder holds another of the same name
    docs,      \* SPRINT.md in the folder at each place: status, rows
    tasks,     \* rows of the table tasks: status, sprint, path
    files,     \* Task files: where, frontmatter status and sprint
    backlog,   \* Tasks listed in BACKLOG.md
    focus,     \* the Sprint CURRENT-FOCUS.md names
    pc, job,
    faults,
    menu       \* the commands users issue

vars == <<sprints, folders, inner, docs, tasks, files, backlog, focus, pc, job,
          faults, menu>>
database == <<sprints, tasks>>
disk     == <<folders, inner, docs, files, backlog, focus>>
control  == <<pc, job>>

\* Directories of Task files: works/tasks, the folder of a Sprint, the folder
\* inside that folder; a removed file is nowhere.
Dirs == [place : Place \cup {"tasks", "removed"}, sprint : Sprint \cup {NoSprint},
         deep : BOOLEAN]
Unassigned   == [place |-> "tasks", sprint |-> NoSprint, deep |-> FALSE]
Removed      == [place |-> "removed", sprint |-> NoSprint, deep |-> FALSE]
Folder(l, s) == [place |-> l, sprint |-> s, deep |-> FALSE]

Rows == [status : Status \cup {"none"}, folder : Place \cup {"none"}]
Docs == [status : Place \cup {"none"}, rows : SUBSET Task]
NoDoc == [status |-> "none", rows |-> {}]

Label == {"idle", "folder", "document", "save",
          "frontmatter", "collect", "return", "move", "sweep", "stamp", "record",
          "db-only", "paths", "list", "bind", "bind-sprint", "bind-path",
          "sync", "force", "focus",
          "compare", "drift", "heal", "rename", "tag", "unlist", "row",
          "set-sprint", "set-path", "drop-row", "relist", "untag", "put-back"}

\* Local variables of a command: the Sprint and Task it is about, the folder's
\* place before and after, files or rows still to visit, the row to write back,
\* the file's old directory, the steps an assignment has behind it.
Job == [cmd : AllCommands \cup {"none"}, sprint : Sprint \cup {NoSprint},
        task : Task \cup {NoTask}, from : Place \cup {"none"},
        to : Place \cup {"none"}, todo : SUBSET [task : Task, dir : Dirs],
        row : Rows, old : Dirs, behind : SUBSET {"tag", "unlist", "row"}]
NoJob == [cmd |-> "none", sprint |-> NoSprint, task |-> NoTask, from |-> "none",
          to |-> "none", todo |-> {}, row |-> [status |-> "none", folder |-> "none"],
          old |-> Unassigned, behind |-> {}]

TypeOK ==
    /\ sprints \in [Sprint -> Rows]
    /\ folders \in [Sprint -> SUBSET Place]
    /\ inner \in [Sprint -> SUBSET Place]
    /\ docs \in [Sprint -> [Place -> Docs]]
    /\ tasks \in [Task -> [status : Work, sprint : Sprint \cup {NoSprint}, dir : Dirs]]
    /\ files \in [Task -> [status : Work, sprint : Sprint \cup {NoSprint}, dir : Dirs]]
    /\ backlog \subseteq Task
    /\ focus \in Sprint \cup {NoSprint}
    /\ pc \in [Proc -> Label]
    /\ job \in [Proc -> Job]
    /\ faults \in Nat
    /\ menu \in Menus

NewRow == [status |-> "backlog", folder |-> "backlog"]
NewDoc == [status |-> "backlog", rows |-> {}]

\* Sprints as sprint create leaves them, Tasks as task create or assign does.
Init ==
    /\ sprints = [s \in Sprint |-> IF s \in Created THEN NewRow ELSE NoJob.row]
    /\ folders = [s \in Sprint |-> IF s \in Created THEN {"backlog"} ELSE {}]
    /\ inner = [s \in Sprint |-> {}]
    /\ docs = [s \in Sprint |-> [l \in Place |->
                 IF s \in Created /\ l = "backlog"
                 THEN [NewDoc EXCEPT !.rows = {t \in Task : Enrolled[t] = s}] ELSE NoDoc]]
    /\ tasks = [t \in Task |->
                  [status |-> "todo", sprint |-> Enrolled[t],
                   dir |-> IF Enrolled[t] = NoSprint THEN Unassigned
                           ELSE Folder("backlog", Enrolled[t])]]
    /\ files = tasks
    /\ backlog = {t \in Task : Enrolled[t] = NoSprint}
    /\ focus = NoSprint
    /\ pc = [p \in Proc |-> "idle"]
    /\ job = [p \in Proc |-> NoJob]
    /\ faults = 0
    /\ menu \in Menus

-----------------------------------------------------------------------------
Continue(p, l, j) ==
    /\ pc' = [pc EXCEPT ![p] = l]
    /\ job' = [job EXCEPT ![p] = IF l = "idle" THEN NoJob ELSE j]
    /\ UNCHANGED menu
Goto(p, l) == Continue(p, l, job[p])
Return(p)  == Goto(p, "idle")

Issue(p, cmd, s, t) == [NoJob EXCEPT !.cmd = cmd, !.sprint = s, !.task = t]
Starts(p, cmd) == pc[p] = "idle" /\ cmd \in menu

Fault == faults < MaxFaults /\ faults' = faults + 1
Works == UNCHANGED faults

HasDoc(s, l) == docs[s][l] # NoDoc

\* FindSprintDir: the first folder, in this order.  FindSprintOnDisk asks for a
\* SPRINT.md in it.
FirstOf(places, l) ==
    /\ l \in places \ {"discarded"}
    /\ l = "backlog" => "active" \notin places
    /\ l = "completed" => places \cap {"active", "backlog"} = {}
SprintDir(s, l)    == FirstOf(folders[s], l)
SprintOnDisk(s, l) == FirstOf({m \in Place : HasDoc(s, m)}, l)

\* The rows the marker "| T |" is found in: T's own, and that of a Task whose
\* last cell, depends_on, is T alone.
Marked(t) == {t} \cup {u \in Task : Depends[u] = {t}}

-----------------------------------------------------------------------------
(* sprint create                                                           *)

\* CheckCreateGuard lets a row of the same title pass; no SPRINT.md anywhere.
BeginCreate(p, s) ==
    /\ Starts(p, "create")
    /\ \A l \in Place : ~HasDoc(s, l)
    /\ Continue(p, "folder", Issue(p, "create", s, NoTask))
    /\ UNCHANGED <<database, disk, faults>>

CreateFolder(p) ==
    /\ pc[p] = "folder"
    /\ \/ /\ Works /\ Goto(p, "document")
          /\ folders' = [folders EXCEPT ![job[p].sprint] = @ \cup {"backlog"}]
       \/ Fault /\ Return(p) /\ UNCHANGED folders
    /\ UNCHANGED <<database, inner, docs, files, backlog, focus>>

\* os.WriteFile fails when the folder has moved away.
WriteDocument(p) ==
    LET s == job[p].sprint IN
    /\ pc[p] = "document"
    /\ \/ /\ "backlog" \in folders[s] /\ Works /\ Goto(p, "save")
          /\ docs' = [docs EXCEPT ![s]["backlog"] = NewDoc]
       \/ /\ "backlog" \in folders[s] => Fault
          /\ "backlog" \notin folders[s] => Works
          /\ Return(p) /\ UNCHANGED docs
    /\ UNCHANGED <<database, folders, inner, files, backlog, focus>>

SaveToDB(p) ==
    /\ pc[p] = "save"
    /\ \/ /\ Works
          /\ sprints' = [sprints EXCEPT ![job[p].sprint] =
                           IF job[p].cmd = "create" THEN NewRow ELSE job[p].row]
       \/ Fault /\ UNCHANGED sprints
    /\ Return(p)
    /\ UNCHANGED <<tasks, disk>>

-----------------------------------------------------------------------------
(* sprint start, complete, discard                                         *)

\* Mutant of Moving: a place there is not.
MovingAway(p, cmd, s, to) ==
    [Issue(p, cmd, s, NoTask) EXCEPT !.from = sprints[s].status, !.to = "archived"]

Moving(p, cmd, s, to) ==
    [Issue(p, cmd, s, NoTask) EXCEPT !.from = sprints[s].status, !.to = to]

\* Mutant of BeginStart: completed Sprints are not rejected.
StartCompleted(p, s) ==
    /\ Starts(p, "start")
    /\ sprints[s].status \notin {"none", "active"}
    /\ Continue(p, "move", Moving(p, "start", s, "active"))
    /\ UNCHANGED <<database, disk, faults>>

\* Rejected when active or completed; a discarded Sprint may be started.
BeginStart(p, s) ==
    /\ Starts(p, "start")
    /\ sprints[s].status \in {"backlog", "discarded"}
    /\ Continue(p, "move", Moving(p, "start", s, "active"))
    /\ UNCHANGED <<database, disk, faults>>

\* Behind the Harness Gate of the Sprint, whose items this model leaves out.
BeginComplete(p, s) ==
    /\ Starts(p, "complete")
    /\ sprints[s].status \notin {"none", "completed"}
    /\ Continue(p, "collect", Moving(p, "complete", s, "completed"))
    /\ UNCHANGED <<database, disk, faults>>

\* "return" is discard --return-tasks, "db-only" is discard --db-only.
BeginDiscard(p, s, cmd) ==
    /\ Starts(p, cmd) /\ cmd \in {"discard", "return", "db-only"}
    /\ sprints[s].status \in {"backlog", "active"}
    /\ Continue(p, CASE cmd = "return"  -> "collect"
                     [] cmd = "db-only" -> "db-only"
                     [] OTHER           -> "move",
                Moving(p, cmd, s, "discarded"))
    /\ UNCHANGED <<database, disk, faults>>

Entry(t) == [task |-> t, dir |-> tasks[t].dir]
Rest(p, e) == [job[p] EXCEPT !.todo = @ \ {e}]

\* GetSprintTaskFilePaths for complete, collectUnfinishedTaskIDs for discard.
Visits(cmd, s) ==
    {t \in Task : tasks[t].sprint = s /\ (cmd = "return" => tasks[t].status # "done")}
Collect(p) ==
    LET j == job[p] IN
    /\ pc[p] = "collect"
    /\ \/ /\ Works
          /\ Continue(p, IF j.cmd = "return" THEN "return" ELSE "frontmatter",
                      [j EXCEPT !.todo = {Entry(t) : t \in Visits(j.cmd, j.sprint)}])
       \/ Fault /\ IF j.cmd = "return" THEN Return(p) ELSE Goto(p, "move")
    /\ UNCHANGED <<database, disk>>

\* reconcileTaskFrontmatterBeforeMove writes done into every file it finds.
WriteFrontmatter(p) ==
    /\ pc[p] = "frontmatter"
    /\ \/ /\ job[p].todo = {} /\ Works /\ Goto(p, "move") /\ UNCHANGED files
       \/ \E e \in job[p].todo :
             /\ Continue(p, "frontmatter", Rest(p, e))
             /\ \/ /\ files[e.task].dir = e.dir /\ Works
                   /\ files' = [files EXCEPT ![e.task].status = "done"]
                \/ /\ files[e.task].dir # e.dir /\ Works /\ UNCHANGED files
                \/ Fault /\ UNCHANGED files
    /\ UNCHANGED <<database, folders, inner, docs, backlog, focus>>

\* unassignTasks: one UpdateTaskSprint(nil) each.
ReturnTask(p) ==
    /\ pc[p] = "return"
    /\ \/ /\ job[p].todo = {} /\ Works /\ Goto(p, "move") /\ UNCHANGED tasks
       \/ \E e \in job[p].todo :
             /\ Continue(p, "return", Rest(p, e))
             /\ \/ Works /\ tasks' = [tasks EXCEPT ![e.task].sprint = NoSprint]
                \/ Fault /\ UNCHANGED tasks
    /\ UNCHANGED <<sprints, disk>>

\* A folder goes to another place with all it holds; with deep it lands inside
\* the folder of the same name there.
Carry(s, from, to, deep) ==
    [t \in Task |->
       IF files[t].dir.place = from /\ files[t].dir.sprint = s
       THEN [files[t] EXCEPT !.dir.place = to, !.dir.deep = @ \/ deep]
       ELSE files[t]]

\* Mutant of MoveTree: the source remains.
CopyTree(s, from, to) ==
    /\ folders' = [folders EXCEPT ![s] = @ \cup {to}]
    /\ docs' = [docs EXCEPT ![s][to] = docs[s][from]]
    /\ UNCHANGED inner
    /\ files' = Carry(s, from, to, FALSE)

MoveTree(s, from, to) ==
    /\ folders' = [folders EXCEPT ![s] = (@ \ {from}) \cup {to}]
    /\ inner' = [inner EXCEPT ![s] =
                   IF from \in @ THEN (@ \ {from}) \cup {to} ELSE @]
    /\ docs' = [docs EXCEPT ![s] = [@ EXCEPT ![to] = docs[s][from], ![from] = NoDoc]]
    /\ files' = Carry(s, from, to, FALSE)

\* git mv into an existing folder.  Three levels are not modelled.
NestTree(s, from, to) ==
    /\ {from, to} \cap inner[s] = {}
    /\ folders' = [folders EXCEPT ![s] = @ \ {from}]
    /\ inner' = [inner EXCEPT ![s] = @ \cup {to}]
    /\ docs' = [docs EXCEPT ![s][from] = NoDoc]
    /\ files' = Carry(s, from, to, TRUE)

\* MoveSprint up to the removal of a source that remains.  A folder that is
\* already at its destination is no error; one that is there twice either goes
\* into the other (git mv) or stays (os.Rename refuses).
MoveSprint(p) ==
    LET j == job[p]
        there(l) == l \in folders[j.sprint]
    IN  /\ pc[p] = "move"
        /\ \/ /\ there(j.from) /\ ~there(j.to) /\ Works /\ Goto(p, "sweep")
              /\ MoveTree(j.sprint, j.from, j.to)
           \/ /\ there(j.from) /\ there(j.to) /\ Works /\ Goto(p, "sweep")
              /\ NestTree(j.sprint, j.from, j.to)
           \/ /\ there(j.from) /\ there(j.to) /\ Works /\ Return(p)
              /\ UNCHANGED <<folders, inner, docs, files>>
           \/ /\ ~there(j.from) /\ Works
              /\ IF there(j.to) THEN Goto(p, "stamp") ELSE Return(p)
              /\ UNCHANGED <<folders, inner, docs, files>>
           \/ Fault /\ Return(p) /\ UNCHANGED <<folders, inner, docs, files>>
        /\ UNCHANGED <<database, backlog, focus>>

\* "Remove the source folder if it remains."
Sweep(p) ==
    LET s == job[p].sprint
        l == job[p].from
    IN  /\ pc[p] = "sweep" /\ Works /\ Goto(p, "stamp")
        /\ folders' = [folders EXCEPT ![s] = @ \ {l}]
        /\ inner' = [inner EXCEPT ![s] = @ \ {l}]
        /\ docs' = [docs EXCEPT ![s][l] = NoDoc]
        /\ files' = [t \in Task |->
                       IF files[t].dir.place = l /\ files[t].dir.sprint = s
                       THEN [files[t] EXCEPT !.dir = Removed] ELSE files[t]]
        /\ UNCHANGED <<database, backlog, focus>>

\* UpdateSprintMDField, whose errors are ignored.
Stamp(p) ==
    LET s == job[p].sprint
        l == job[p].to
    IN  /\ pc[p] = "stamp" /\ Goto(p, "record")
        /\ \/ /\ Works
              /\ docs' = IF HasDoc(s, l) THEN [docs EXCEPT ![s][l].status = l] ELSE docs
           \/ Fault /\ UNCHANGED docs
        /\ UNCHANGED <<database, folders, inner, files, backlog, focus>>

\* UpdateStatusInDB, whose error ends the command; --db-only leaves folder_path.
Record(p) ==
    LET j == job[p] IN
    /\ pc[p] \in {"record", "db-only"}
    /\ \/ /\ Works
          /\ sprints' = [sprints EXCEPT ![j.sprint] =
               IF @.status = "none" THEN @
               ELSE [status |-> j.to,
                     folder |-> IF pc[p] = "db-only" THEN @.folder ELSE j.to]]
          /\ Goto(p, IF pc[p] = "record" THEN "paths"
                     ELSE IF j.from = "active" THEN "focus" ELSE "idle")
       \/ Fault /\ Return(p) /\ UNCHANGED sprints
    /\ UNCHANGED <<tasks, disk>>

\* updateTaskPaths, phase 1: one UPDATE over the rows of the Sprint.
UpdateTaskPathsForSprint(p) ==
    LET j == job[p] IN
    /\ pc[p] = "paths" /\ Goto(p, "list")
    /\ \/ /\ Works
          /\ tasks' = [t \in Task |->
               IF /\ tasks[t].sprint = j.sprint
                  /\ tasks[t].dir.place = j.from /\ tasks[t].dir.sprint = j.sprint
               THEN [tasks[t] EXCEPT !.dir.place = j.to] ELSE tasks[t]]
       \/ Fault /\ UNCHANGED tasks
    /\ UNCHANGED <<sprints, disk>>

\* Phase 2, reconcileTaskPathsFromFS: the files in the new folder ...
ListFiles(p) ==
    LET d == Folder(job[p].to, job[p].sprint) IN
    /\ pc[p] = "list" /\ Works
    /\ Continue(p, "bind",
         [job[p] EXCEPT !.todo = {[task |-> t, dir |-> d] :
                                     t \in {u \in Task : files[u].dir = d}}])
    /\ UNCHANGED <<database, disk>>

\* ... each of which is read and bound to the Sprint by two statements.
Bind(p) ==
    /\ pc[p] = "bind" /\ Works
    /\ \/ /\ job[p].todo = {}
          /\ Goto(p, IF job[p].cmd = "complete" THEN "sync"
                     ELSE IF job[p].cmd = "start" \/ job[p].from = "active" THEN "focus"
                     ELSE "idle")
       \/ \E e \in job[p].todo :
             IF files[e.task].dir = e.dir
             THEN Continue(p, "bind-sprint", [Rest(p, e) EXCEPT !.task = e.task])
             ELSE Continue(p, "bind", Rest(p, e))
    /\ UNCHANGED <<database, disk>>

BindSprint(p) ==
    /\ pc[p] = "bind-sprint"
    /\ \/ /\ Works /\ Goto(p, "bind-path")
          /\ tasks' = [tasks EXCEPT ![job[p].task].sprint = job[p].sprint]
       \/ Fault /\ Goto(p, "bind") /\ UNCHANGED tasks
    /\ UNCHANGED <<sprints, disk>>

BindPath(p) ==
    /\ pc[p] = "bind-path" /\ Goto(p, "bind")
    /\ \/ /\ Works
          /\ tasks' = [tasks EXCEPT ![job[p].task].dir = Folder(job[p].to, job[p].sprint)]
       \/ Fault /\ UNCHANGED tasks
    /\ UNCHANGED <<sprints, disk>>

\* reconcileTaskDBStatusAfterMove: the rows of the Sprint, and then every one
\* whose file says done.
ListForSync(p) ==
    LET s == job[p].sprint IN
    /\ pc[p] = "sync"
    /\ \/ /\ Works
          /\ Continue(p, "force",
                      [job[p] EXCEPT !.todo = {Entry(t) : t \in Visits("complete", s)}])
       \/ Fault /\ Goto(p, "focus")
    /\ UNCHANGED <<database, disk>>

ForceStatus(p) ==
    /\ pc[p] = "force"
    /\ \/ job[p].todo = {} /\ Works /\ Goto(p, "focus") /\ UNCHANGED tasks
       \/ \E e \in job[p].todo :
             /\ Continue(p, "force", Rest(p, e))
             /\ \/ /\ Works
                   /\ tasks' = IF files[e.task].dir = e.dir /\ files[e.task].status = "done"
                               THEN [tasks EXCEPT ![e.task].status = "done"] ELSE tasks
                \/ Fault /\ UNCHANGED tasks
    /\ UNCHANGED <<sprints, disk>>

\* Mutant of UpdateCurrentFocus: a Sprint that ends stays in focus.
KeepFocus(p) ==
    /\ pc[p] = "focus" /\ Works /\ Return(p)
    /\ focus' = IF job[p].cmd = "start" THEN job[p].sprint ELSE focus
    /\ UNCHANGED <<database, folders, inner, docs, files, backlog>>

UpdateCurrentFocus(p) ==
    /\ pc[p] = "focus" /\ Return(p)
    /\ \/ Works /\ focus' = IF job[p].cmd = "start" THEN job[p].sprint ELSE NoSprint
       \/ Fault /\ UNCHANGED focus
    /\ UNCHANGED <<database, folders, inner, docs, files, backlog>>

-----------------------------------------------------------------------------
(* sprint update, sprint reconcile                                         *)

\* UpdateFields reads the row and saves all of it; "force" is --status --force.
BeginUpdate(p, s) ==
    /\ sprints[s].status # "none"
    /\ \/ /\ Starts(p, "update")
          /\ Continue(p, "save", [Issue(p, "update", s, NoTask) EXCEPT !.row = sprints[s]])
       \/ /\ Starts(p, "force")
          /\ \E st \in Status :
                Continue(p, "save", [Issue(p, "force", s, NoTask) EXCEPT
                                       !.row = [sprints[s] EXCEPT !.status = st]])
    /\ UNCHANGED <<database, disk, faults>>

BeginReconcile(p, s) ==
    /\ Starts(p, "reconcile")
    /\ \E l \in Place :
          /\ SprintOnDisk(s, l)
          /\ Continue(p, "compare", [Issue(p, "reconcile", s, NoTask) EXCEPT
                                       !.row = [status |-> l, folder |-> l]])
    /\ UNCHANGED <<database, disk, faults>>

\* to remembers whether the row differs and is to be saved.
Compare(p) ==
    LET j == job[p] IN
    /\ pc[p] = "compare" /\ Works
    /\ Continue(p, "drift",
                [j EXCEPT !.to = IF sprints[j.sprint] = j.row THEN "none" ELSE j.row.status])
    /\ UNCHANGED <<database, disk>>

\* reconcileSprintTaskDrift lists the Sprint's Tasks ...
ListDrift(p) ==
    LET j == job[p] IN
    /\ pc[p] = "drift"
    /\ \/ /\ Works
          /\ Continue(p, "heal", [j EXCEPT !.todo =
                {Entry(t) : t \in {u \in Task : tasks[u].sprint = j.sprint}}])
       \/ Fault /\ Continue(p, "heal", [j EXCEPT !.todo = {}])
    /\ UNCHANGED <<database, disk>>

\* ... and sets the path of one whose file is not there but in works/tasks or a
\* folder of this Sprint.
FindUnassigned(t, s) == files[t].dir = Unassigned      \* mutant of Findable
Findable(t, s) ==
    LET d == files[t].dir IN d = Unassigned \/ \E l \in Place : d = Folder(l, s)

HealDrift(p) ==
    LET j == job[p] IN
    /\ pc[p] = "heal"
    /\ \/ /\ j.todo = {} /\ Works /\ UNCHANGED tasks
          /\ Goto(p, IF j.to = "none" THEN "idle" ELSE "save")
       \/ \E e \in j.todo :
             /\ Continue(p, "heal", Rest(p, e))
             /\ \/ /\ Works
                   /\ tasks' = IF files[e.task].dir # e.dir /\ Findable(e.task, j.sprint)
                               THEN [tasks EXCEPT ![e.task].dir = files[e.task].dir]
                               ELSE tasks
                \/ Fault /\ UNCHANGED tasks
    /\ UNCHANGED <<sprints, disk>>

-----------------------------------------------------------------------------
(* task assign, task unassign                                              *)

\* ResolveTaskPath finds the file wherever it is and corrects the row.
ResolveTaskPath(t) ==
    /\ files[t].dir # Removed
    /\ tasks' = [tasks EXCEPT ![t].dir = files[t].dir]

rejectIfCompletedSprint(s) == sprints[s].status = "completed" /\ "--force" \notin menu

BeginAssign(p, t, s) ==
    /\ Starts(p, "assign")
    /\ sprints[s].status # "none" /\ ~rejectIfCompletedSprint(s)
    /\ tasks[t].sprint = NoSprint /\ tasks[t].status # "done"
    /\ ResolveTaskPath(t)
    /\ \E l \in Place :
          /\ SprintDir(s, l)
          /\ Continue(p, "rename", [Issue(p, "assign", s, t) EXCEPT
                                      !.from = l, !.old = files[t].dir])
    /\ UNCHANGED <<sprints, disk, faults>>

BeginUnassign(p, t) ==
    /\ Starts(p, "unassign")
    /\ tasks[t].sprint # NoSprint /\ tasks[t].status # "done"
    /\ ~rejectIfCompletedSprint(tasks[t].sprint)
    /\ ResolveTaskPath(t)
    /\ Continue(p, "rename", [Issue(p, "unassign", tasks[t].sprint, t) EXCEPT
                                !.old = files[t].dir])
    /\ UNCHANGED <<sprints, disk, faults>>

New(p) == IF job[p].cmd = "assign" THEN Folder(job[p].from, job[p].sprint) ELSE Unassigned

\* MkdirAll of the folder found at the start, even if it moved since; Rename.
Rename(p) ==
    LET j == job[p] IN
    /\ pc[p] = "rename"
    /\ folders' = IF j.cmd = "assign"
                  THEN [folders EXCEPT ![j.sprint] = @ \cup {j.from}] ELSE folders
    /\ \/ /\ files[j.task].dir = j.old /\ Works /\ Goto(p, "tag")
          /\ files' = [files EXCEPT ![j.task].dir = New(p)]
       \/ /\ files[j.task].dir # j.old /\ Works /\ Return(p) /\ UNCHANGED files
       \/ Fault /\ Return(p) /\ UNCHANGED files
    /\ UNCHANGED <<database, inner, docs, backlog, focus>>

Restores(p) == "put-back"              \* mutant of Recovers: only the file
Recovers(p) == IF job[p].cmd = "assign" THEN "drop-row" ELSE "put-back"
Achieved(p, c) == [job[p] EXCEPT !.behind = @ \cup {c}]

\* The frontmatter field sprint: the Sprint, or "backlog".
Tag(p) ==
    LET j == job[p] IN
    /\ pc[p] = "tag"
    /\ \/ /\ files[j.task].dir = New(p) /\ Works
          /\ files' = [files EXCEPT ![j.task].sprint = New(p).sprint]
          /\ Continue(p, IF j.cmd = "assign" THEN "unlist" ELSE "row", Achieved(p, "tag"))
       \/ /\ files[j.task].dir # New(p) /\ Works /\ Goto(p, Recovers(p)) /\ UNCHANGED files
       \/ Fault /\ Goto(p, Recovers(p)) /\ UNCHANGED files
    /\ UNCHANGED <<database, folders, inner, docs, backlog, focus>>

\* RemoveFromBacklogMD, or UpdateBacklogMD: rows of BACKLOG.md.
List(p) ==
    LET j == job[p] IN
    /\ pc[p] = "unlist"
    /\ \/ /\ Works
          /\ backlog' = IF j.cmd = "assign" THEN backlog \ {j.task}
                        ELSE backlog \cup {j.task}
          /\ Continue(p, IF j.cmd = "assign" THEN "row" ELSE "set-sprint",
                      Achieved(p, "unlist"))
       \/ /\ Fault /\ Goto(p, IF j.cmd = "assign" THEN "row" ELSE "set-sprint")
          /\ UNCHANGED backlog
    /\ UNCHANGED <<database, folders, inner, docs, files, focus>>

\* UpdateSprintMD, or RemoveRowFromSprintMD, in the folder FindSprintDir finds now.
Edit(p, rows) ==
    LET s == job[p].sprint
        found == {l \in Place : SprintDir(s, l) /\ HasDoc(s, l)}
    IN  docs' = [docs EXCEPT ![s] =
                   [l \in Place |-> IF l \in found THEN [@[l] EXCEPT !.rows = rows[l]]
                                    ELSE @[l]]]
RowsWith(p)    == [l \in Place |-> docs[job[p].sprint][l].rows \cup {job[p].task}]
RowsWithout(p) == [l \in Place |-> docs[job[p].sprint][l].rows \ Marked(job[p].task)]

EditRow(p) ==
    LET assign == job[p].cmd = "assign" IN
    /\ pc[p] = "row"
    /\ \/ /\ Works /\ Edit(p, IF assign THEN RowsWith(p) ELSE RowsWithout(p))
          /\ Continue(p, IF assign THEN "set-sprint" ELSE "unlist", Achieved(p, "row"))
       \/ /\ Fault /\ UNCHANGED docs
          /\ Goto(p, IF assign THEN "set-sprint" ELSE "unlist")
    /\ UNCHANGED <<database, folders, inner, files, backlog, focus>>

\* UpdateTaskDirect: two statements that commit one by one.
SetSprint(p) ==
    /\ pc[p] = "set-sprint"
    /\ \/ /\ Works /\ Goto(p, "set-path")
          /\ tasks' = [tasks EXCEPT ![job[p].task].sprint = New(p).sprint]
       \/ Fault /\ Goto(p, Recovers(p)) /\ UNCHANGED tasks
    /\ UNCHANGED <<sprints, disk>>

SetPath(p) ==
    /\ pc[p] = "set-path"
    /\ \/ /\ Works /\ Return(p)
          /\ tasks' = [tasks EXCEPT ![job[p].task].dir = New(p)]
       \/ Fault /\ Goto(p, Recovers(p)) /\ UNCHANGED tasks
    /\ UNCHANGED <<sprints, disk>>

\* The compensation of assign takes back what the checkpoints say was done.
DropRow(p) ==
    /\ pc[p] = "drop-row" /\ Goto(p, "relist")
    /\ \/ Works /\ IF "row" \in job[p].behind THEN Edit(p, RowsWithout(p))
                   ELSE UNCHANGED docs
       \/ "row" \in job[p].behind /\ Fault /\ UNCHANGED docs
    /\ UNCHANGED <<database, folders, inner, files, backlog, focus>>

Relist(p) ==
    /\ pc[p] = "relist" /\ Goto(p, "untag")
    /\ \/ /\ Works
          /\ backlog' = IF "unlist" \in job[p].behind THEN backlog \cup {job[p].task}
                        ELSE backlog
       \/ "unlist" \in job[p].behind /\ Fault /\ UNCHANGED backlog
    /\ UNCHANGED <<database, folders, inner, docs, files, focus>>

Untag(p) ==
    LET t == job[p].task IN
    /\ pc[p] = "untag" /\ Goto(p, "put-back")
    /\ \/ /\ Works
          /\ files' = IF "tag" \in job[p].behind /\ files[t].dir = New(p)
                      THEN [files EXCEPT ![t].sprint = NoSprint] ELSE files
       \/ "tag" \in job[p].behind /\ Fault /\ UNCHANGED files
    /\ UNCHANGED <<database, folders, inner, docs, backlog, focus>>

PutBack(p) ==
    LET t == job[p].task
        old == job[p].old
        there == old = Unassigned \/ old.place \in folders[old.sprint]
    IN  /\ pc[p] = "put-back" /\ Return(p)
        /\ \/ /\ Works
              /\ files' = IF files[t].dir = New(p) /\ there
                          THEN [files EXCEPT ![t].dir = old] ELSE files
           \/ Fault /\ UNCHANGED files
        /\ UNCHANGED <<database, folders, inner, docs, backlog, focus>>

-----------------------------------------------------------------------------
\* Work on a Task, as TaskLifecycle models it, in one step: todo, in-progress,
\* done.  An unassigned Task that is done plays no further part and is left out.
Progress(t) ==
    /\ tasks[t].status = files[t].status
    /\ \/ tasks[t].status = "todo"
       \/ tasks[t].status = "in-progress" /\ tasks[t].sprint # NoSprint
    /\ files[t].dir # Removed
    /\ LET st == IF tasks[t].status = "todo" THEN "in-progress" ELSE "done"
       IN  /\ tasks' = [tasks EXCEPT ![t].status = st, ![t].dir = files[t].dir]
           /\ files' = [files EXCEPT ![t].status = st]
    /\ UNCHANGED <<sprints, folders, inner, docs, backlog, focus, control,
                   faults, menu>>

Crash(p) ==
    /\ pc[p] # "idle" /\ Fault /\ Return(p)
    /\ UNCHANGED <<database, disk>>

\* The commands, with the arguments users may give them.
SprintCreate(p)    == \E s \in Sprint : BeginCreate(p, s)
SprintStart(p)     == \E s \in Sprint : BeginStart(p, s)
SprintComplete(p)  == \E s \in Sprint : BeginComplete(p, s)
SprintDiscard(p)   == \E s \in Sprint, cmd \in {"discard", "return", "db-only"} :
                         BeginDiscard(p, s, cmd)
SprintUpdate(p)    == \E s \in Sprint : BeginUpdate(p, s)
SprintReconcile(p) == \E s \in Sprint : BeginReconcile(p, s)
TaskAssign(p)      == \E t \in Task, s \in Sprint : BeginAssign(p, t, s)
TaskUnassign(p)    == \E t \in Task : BeginUnassign(p, t)

Begin(p) ==
    \/ SprintCreate(p) \/ SprintStart(p) \/ SprintComplete(p) \/ SprintDiscard(p)
    \/ SprintUpdate(p) \/ SprintReconcile(p) \/ TaskAssign(p) \/ TaskUnassign(p)

Step(p) ==
    \/ CreateFolder(p) \/ WriteDocument(p) \/ SaveToDB(p)
    \/ Collect(p) \/ WriteFrontmatter(p) \/ ReturnTask(p)
    \/ MoveSprint(p) \/ Sweep(p) \/ Stamp(p) \/ Record(p)
    \/ UpdateTaskPathsForSprint(p) \/ ListFiles(p)
    \/ Bind(p) \/ BindSprint(p) \/ BindPath(p)
    \/ ListForSync(p) \/ ForceStatus(p) \/ UpdateCurrentFocus(p)
    \/ Compare(p) \/ ListDrift(p) \/ HealDrift(p)
    \/ Rename(p) \/ Tag(p) \/ List(p) \/ EditRow(p) \/ SetSprint(p) \/ SetPath(p)
    \/ DropRow(p) \/ Relist(p) \/ Untag(p) \/ PutBack(p)

Next ==
    \/ \E p \in Proc : Begin(p) \/ Step(p) \/ Crash(p)
    \/ \E t \in Task : Progress(t)

Spec == Init /\ [][Next]_vars

-----------------------------------------------------------------------------
(* Properties                                                              *)

Forward  == {"start", "complete", "unassign", "update", "--force"}
Discards == {"discard", "return", "db-only", "force"}

Quiet == \A p \in Proc : pc[p] = "idle"

SprintAgrees(s) ==
    LET r == sprints[s]
        members == {t \in Task : tasks[t].sprint = s}
    IN  /\ inner[s] = {}
        /\ IF r.status = "none" THEN folders[s] = {}
           ELSE /\ folders[s] = {r.status} /\ r.folder = r.status
                /\ docs[s][r.status].status = r.status
                /\ members = docs[s][r.status].rows

TaskAgrees(t) ==
    LET s == tasks[t].sprint IN
    /\ tasks[t] = files[t]
    /\ tasks[t].dir = IF s = NoSprint THEN Unassigned ELSE Folder(sprints[s].status, s)
    /\ t \in backlog <=> s = NoSprint

\* Between commands that ran one at a time and did not fail, the database, the
\* folders, SPRINT.md, BACKLOG.md, the files and CURRENT-FOCUS.md tell the same.
\* Without discard: RemoveRowFromSprintMD does not look for a discarded Sprint, and
\* one that is started again lists the Tasks that left it meanwhile.
RestAgrees ==
    Quiet /\ faults = 0 /\ menu \cap Discards = {} =>
        /\ \A s \in Sprint : SprintAgrees(s)
        /\ \A t \in Task : TaskAgrees(t)
        /\ focus # NoSprint => sprints[focus].status = "active"

\* Whatever a crash left behind, a Sprint with a SPRINT.md under active, backlog
\* or completed is set right by one `sprint reconcile` that does not fail: its
\* row names the place of that folder, and its Tasks' rows their files.
ReconcileHeals ==
    [][\A p \in Proc :
         LET s == job[p].sprint IN
         job[p].cmd = "reconcile" /\ pc'[p] = "idle" /\ faults' = faults =>
            /\ \E l \in folders[s] : sprints'[s] = [status |-> l, folder |-> l]
            /\ \A t \in Task : tasks'[t].sprint = s => tasks'[t].dir = files'[t].dir]_vars

\* An assignment one of whose steps failed takes back what it did to the files:
\* the Task is in works/tasks, listed, and in no SPRINT.md.
CompensationRestores ==
    [][\A p \in Proc :
         LET t == job[p].task IN
         /\ job[p].cmd = "assign" /\ pc[p] = "put-back" /\ pc'[p] = "idle"
         /\ faults = 1 /\ faults' = 1 /\ menu \cap Discards = {}
         =>
            /\ files'[t].dir = Unassigned /\ files'[t].sprint = NoSprint
            /\ t \in backlog'
            /\ \A l \in Place : t \notin docs'[job[p].sprint][l].rows]_vars

\* The commands keep to SprintPromise.
Promise == INSTANCE SprintPromise WITH
    status <- [s \in Sprint |-> sprints[s].status],
    member <- [t \in Task |-> tasks[t].sprint],
    work   <- [t \in Task |-> tasks[t].status]
SprintPromiseKept == Promise!Spec

\* Processes that only start, complete and update Sprints and take Tasks out of
\* them neither duplicate the folder of a Sprint nor lose the file of a Task, one
\* that dies or fails on its way included: of two that move one folder, one finds
\* it gone.
OneFolder ==
    menu \subseteq Forward =>
        /\ \A s \in Sprint : inner[s] = {} /\ \A l, m \in folders[s] : l = m
        /\ \A t \in Task : files[t].dir # Removed

\* "Tasks whose DB status is not "done" are not touched": sprint complete writes
\* done only into files of Tasks that are done in the database.
UnfinishedUntouched ==
    [][\A p \in Proc, t \in Task :
         pc[p] = "frontmatter" /\ job'[p] # job[p] /\ files'[t] # files[t]
            => tasks[t].status = "done"]_vars
=============================================================================
