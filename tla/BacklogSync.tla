---------------------------- MODULE BacklogSync ----------------------------
(***************************************************************************)
(* `backlog sync` and `backlog rebuild-md` in full: the comparison of Task *)
(* files, the tables tasks and sprints, BACKLOG.md and the Sprint folders, *)
(* and the repairs.  TaskCreate follows the part of sync that meets a      *)
(* Task in the making; here the subject is what sync makes of any state it *)
(* finds, and of other commands that change the state while it runs.       *)
(*                                                                         *)
(* Sync collects all issues first and repairs them afterwards, one         *)
(* statement or one file each, with the values it read.  A repair that     *)
(* fails is skipped and uses up one of MaxFaults.                          *)
(***************************************************************************)
EXTENDS Integers, FiniteSets

CONSTANTS
    Proc, Task, Sprint, Worktree,
    Tree,          \* the worktree each process runs in
    Starts,        \* sets of states to start from, with who acts in them
    MaxFaults

Status == {"todo", "in-progress", "done"}

\* Folders of Task files in the order filepath.WalkDir visits them.
Loc == {"active", "backlog", "completed", "discarded", "tasks", "archive"}
Order == [active |-> 1, backlog |-> 2, completed |-> 3, discarded |-> 4,
          tasks |-> 5, archive |-> 6]
SprintPlace == {"active", "backlog", "completed"}

\* The field sprint: absent, one of the names for no Sprint, a Sprint.
Field == Sprint \cup {"", "backlog"}
FM    == [status : Status, sprint : Field]
Plain == [status |-> "todo", sprint |-> ""]
RawField(f) == f                       \* mutant of NormalizeSprintField
NormalizeSprintField(f) == IF f = "backlog" THEN "" ELSE f

\* A file is absent, unreadable, or its frontmatter.
File  == [is : {"absent", "unreadable", "read"}, fm : FM]
NoFile == [is |-> "absent", fm |-> Plain]

\* Rows of tasks; path "stale" stands for one that names no folder of Loc.
Row   == [is : BOOLEAN, status : Status, sprint : Field, path : Loc \cup {"stale"}]
NoRow == [is |-> FALSE, status |-> "todo", sprint |-> "", path |-> "stale"]

\* Rows of sprints, and SPRINT.md by folder; a title that is the identifier, or
\* empty, counts as stale, "old" stands for any other than the document's.
SprintRow == [is : BOOLEAN, status : SprintPlace \cup {"discarded"}, folder : Loc,
              title : {"id", "title", "old"}, started : BOOLEAN, completed : BOOLEAN]
NoSprintRow == [is |-> FALSE, status |-> "backlog", folder |-> "backlog",
                title |-> "id", started |-> FALSE, completed |-> FALSE]
Doc   == {"absent", "untitled", "titled"}

\* BACKLOG.md: whether its line "Last updated", if any, has today's date; rows; the
\* heading above them and the count it states; whether it has the section on Sprints,
\* and whom that lists.  No behaviour goes beyond a day.
Listing == [dated : BOOLEAN, listed : SUBSET Task,
            heading : {"plain", "remaining", "outstanding"},
            count : Nat, section : BOOLEAN, table : SUBSET Sprint]

VARIABLES
    tasks, files, backlog, sprints, docs,
    pc, job, rounds, faults,
    scene      \* how often each process runs sync, what other commands run

vars == <<tasks, files, backlog, sprints, docs, pc, job, rounds, faults, scene>>
project == <<tasks, files, backlog, sprints, docs>>

Label == {"idle", "location", "rows", "compare", "listing", "summary", "documents",
          "sprints", "orphans", "fix", "clear", "reread", "save"}

\* One repair: what it is about, the file it was seen in, the values to write.
Kind == {"location_frontmatter_mismatch", "db_missing_task", "db_status_mismatch",
         "completed_anomaly", "db_sprint_mismatch", "db_file_path_mismatch",
         "backlog_md_stale_completed", "backlog_md_missing_entry",
         "backlog_summary_stale_timestamp", "backlog_summary_count_mismatch",
         "backlog_summary_sprint_table_stale", "db_missing_sprint",
         "db_sprint_title_mismatch", "db_sprint_folder_path_mismatch",
         "db_sprint_status_file_absent", "db_sprint_metadata_stale", "db_orphan_task"}
\* The order of the checks, and of the repairs of one Task or Sprint.
Rank == [location_frontmatter_mismatch |-> 1, db_missing_task |-> 2,
         db_status_mismatch |-> 3, completed_anomaly |-> 3, db_sprint_mismatch |-> 4,
         db_file_path_mismatch |-> 5, backlog_md_stale_completed |-> 6,
         backlog_md_missing_entry |-> 7, backlog_summary_stale_timestamp |-> 8,
         backlog_summary_count_mismatch |-> 9, backlog_summary_sprint_table_stale |-> 10,
         db_missing_sprint |-> 11, db_sprint_title_mismatch |-> 12,
         db_sprint_folder_path_mismatch |-> 13, db_sprint_status_file_absent |-> 14,
         db_sprint_metadata_stale |-> 15, db_orphan_task |-> 16]
Nothing == "-"
Issue(kind, on, at, fm) == [kind |-> kind, on |-> on, at |-> at, fm |-> fm]
Issues == [kind : Kind, on : Task \cup Sprint \cup {Nothing}, at : Loc \cup {"stale"},
           fm : FM]

\* Local variables: the file list, the rows read, SPRINT.md by folder, the
\* repairs to make, whether something needs a person, whether to redo the summary, the
\* subject of a repair of two statements, the row to save, the Sprints to list.
Job == [seen : SUBSET (Task \X Loc), rows : [Task -> Row],
        found : [Sprint -> [SprintPlace -> Doc]], issues : SUBSET Issues,
        manual : BOOLEAN, rebuild : BOOLEAN, on : Task \cup Sprint \cup {Nothing},
        at : Loc \cup {"stale"}, row : SprintRow, table : SUBSET Sprint]

TypeOK ==
    /\ tasks \in [Task -> Row]
    /\ files \in [Worktree -> [Task -> [Loc -> File]]]
    /\ backlog \in [Worktree -> Listing]
    /\ sprints \in [Sprint -> SprintRow]
    /\ docs \in [Worktree -> [Sprint -> [SprintPlace -> Doc]]]
    /\ pc \in [Proc -> Label] /\ job \in [Proc -> Job]
    /\ rounds \in [Proc -> Nat] /\ faults \in Nat
    /\ scene \in [rounds : [Proc -> Nat], others : SUBSET {"task", "sprint", "rebuild"}]

NoJob == [seen |-> {}, rows |-> [t \in Task |-> NoRow],
          found |-> [s \in Sprint |-> [l \in SprintPlace |-> "absent"]],
          issues |-> {}, manual |-> FALSE, rebuild |-> FALSE, on |-> Nothing,
          at |-> "stale", row |-> NoSprintRow, table |-> {}]

Init ==
    /\ \E states \in Starts : \E start \in states :
          /\ tasks = start.tasks /\ files = start.files /\ backlog = start.backlog
          /\ sprints = start.sprints /\ docs = start.docs /\ scene = start.scene
    /\ pc = [p \in Proc |-> "idle"]
    /\ job = [p \in Proc |-> NoJob]
    /\ rounds = [p \in Proc |-> 0]
    /\ faults = 0

-----------------------------------------------------------------------------
Continue(p, l, j) ==
    /\ pc' = [pc EXCEPT ![p] = l]
    /\ job' = [job EXCEPT ![p] = j]
    /\ UNCHANGED <<rounds, scene>>
Report(p, l, issues, manual) ==
    Continue(p, l, [job[p] EXCEPT !.issues = @ \cup issues, !.manual = @ \/ manual])

Works == UNCHANGED faults
Fault == faults < MaxFaults /\ faults' = faults + 1

TaskFile(p, t, l) == files[Tree[p]][t][l]
Listed(p)         == backlog[Tree[p]].listed

\* globTaskFiles
BeginSync(p) ==
    /\ pc[p] = "idle" /\ rounds[p] < scene.rounds[p] /\ Works
    /\ Continue(p, "location", [NoJob EXCEPT !.seen =
           {e \in Task \X Loc : TaskFile(p, e[1], e[2]).is # "absent"}])
    /\ UNCHANGED project

\* checkDuplicateIDs, checkFileLocationVsFrontmatter, and the parse errors.
CheckLocation(p) ==
    LET read == {e \in job[p].seen : TaskFile(p, e[1], e[2]).is = "read"}
        Sprinted(e) == /\ e[2] = "tasks"
                       /\ NormalizeSprintField(TaskFile(p, e[1], e[2]).fm.sprint) # ""
        DoneEarly(e) == /\ e[2] \in {"active", "backlog", "discarded"}
                        /\ TaskFile(p, e[1], e[2]).fm.status = "done"
    IN  /\ pc[p] = "location" /\ Works
        /\ Report(p, "rows",
                  {Issue("location_frontmatter_mismatch", e[1], e[2], Plain) :
                      e \in {f \in read : Sprinted(f)}},
                  \/ \E e, f \in job[p].seen : e[1] = f[1] /\ e[2] # f[2]
                  \/ \E e \in job[p].seen : TaskFile(p, e[1], e[2]).is = "unreadable"
                  \/ \E e \in read : DoneEarly(e))
        /\ UNCHANGED project

\* checkDBVsFrontmatter reads the table first ...
ReadRows(p) ==
    /\ pc[p] = "rows" /\ Works
    /\ Continue(p, "compare", [job[p] EXCEPT !.rows = tasks])
    /\ UNCHANGED project

taskStatusRank(st) == CASE st = "todo" -> 0 [] st = "in-progress" -> 1 [] st = "done" -> 2
NeverRegression(db, file) == FALSE      \* mutant of isTaskStatusRegression
isTaskStatusRegression(db, file) == taskStatusRank(db) > taskStatusRank(file)

\* The file of a Task is the last one found.
LastSeen(p, t, l) ==
    /\ <<t, l>> \in job[p].seen
    /\ \A m \in Loc : <<t, m>> \in job[p].seen => Order[m] <= Order[l]

StatusIssue(row, t, l, fm) ==
    IF row.status = fm.status THEN {}
    ELSE IF l = "completed"
    THEN IF row.status # "done" /\ fm.status = "done"
         THEN {Issue("completed_anomaly", t, l, fm)} ELSE {}
    ELSE IF isTaskStatusRegression(row.status, fm.status) THEN {}
    ELSE {Issue("db_status_mismatch", t, l, fm)}

SprintIssue(row, t, l, fm) ==
    LET want == IF l = "tasks" THEN "" ELSE NormalizeSprintField(fm.sprint)
    IN  IF NormalizeSprintField(row.sprint) = want THEN {}
        ELSE {Issue("db_sprint_mismatch", t, l, [fm EXCEPT !.sprint = want])}

SamePath(row, t, l, fm) == {}           \* mutants of PathIssue
WrongColumn(row, t, l, fm) == {Issue("db_file_path_mismatch", t, fm.status, fm)}
PathIssue(row, t, l, fm) ==
    IF row.path = l THEN {} ELSE {Issue("db_file_path_mismatch", t, l, fm)}

\* ... and each file after it.
CompareFiles(p) ==
    LET last == {e \in job[p].seen : LastSeen(p, e[1], e[2]) /\
                                     TaskFile(p, e[1], e[2]).is = "read"}
        fm(e) == TaskFile(p, e[1], e[2]).fm
        row(e) == job[p].rows[e[1]]
        known == {e \in last : row(e).is}
    IN  /\ pc[p] = "compare" /\ Works
        /\ Report(p, "listing",
                  {Issue("db_missing_task", e[1], e[2],
                         [fm(e) EXCEPT !.sprint = NormalizeSprintField(@)]) :
                      e \in last \ known}
                  \cup UNION {StatusIssue(row(e), e[1], e[2], fm(e))
                              \cup SprintIssue(row(e), e[1], e[2], fm(e))
                              \cup PathIssue(row(e), e[1], e[2], fm(e)) : e \in known},
                  \E e \in known :
                     /\ row(e).status # fm(e).status
                     /\ StatusIssue(row(e), e[1], e[2], fm(e)) = {})
        /\ UNCHANGED project

\* checkBacklogMDVsFiles.  The frontmatter of an unassigned Task says "backlog",
\* so that only a file without the field is listed again.
CheckListing(p) ==
    LET here(t, l) == <<t, l>> \in job[p].seen
        finished(t) == /\ here(t, "archive") \/ here(t, "completed")
                       /\ tasks[t].is /\ tasks[t].status = "done"
        gone == {t \in Listed(p) : ~here(t, "tasks")}
        unlisted == {t \in Task \ Listed(p) :
                        /\ here(t, "tasks") /\ TaskFile(p, t, "tasks").is = "read"
                        /\ TaskFile(p, t, "tasks").fm = Plain}
    IN  /\ pc[p] = "listing" /\ Works
        /\ Report(p, "summary",
                  {Issue("backlog_md_stale_completed", t, "stale", Plain) :
                      t \in {u \in gone : finished(u)}}
                  \cup {Issue("backlog_md_missing_entry", t, "tasks", Plain) :
                           t \in unlisted},
                  \E t \in gone : ~finished(t))
        /\ UNCHANGED project

\* checkBacklogSummaryMetadata: the date line, the count under the heading "Remaining
\* unassigned Tasks", and active or backlog Sprints missing from the section.
CheckSummary(p) ==
    LET b == backlog[Tree[p]]
        known == {s \in Sprint : sprints[s].is}
        missing == {s \in known \ b.table : sprints[s].status \in {"active", "backlog"}}
    IN  /\ pc[p] = "summary" /\ Works
        /\ Continue(p, "documents", [job[p] EXCEPT
               !.table = {s \in known : sprints[s].status # "discarded"},
               !.issues = @ \cup
                 (IF ~b.dated
                  THEN {Issue("backlog_summary_stale_timestamp", Nothing, "stale", Plain)}
                  ELSE {}) \cup
                 (IF b.heading = "remaining" /\ b.count # Cardinality(b.listed)
                  THEN {Issue("backlog_summary_count_mismatch", Nothing, "stale", Plain)}
                  ELSE {}) \cup
                 (IF b.section /\ missing # {}
                  THEN {Issue("backlog_summary_sprint_table_stale", Nothing, "stale", Plain)}
                  ELSE {})])
        /\ UNCHANGED project

-----------------------------------------------------------------------------
(* Sprints                                                                 *)

\* globSprintFiles, and checkDBVsSprintFiles after it.
ReadDocuments(p) ==
    /\ pc[p] = "documents" /\ Works
    /\ Continue(p, "sprints", [job[p] EXCEPT !.found = docs[Tree[p]]])
    /\ UNCHANGED project

sprintStatusRank == [backlog |-> 0, active |-> 1, completed |-> 2, discarded |-> -1]
isSprintStatusRegression(db, file) ==
    sprintStatusRank[db] >= 0 /\ sprintStatusRank[db] > sprintStatusRank[file]

SprintIssues(s, l, doc) ==
    LET r == sprints[s] IN
    {Issue(k, s, l, Plain) : k \in {k \in Kind :
       \/ k = "db_missing_sprint" /\ ~r.is
       \/ k = "db_sprint_title_mismatch" /\ r.is /\ doc = "titled" /\ r.title = "old"
       \/ k = "db_sprint_folder_path_mismatch" /\ r.is /\ r.folder # l
       \/ /\ k = "db_sprint_status_file_absent" /\ r.is /\ r.status # l
          /\ ~isSprintStatusRegression(r.status, l)
       \/ /\ k = "db_sprint_metadata_stale" /\ r.is
          /\ r.title = "id" \/ ~r.started \/ (l = "completed" /\ ~r.completed)}}

CompareSprints(p) ==
    LET found == {e \in Sprint \X SprintPlace : job[p].found[e[1]][e[2]] # "absent"} IN
    /\ pc[p] = "sprints" /\ Works
    /\ Report(p, "orphans",
              UNION {SprintIssues(e[1], e[2], job[p].found[e[1]][e[2]]) : e \in found},
              \E e \in found : /\ sprints[e[1]].is
                               /\ isSprintStatusRegression(sprints[e[1]].status, e[2]))
    /\ UNCHANGED project

-----------------------------------------------------------------------------
\* checkDBOrphanTasks: no file in this worktree when it was scanned, no line, and
\* none at the row's path in any worktree now.
CheckOrphans(p) ==
    LET elsewhere(t) == \E w \in Worktree : /\ tasks[t].path # "stale"
                                            /\ files[w][t][tasks[t].path].is # "absent"
    IN  /\ pc[p] = "orphans" /\ Works
        /\ Report(p, "fix",
                  {Issue("db_orphan_task", t, "stale", Plain) :
                      t \in {u \in Task : /\ tasks[u].is /\ u \notin Listed(p)
                                          /\ \A l \in Loc : <<u, l>> \notin job[p].seen
                                          /\ ~elsewhere(u)}},
                  FALSE)
        /\ UNCHANGED project

-----------------------------------------------------------------------------
(* applyFixes                                                              *)

Due(p, i) == /\ pc[p] = "fix" /\ i \in job[p].issues
             /\ \A j \in job[p].issues : Rank[i.kind] <= Rank[j.kind]
Done(p, i) == Continue(p, "fix", [job[p] EXCEPT !.issues = @ \ {i}])

\* One UPDATE: it changes nothing when the row is gone.
SetRow(t, row) == tasks' = IF tasks[t].is THEN [tasks EXCEPT ![t] = row] ELSE tasks

FixRow(p, i) ==
    LET t == i.on IN
    /\ Due(p, i) /\ Done(p, i) /\ Works
    /\ \/ /\ i.kind = "db_missing_task"
          /\ tasks' = IF tasks[t].is THEN tasks ELSE
               [tasks EXCEPT ![t] = [is |-> TRUE, status |-> i.fm.status,
                                     sprint |-> i.fm.sprint, path |-> i.at]]
       \/ i.kind = "db_status_mismatch"    /\ SetRow(t, [tasks[t] EXCEPT !.status = i.fm.status])
       \/ i.kind = "completed_anomaly"     /\ SetRow(t, [tasks[t] EXCEPT !.status = "done"])
       \/ i.kind = "db_sprint_mismatch"    /\ SetRow(t, [tasks[t] EXCEPT !.sprint = i.fm.sprint])
       \/ i.kind = "db_file_path_mismatch" /\ SetRow(t, [tasks[t] EXCEPT !.path = i.at])
       \/ i.kind = "db_orphan_task"        /\ SetRow(t, NoRow)
    /\ UNCHANGED <<files, backlog, sprints, docs>>

\* The file first, the row in a second statement if the file is still there.
FixLocation(p, i) ==
    LET w == Tree[p] IN
    /\ Due(p, i) /\ i.kind = "location_frontmatter_mismatch" /\ Works
    /\ IF files[w][i.on][i.at].is # "read" THEN Done(p, i) /\ UNCHANGED files
       ELSE /\ Continue(p, "clear", [job[p] EXCEPT !.issues = @ \ {i}, !.on = i.on])
            /\ files' = [files EXCEPT ![w][i.on][i.at].fm.sprint = "backlog"]
    /\ UNCHANGED <<tasks, backlog, sprints, docs>>

ClearSprint(p) ==
    LET t == job[p].on IN
    /\ pc[p] = "clear" /\ Continue(p, "fix", [job[p] EXCEPT !.on = Nothing])
    /\ \/ Works /\ SetRow(t, [tasks[t] EXCEPT !.sprint = ""])
       \/ Fault /\ UNCHANGED tasks
    /\ UNCHANGED <<files, backlog, sprints, docs>>

\* These are repaired together when the others are.
summaryTypes == {"backlog_summary_stale_timestamp", "backlog_summary_count_mismatch"}

FixListing(p, i) ==
    LET w == Tree[p] IN
    /\ Due(p, i) /\ Works
    /\ \/ /\ i.kind = "backlog_md_stale_completed" /\ Done(p, i)
          /\ backlog' = [backlog EXCEPT ![w].listed = @ \ {i.on}]
       \/ /\ i.kind = "backlog_md_missing_entry" /\ Done(p, i)
          /\ backlog' = [backlog EXCEPT ![w].listed = @ \cup {i.on}]
       \/ /\ i.kind = "backlog_summary_sprint_table_stale" /\ Done(p, i)
          /\ backlog' = [backlog EXCEPT ![w].table = job[p].table]
       \/ /\ i.kind \in summaryTypes /\ UNCHANGED backlog
          /\ Continue(p, "fix", [job[p] EXCEPT !.issues = @ \ {i}, !.rebuild = TRUE])
    /\ UNCHANGED <<tasks, files, sprints, docs>>

FixSprint(p, i) ==
    LET s == i.on
        Set(row) == sprints' = IF sprints[s].is THEN [sprints EXCEPT ![s] = row] ELSE sprints
    IN  /\ Due(p, i) /\ Done(p, i) /\ Works
        /\ \/ /\ i.kind = "db_missing_sprint"
              /\ sprints' = IF sprints[s].is THEN sprints ELSE
                   [sprints EXCEPT ![s] =
                      [is |-> TRUE, status |-> i.at, folder |-> i.at, started |-> TRUE,
                       title |-> IF job[p].found[s][i.at] = "titled" THEN "title" ELSE "id",
                       completed |-> i.at = "completed"]]
           \/ /\ i.kind = "db_sprint_title_mismatch"
              /\ Set([sprints[s] EXCEPT !.title = "title"])
           \/ /\ i.kind = "db_sprint_folder_path_mismatch"
              /\ Set([sprints[s] EXCEPT !.folder = i.at])
           \/ /\ i.kind = "db_sprint_status_file_absent"
              /\ Set([sprints[s] EXCEPT !.folder = i.at, !.status = i.at])
        /\ UNCHANGED <<tasks, files, backlog, docs>>

\* applySprintMetadataFix: the title in one statement; then the row is read, its
\* empty dates filled in from the file's age, and all of it saved.
FixMetadata(p, i) ==
    LET s == i.on
        titled == job[p].found[s][i.at] = "titled"
    IN  /\ Due(p, i) /\ i.kind = "db_sprint_metadata_stale" /\ Works
        /\ sprints' = IF sprints[s].is /\ titled
                      THEN [sprints EXCEPT ![s].title = "title"] ELSE sprints
        /\ Continue(p, "reread", [job[p] EXCEPT !.issues = @ \ {i}, !.on = s, !.at = i.at])
        /\ UNCHANGED <<tasks, files, backlog, docs>>

RereadSprint(p) ==
    LET j == job[p] IN
    /\ pc[p] = "reread"
    /\ \/ Works /\ Continue(p, "save", [j EXCEPT !.row =
                 [sprints[j.on] EXCEPT !.started = TRUE,
                                       !.completed = @ \/ j.at = "completed"]])
       \/ Fault /\ Continue(p, "fix", [j EXCEPT !.on = Nothing, !.at = "stale"])
    /\ UNCHANGED project

SaveSprint(p) ==
    LET j == job[p] IN
    /\ pc[p] = "save"
    /\ Continue(p, "fix", [j EXCEPT !.on = Nothing, !.at = "stale", !.row = NoSprintRow])
    /\ \/ Works /\ sprints' = [sprints EXCEPT ![j.on] = j.row]
       \/ Fault /\ UNCHANGED sprints
    /\ UNCHANGED <<tasks, files, backlog, docs>>

\* A repair that fails is skipped.
SkipFix(p, i) == Due(p, i) /\ Done(p, i) /\ Fault /\ UNCHANGED project

\* The date, and the count under the heading "Outstanding Unassigned Tasks".
RebuildBacklogSummary(b) ==
    [b EXCEPT !.dated = TRUE,
              !.count = IF b.heading = "outstanding" THEN Cardinality(b.listed) ELSE @]

EndSync(p) ==
    LET w == Tree[p] IN
    /\ pc[p] = "fix" /\ job[p].issues = {}
    /\ pc' = [pc EXCEPT ![p] = "idle"]
    /\ job' = [job EXCEPT ![p] = NoJob]
    /\ rounds' = [rounds EXCEPT ![p] = @ + 1]
    /\ Works
    /\ backlog' = IF job[p].rebuild
                  THEN [backlog EXCEPT ![w] = RebuildBacklogSummary(@)] ELSE backlog
    /\ UNCHANGED <<tasks, files, sprints, docs, scene>>

-----------------------------------------------------------------------------
(* Other commands, each a single step: the modules on them follow the steps *)

Others(cmd) == cmd \in scene.others /\ UNCHANGED <<pc, job, rounds, faults, scene>>

\* start, or complete, of a Task.
Advance(t, w, l) ==
    LET fm == files[w][t][l].fm
        st == IF fm.status = "todo" THEN "in-progress" ELSE "done"
        to == IF st = "done" /\ l = "tasks" THEN "archive" ELSE l
    IN  /\ Others("task")
        /\ files[w][t][l].is = "read" /\ fm.status # "done"
        /\ tasks[t].is /\ tasks[t].status = fm.status
        /\ tasks' = [tasks EXCEPT ![t].status = st, ![t].path = to]
        /\ files' = [files EXCEPT ![w][t] =
              [@ EXCEPT ![l] = NoFile, ![to] = [is |-> "read",
                                               fm |-> [fm EXCEPT !.status = st]]]]
        /\ UNCHANGED <<backlog, sprints, docs>>

\* sprint start, sprint complete: the folder with its files, and the rows.
MoveSprint(s, w, from) ==
    LET to == IF from = "backlog" THEN "active" ELSE "completed"
        inside(t) == files[w][t][from].is # "absent"
    IN  /\ Others("sprint")
        /\ from # "completed" /\ sprints[s].is /\ sprints[s].status = from
        /\ docs[w][s][from] # "absent"
        /\ docs' = [docs EXCEPT ![w][s][to] = docs[w][s][from], ![w][s][from] = "absent"]
        /\ sprints' = [sprints EXCEPT ![s].status = to, ![s].folder = to, ![s].started = TRUE,
                                      ![s].completed = to = "completed"]
        /\ files' = [files EXCEPT ![w] = [t \in Task |->
               IF inside(t) THEN [files[w][t] EXCEPT ![to] = files[w][t][from],
                                                     ![from] = NoFile]
               ELSE files[w][t]]]
        /\ tasks' = [t \in Task |-> IF inside(t) THEN [tasks[t] EXCEPT !.path = to]
                                    ELSE tasks[t]]
        /\ UNCHANGED backlog

\* backlog rebuild-md: the query says NOT assigned AND todo, OR in-progress; what it
\* writes has no line on the date.
RebuildMD(w, include) ==
    /\ Others("rebuild")
    /\ backlog' = [backlog EXCEPT ![w] =
          [dated |-> TRUE,
           listed |-> {t \in Task : /\ tasks[t].is
                                    /\ \/ tasks[t].sprint = "" /\ tasks[t].status = "todo"
                                       \/ include /\ tasks[t].status = "in-progress"},
           heading |-> "plain", count |-> 0, section |-> FALSE, table |-> {}]]
    /\ UNCHANGED <<tasks, files, sprints, docs>>

Step(p) ==
    \/ CheckLocation(p) \/ ReadRows(p) \/ CompareFiles(p) \/ CheckListing(p)
    \/ CheckSummary(p) \/ ReadDocuments(p) \/ CompareSprints(p) \/ CheckOrphans(p)
    \/ \E i \in job[p].issues :
          \/ FixRow(p, i) \/ FixLocation(p, i) \/ FixListing(p, i)
          \/ FixSprint(p, i) \/ FixMetadata(p, i) \/ SkipFix(p, i)
    \/ ClearSprint(p) \/ RereadSprint(p) \/ SaveSprint(p) \/ EndSync(p)

Next ==
    \/ \E p \in Proc : BeginSync(p) \/ Step(p)
    \/ \E t \in Task, w \in Worktree, l \in Loc : Advance(t, w, l)
    \/ \E s \in Sprint, w \in Worktree, l \in SprintPlace : MoveSprint(s, w, l)
    \/ \E w \in Worktree, include \in BOOLEAN : RebuildMD(w, include)

Spec == Init /\ [][Next]_vars

-----------------------------------------------------------------------------
(* Properties                                                              *)

Runs   == {p \in Proc : scene.rounds[p] > 0}
OneTree == \A p, q \in Runs : Tree[p] = Tree[q]
Alone  == scene.others = {} /\ Cardinality(Runs) = 1

\* Syncs of one worktree, alone, converge: after two that did not fail a third
\* finds nothing to repair.  Not so below the heading that is checked but not
\* rewritten, nor for a Sprint without any title.
Converges ==
    \A p \in Proc :
       /\ Alone /\ faults = 0 /\ rounds[p] >= 2 /\ pc[p] = "fix"
       /\ backlog[Tree[p]].heading # "remaining"
       /\ \A s \in Sprint, l \in SprintPlace : docs[Tree[p]][s][l] # "untitled"
       => job[p].issues = {}

\* What sync leaves unrepaired it reports: when it finds nothing to repair and
\* nothing for a person, database, files, SPRINT.md and BACKLOG.md agree.  A row
\* without a file here is accounted for by a line, or by a file of another worktree.
TaskAgrees(w, t) ==
    LET at == {l \in Loc : files[w][t][l].is # "absent"}
        elsewhere == \E v \in Worktree : /\ tasks[t].path # "stale"
                                         /\ files[v][t][tasks[t].path].is # "absent"
    IN
    /\ tasks[t].is => at # {} \/ t \in backlog[w].listed \/ elsewhere
    /\ \A l \in at : LET fm == files[w][t][l].fm IN
          /\ tasks[t].is /\ at = {l} /\ tasks[t].path = l /\ tasks[t].status = fm.status
          /\ NormalizeSprintField(tasks[t].sprint) = NormalizeSprintField(fm.sprint)
    /\ t \in backlog[w].listed => at = {"tasks"}
SprintAgrees(w, s) ==
    \A l \in SprintPlace : docs[w][s][l] # "absent" =>
        sprints[s].is /\ sprints[s].status = l /\ sprints[s].folder = l
CleanMeansAgree ==
    [][\A p \in Proc :
         Alone /\ pc[p] = "orphans" /\ pc'[p] = "fix" /\ job'[p].issues = {}
         /\ ~job'[p].manual =>
            /\ \A t \in Task : TaskAgrees(Tree[p], t)
            /\ \A s \in Sprint : SprintAgrees(Tree[p], s)]_vars

\* However many syncs of one worktree run at once, none takes a Task or a Sprint
\* back to an earlier status.
Before == {<<"todo", "in-progress">>, <<"todo", "done">>, <<"in-progress", "done">>,
           <<"backlog", "active">>, <<"backlog", "completed">>, <<"active", "completed">>}
NeverRegresses ==
    [][scene.others = {} /\ OneTree /\ faults' = 0 =>
        /\ \A t \in Task : tasks[t].is /\ tasks'[t].is =>
              <<tasks'[t].status, tasks[t].status>> \notin Before
        /\ \A s \in Sprint : sprints[s].is /\ sprints'[s].is =>
              <<sprints'[s].status, sprints[s].status>> \notin Before]_vars
=============================================================================
