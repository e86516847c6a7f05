-------------------------- MODULE BacklogSyncProofs --------------------------
(***************************************************************************)
(* Proofs about BacklogSync, for any number of processes, worktrees, Tasks *)
(* and Sprints: its types, that no sync takes a status of the database     *)
(* back, that a clean report means that the sources agree, and that syncs  *)
(* of one worktree converge.                                               *)
(***************************************************************************)
EXTENDS BacklogSync, FiniteSetTheorems, TLAPS

\* The states to start from are of their types, in a project of finitely many
\* Tasks, none of which is called as nothing is.
StartsTyped ==
    /\ IsFiniteSet(Task)
    /\ Tree \in [Proc -> Worktree]
    /\ \A states \in Starts : \A start \in states :
          /\ start.tasks \in [Task -> Row]
          /\ start.files \in [Worktree -> [Task -> [Loc -> File]]]
          /\ start.backlog \in [Worktree -> Listing]
          /\ start.sprints \in [Sprint -> SprintRow]
          /\ start.docs \in [Worktree -> [Sprint -> [SprintPlace -> Doc]]]
          /\ start.scene \in [rounds : [Proc -> Nat],
                              others : SUBSET {"task", "sprint", "rebuild"}]

\* Which repairs are about a file of a Task, a Task, BACKLOG.md, a Sprint.
FileKind == {"location_frontmatter_mismatch", "db_missing_task", "db_status_mismatch",
             "completed_anomaly", "db_sprint_mismatch", "db_file_path_mismatch"}
TaskKind == FileKind \cup {"backlog_md_stale_completed", "backlog_md_missing_entry",
                          "db_orphan_task"}
SummaryKind == {"backlog_summary_stale_timestamp", "backlog_summary_count_mismatch",
                "backlog_summary_sprint_table_stale"}
SprintKind == {"db_missing_sprint", "db_sprint_title_mismatch",
               "db_sprint_folder_path_mismatch", "db_sprint_status_file_absent",
               "db_sprint_metadata_stale"}

Proper == {i \in Issues : /\ i.kind \in TaskKind => i.on \in Task
                          /\ i.kind \in FileKind => i.at \in Loc
                          /\ i.kind \in SprintKind => i.on \in Sprint /\ i.at \in SprintPlace}

\* A process is told of repairs that are about something there is.
Shape ==
    \A p \in Proc :
       /\ job[p].issues \subseteq Proper
       /\ pc[p] = "clear" => job[p].on \in Task
       /\ pc[p] \in {"reread", "save"} => job[p].on \in Sprint /\ job[p].at \in SprintPlace

TypeInv == TypeOK /\ Shape

LEMMA Kinds ==
    /\ FileKind \subseteq TaskKind /\ TaskKind \cap SummaryKind = {}
    /\ TaskKind \cap SprintKind = {} /\ SprintKind \cap SummaryKind = {}
    /\ Kind = TaskKind \cup SummaryKind \cup SprintKind
<1>1. FileKind \subseteq TaskKind /\ TaskKind \cap SummaryKind = {}
  BY DEF FileKind, TaskKind, SummaryKind
<1>2. TaskKind \cap SprintKind = {} /\ SprintKind \cap SummaryKind = {}
  BY DEF FileKind, TaskKind, SummaryKind, SprintKind
<1>3. Kind = TaskKind \cup SummaryKind \cup SprintKind
  BY DEF Kind, FileKind, TaskKind, SummaryKind, SprintKind
<1> QED
  BY <1>1, <1>2, <1>3

LEMMA NoJobTyped == NoJob \in Job
BY DEF NoJob, Job, NoRow, Row, NoSprintRow, SprintRow, Nothing, Status, Field, SprintPlace, Loc, Doc

LEMMA ContinueTyped ==
    ASSUME TypeOK, NEW p \in Proc, NEW l \in Label, NEW j \in Job, Continue(p, l, j)
    PROVE  /\ pc' \in [Proc -> Label] /\ job' \in [Proc -> Job]
           /\ rounds' \in [Proc -> Nat]
           /\ scene' \in [rounds : [Proc -> Nat], others : SUBSET {"task", "sprint", "rebuild"}]
BY DEF TypeOK, Continue

LEMMA PlainTyped == Plain \in FM
BY DEF Plain, FM, Status, Field

LEMMA SprintPlaceInLoc == SprintPlace \subseteq Loc
BY DEF SprintPlace, Loc

LEMMA TaskIssueTyped ==
    ASSUME NEW k \in TaskKind, NEW t \in Task, NEW l \in Loc \cup {"stale"},
           k \in FileKind => l \in Loc, NEW f \in FM
    PROVE  Issue(k, t, l, f) \in Proper
BY Kinds DEF Issue, Issues, Proper

LEMMA SprintIssueTyped ==
    ASSUME NEW k \in SprintKind, NEW s \in Sprint, NEW l \in SprintPlace
    PROVE  Issue(k, s, l, Plain) \in Proper
BY Kinds, PlainTyped, SprintPlaceInLoc DEF Issue, Issues, Proper

LEMMA SummaryIssueTyped ==
    ASSUME NEW k \in SummaryKind
    PROVE  Issue(k, Nothing, "stale", Plain) \in Proper
BY Kinds, PlainTyped DEF Issue, Issues, Proper

LEMMA IssuesTyped ==
    ASSUME NEW j \in Job, NEW I \in SUBSET Issues, NEW b \in BOOLEAN
    PROVE  /\ [j EXCEPT !.issues = @ \cup I, !.manual = @ \/ b] \in Job
           /\ [j EXCEPT !.issues = @ \ I] \in Job
BY DEF Job

\* A step of process p that leaves the others alone, and keeps to the types.
LEMMA OwnStep ==
    ASSUME TypeInv, NEW p \in Proc, NEW l \in Label, NEW j \in Job, Continue(p, l, j),
           j.issues \subseteq Proper, l = "clear" => j.on \in Task,
           l \in {"reread", "save"} => j.on \in Sprint /\ j.at \in SprintPlace
    PROVE  /\ Shape'
           /\ pc' \in [Proc -> Label] /\ job' \in [Proc -> Job]
           /\ rounds' \in [Proc -> Nat]
           /\ scene' \in [rounds : [Proc -> Nat], others : SUBSET {"task", "sprint", "rebuild"}]
           /\ pc'[p] = l /\ job'[p] = j
           /\ \A q \in Proc \ {p} : pc'[q] = pc[q] /\ job'[q] = job[q]
<1>1. pc' \in [Proc -> Label] /\ job' \in [Proc -> Job] /\ rounds' \in [Proc -> Nat]
      /\ scene' \in [rounds : [Proc -> Nat], others : SUBSET {"task", "sprint", "rebuild"}]
  BY ContinueTyped DEF TypeInv
<1>2. pc'[p] = l /\ job'[p] = j /\ \A q \in Proc \ {p} : pc'[q] = pc[q] /\ job'[q] = job[q]
  BY DEF Continue, TypeInv, TypeOK
<1>3. Shape'
  <2> SUFFICES ASSUME NEW q \in Proc
               PROVE  /\ job'[q].issues \subseteq Proper
                      /\ pc'[q] = "clear" => job'[q].on \in Task
                      /\ pc'[q] \in {"reread", "save"} =>
                            job'[q].on \in Sprint /\ job'[q].at \in SprintPlace
    BY DEF Shape
  <2>1. CASE q = p
    BY <2>1, <1>2
  <2>2. CASE q # p
    BY <2>2, <1>2 DEF TypeInv, Shape
  <2> QED
    BY <2>1, <2>2
<1> QED
  BY <1>1, <1>2, <1>3

\* A step that only looks, and goes on to a label without a subject.
LEMMA LookTyped ==
    ASSUME TypeInv, NEW p \in Proc, NEW l \in Label \ {"clear", "reread", "save"},
           NEW j \in Job, Continue(p, l, j), j.issues \subseteq Proper,
           Works, UNCHANGED project
    PROVE  TypeInv'
<1>1. /\ Shape'
      /\ pc' \in [Proc -> Label] /\ job' \in [Proc -> Job]
      /\ rounds' \in [Proc -> Nat]
      /\ scene' \in [rounds : [Proc -> Nat], others : SUBSET {"task", "sprint", "rebuild"}]
  BY OwnStep
<1> QED
  BY <1>1 DEF TypeInv, TypeOK, Works, project

LEMMA ReportTyped ==
    ASSUME TypeInv, NEW p \in Proc, NEW l \in Label \ {"clear", "reread", "save"},
           NEW I \in SUBSET Proper,
           NEW b \in BOOLEAN, Report(p, l, I, b), Works, UNCHANGED project
    PROVE  TypeInv'
<1> DEFINE j == [job[p] EXCEPT !.issues = @ \cup I, !.manual = @ \/ b]
<1>1. job[p] \in Job /\ job[p].issues \subseteq Proper /\ I \in SUBSET Issues
  BY DEF TypeInv, TypeOK, Shape, Proper
<1>2. j \in Job
  BY <1>1, IssuesTyped
<1>3. j.issues \subseteq Proper
  BY <1>1 DEF Job
<1>4. Continue(p, l, j)
  BY DEF Report
<1> HIDE DEF j
<1> QED
  BY <1>2, <1>3, <1>4, LookTyped

LEMMA StateTyped ==
    ASSUME StartsTyped, TypeInv, NEW p \in Proc
    PROVE  /\ Tree[p] \in Worktree /\ job[p] \in Job
           /\ \A w \in Worktree, t \in Task, l \in Loc : files[w][t][l] \in File
           /\ \A t \in Task, l \in Loc : TaskFile(p, t, l) \in File
           /\ \A t \in Task : tasks[t] \in Row
           /\ \A s \in Sprint : sprints[s] \in SprintRow
           /\ backlog[Tree[p]] \in Listing
<1>1. Tree[p] \in Worktree /\ job[p] \in Job /\ backlog[Tree[p]] \in Listing
  BY DEF StartsTyped, TypeInv, TypeOK
<1>2. \A w \in Worktree, t \in Task, l \in Loc : files[w][t][l] \in File
  BY DEF TypeInv, TypeOK
<1>3. (\A t \in Task : tasks[t] \in Row) /\ \A s \in Sprint : sprints[s] \in SprintRow
  BY DEF TypeInv, TypeOK
<1> QED
  BY <1>1, <1>2, <1>3 DEF TaskFile

LEMMA NormalizeTyped == \A f \in Field : NormalizeSprintField(f) \in Field
BY DEF NormalizeSprintField, Field

LEMMA BeginTyped == ASSUME StartsTyped, TypeInv, NEW p \in Proc, BeginSync(p) PROVE TypeInv'
<1> DEFINE S == {e \in Task \X Loc : TaskFile(p, e[1], e[2]).is # "absent"}
<1>1. [NoJob EXCEPT !.seen = S] \in Job
  BY NoJobTyped DEF Job
<1>4. [NoJob EXCEPT !.seen = S].issues \subseteq Proper /\ Works /\ UNCHANGED project
  BY DEF NoJob, BeginSync
<1>2. "location" \in Label \ {"clear", "reread", "save"}
  BY DEF Label
<1>3. Continue(p, "location", [NoJob EXCEPT !.seen = S])
  BY DEF BeginSync
<1> QED
  BY <1>1, <1>2, <1>3, <1>4, LookTyped

\* What the checks find, and when they find something for a person.
ReadOf(p) == {e \in job[p].seen : TaskFile(p, e[1], e[2]).is = "read"}
Sprinted(p, e) == e[2] = "tasks" /\ NormalizeSprintField(TaskFile(p, e[1], e[2]).fm.sprint) # ""
LocationFinds(p) ==
    {Issue("location_frontmatter_mismatch", e[1], e[2], Plain) :
       e \in {f \in ReadOf(p) : Sprinted(p, f)}}
LocationManual(p) ==
    \/ \E e, f \in job[p].seen : e[1] = f[1] /\ e[2] # f[2]
    \/ \E e \in job[p].seen : TaskFile(p, e[1], e[2]).is = "unreadable"
    \/ \E e \in ReadOf(p) : /\ e[2] \in {"active", "backlog", "discarded"}
                            /\ TaskFile(p, e[1], e[2]).fm.status = "done"

LEMMA LocationReports ==
    ASSUME NEW p, CheckLocation(p)
    PROVE  /\ pc[p] = "location" /\ Works /\ UNCHANGED project
           /\ Report(p, "rows", LocationFinds(p), LocationManual(p))
BY Zenon DEF CheckLocation, LocationFinds, LocationManual, ReadOf, Sprinted

LEMMA LocationFindsProper ==
    ASSUME StartsTyped, TypeInv, NEW p \in Proc
    PROVE  LocationFinds(p) \subseteq Proper /\ LocationManual(p) \in BOOLEAN
<1>1. "location_frontmatter_mismatch" \in TaskKind
  BY DEF FileKind, TaskKind
<1>2. job[p].seen \subseteq Task \X Loc
  BY StateTyped DEF Job
<1>3. ASSUME NEW e \in ReadOf(p)
      PROVE  Issue("location_frontmatter_mismatch", e[1], e[2], Plain) \in Proper
  <2>1. e[1] \in Task /\ e[2] \in Loc
    BY <1>2 DEF ReadOf
  <2> QED
    BY <2>1, <1>1, PlainTyped, TaskIssueTyped
<1>4. LocationFinds(p) \subseteq Proper
  BY <1>3 DEF LocationFinds
<1>5. LocationManual(p) \in BOOLEAN
  BY DEF LocationManual
<1> QED
  BY <1>4, <1>5

LEMMA LocationTyped == ASSUME StartsTyped, TypeInv, NEW p \in Proc, CheckLocation(p) PROVE TypeInv'
<1>1. "rows" \in Label \ {"clear", "reread", "save"}
  BY DEF Label
<1> QED
  BY <1>1, LocationReports, LocationFindsProper, ReportTyped, Zenon

LEMMA ReadRowsTyped == ASSUME StartsTyped, TypeInv, NEW p \in Proc, ReadRows(p) PROVE TypeInv'
<1>1. [job[p] EXCEPT !.rows = tasks] \in Job
  <2>1. job[p] \in Job /\ tasks \in [Task -> Row]
    BY DEF TypeInv, TypeOK
  <2> QED
    BY <2>1 DEF Job
<1>2. "compare" \in Label \ {"clear", "reread", "save"} /\ Continue(p, "compare", [job[p] EXCEPT !.rows = tasks])
      /\ Works /\ UNCHANGED project
  BY DEF Label, ReadRows
<1>3. [job[p] EXCEPT !.rows = tasks].issues \subseteq Proper
  BY StateTyped DEF TypeInv, Shape, Job
<1> QED
  BY <1>1, <1>2, <1>3, LookTyped

LEMMA FileIssuesTyped ==
    ASSUME NEW row \in Row, NEW t \in Task, NEW l \in Loc, NEW fm \in FM
    PROVE  /\ StatusIssue(row, t, l, fm) \subseteq Proper
           /\ SprintIssue(row, t, l, fm) \subseteq Proper
           /\ PathIssue(row, t, l, fm) \subseteq Proper
<1>1. \A k \in FileKind, f \in FM : Issue(k, t, l, f) \in Proper
  BY Kinds, TaskIssueTyped
<1>2. {"completed_anomaly", "db_status_mismatch", "db_sprint_mismatch", "db_file_path_mismatch"}
        \subseteq FileKind
  BY DEF FileKind
<1>3. [fm EXCEPT !.sprint = ""] \in FM /\ [fm EXCEPT !.sprint = NormalizeSprintField(fm.sprint)] \in FM
  BY NormalizeTyped DEF FM, Field
<1>4. StatusIssue(row, t, l, fm) \subseteq Proper
  BY <1>1, <1>2 DEF StatusIssue
<1>5. SprintIssue(row, t, l, fm) \subseteq Proper
  BY <1>1, <1>2, <1>3 DEF SprintIssue
<1>6. PathIssue(row, t, l, fm) \subseteq Proper
  BY <1>1, <1>2 DEF PathIssue
<1> QED
  BY <1>4, <1>5, <1>6

LastOf(p) == {e \in job[p].seen : LastSeen(p, e[1], e[2]) /\ TaskFile(p, e[1], e[2]).is = "read"}
KnownOf(p) == {e \in LastOf(p) : job[p].rows[e[1]].is}
FileFinds(p, e) ==
    LET row == job[p].rows[e[1]]
        fm == TaskFile(p, e[1], e[2]).fm
    IN  StatusIssue(row, e[1], e[2], fm) \cup SprintIssue(row, e[1], e[2], fm)
           \cup PathIssue(row, e[1], e[2], fm)
NewRow(p, e) ==
    Issue("db_missing_task", e[1], e[2],
          [TaskFile(p, e[1], e[2]).fm EXCEPT !.sprint = NormalizeSprintField(@)])
CompareFinds(p) ==
    {NewRow(p, e) : e \in LastOf(p) \ KnownOf(p)} \cup UNION {FileFinds(p, e) : e \in KnownOf(p)}
CompareManual(p) ==
    \E e \in KnownOf(p) :
       LET row == job[p].rows[e[1]]
           fm == TaskFile(p, e[1], e[2]).fm
       IN  row.status # fm.status /\ StatusIssue(row, e[1], e[2], fm) = {}

LEMMA CompareReports ==
    ASSUME NEW p, CompareFiles(p)
    PROVE  /\ pc[p] = "compare" /\ Works /\ UNCHANGED project
           /\ Report(p, "listing", CompareFinds(p), CompareManual(p))
BY Zenon DEF CompareFiles, CompareFinds, CompareManual, LastOf, KnownOf, FileFinds, NewRow

LEMMA LastTyped ==
    ASSUME StartsTyped, TypeInv, NEW p \in Proc, NEW e \in LastOf(p)
    PROVE  /\ e \in Task \X Loc /\ e[1] \in Task /\ e[2] \in Loc
           /\ TaskFile(p, e[1], e[2]) \in File /\ TaskFile(p, e[1], e[2]).fm \in FM
           /\ job[p].rows[e[1]] \in Row
<1>1. e \in Task \X Loc /\ e[1] \in Task /\ e[2] \in Loc
  BY StateTyped DEF Job, LastOf
<1>2. TaskFile(p, e[1], e[2]) \in File /\ job[p].rows[e[1]] \in Row
  BY <1>1, StateTyped DEF Job
<1> QED
  BY <1>1, <1>2 DEF File

LEMMA CompareFindsProper ==
    ASSUME StartsTyped, TypeInv, NEW p \in Proc
    PROVE  CompareFinds(p) \subseteq Proper /\ CompareManual(p) \in BOOLEAN
<1>1. "db_missing_task" \in TaskKind
  BY DEF FileKind, TaskKind
<1>2. ASSUME NEW e \in LastOf(p) PROVE NewRow(p, e) \in Proper
  <2> DEFINE f == [TaskFile(p, e[1], e[2]).fm EXCEPT !.sprint = NormalizeSprintField(@)]
  <2>1. f \in FM
    BY LastTyped, NormalizeTyped DEF FM
  <2> HIDE DEF f
  <2>2. e[1] \in Task /\ e[2] \in Loc
    BY LastTyped
  <2>3. Issue("db_missing_task", e[1], e[2], f) \in Proper
    BY <2>1, <2>2, <1>1, TaskIssueTyped
  <2> QED
    BY <2>3 DEF NewRow, f
<1>3. ASSUME NEW e \in KnownOf(p) PROVE FileFinds(p, e) \subseteq Proper
  <2>1. e \in LastOf(p)
    BY DEF KnownOf
  <2> QED
    BY <2>1, LastTyped, FileIssuesTyped DEF FileFinds
<1>4. CompareFinds(p) \subseteq Proper
  BY <1>2, <1>3 DEF CompareFinds
<1>5. CompareManual(p) \in BOOLEAN
  BY DEF CompareManual
<1> QED
  BY <1>4, <1>5

LEMMA CompareTyped == ASSUME StartsTyped, TypeInv, NEW p \in Proc, CompareFiles(p) PROVE TypeInv'
<1>1. "listing" \in Label \ {"clear", "reread", "save"}
  BY DEF Label
<1> QED
  BY <1>1, CompareReports, CompareFindsProper, ReportTyped, Zenon

Finished(p, t) ==
    /\ <<t, "archive">> \in job[p].seen \/ <<t, "completed">> \in job[p].seen
    /\ tasks[t].is /\ tasks[t].status = "done"
GoneOf(p) == {t \in Listed(p) : <<t, "tasks">> \notin job[p].seen}
UnlistedOf(p) ==
    {t \in Task \ Listed(p) : /\ <<t, "tasks">> \in job[p].seen
                              /\ TaskFile(p, t, "tasks").is = "read"
                              /\ TaskFile(p, t, "tasks").fm = Plain}
ListingFinds(p) ==
    {Issue("backlog_md_stale_completed", t, "stale", Plain) : t \in {u \in GoneOf(p) : Finished(p, u)}}
    \cup {Issue("backlog_md_missing_entry", t, "tasks", Plain) : t \in UnlistedOf(p)}
ListingManual(p) == \E t \in GoneOf(p) : ~Finished(p, t)

LEMMA ListingReports ==
    ASSUME NEW p, CheckListing(p)
    PROVE  /\ pc[p] = "listing" /\ Works /\ UNCHANGED project
           /\ Report(p, "summary", ListingFinds(p), ListingManual(p))
BY Zenon DEF CheckListing, ListingFinds, ListingManual, GoneOf, UnlistedOf, Finished

LEMMA ListingFindsProper ==
    ASSUME StartsTyped, TypeInv, NEW p \in Proc
    PROVE  ListingFinds(p) \subseteq Proper /\ ListingManual(p) \in BOOLEAN
<1>1. {"backlog_md_stale_completed", "backlog_md_missing_entry"} \subseteq TaskKind \ FileKind
      /\ "tasks" \in Loc
  BY DEF TaskKind, FileKind, Loc
<1>2. Listed(p) \subseteq Task
  BY StateTyped DEF Listed, Listing
<1>3. \A t \in Task : Issue("backlog_md_stale_completed", t, "stale", Plain) \in Proper
  BY <1>1, PlainTyped, TaskIssueTyped
<1>4. \A t \in Task : Issue("backlog_md_missing_entry", t, "tasks", Plain) \in Proper
  BY <1>1, PlainTyped, TaskIssueTyped
<1>5. ListingFinds(p) \subseteq Proper
  BY <1>2, <1>3, <1>4 DEF ListingFinds, GoneOf, UnlistedOf
<1>6. ListingManual(p) \in BOOLEAN
  BY DEF ListingManual
<1> QED
  BY <1>5, <1>6

LEMMA ListingTyped == ASSUME StartsTyped, TypeInv, NEW p \in Proc, CheckListing(p) PROVE TypeInv'
<1>1. "summary" \in Label \ {"clear", "reread", "save"}
  BY DEF Label
<1> QED
  BY <1>1, ListingReports, ListingFindsProper, ReportTyped, Zenon

SummaryFinds(p) ==
    LET b == backlog[Tree[p]]
        missing == {s \in {u \in Sprint : sprints[u].is} \ b.table :
                       sprints[s].status \in {"active", "backlog"}}
    IN  (IF ~b.dated
         THEN {Issue("backlog_summary_stale_timestamp", Nothing, "stale", Plain)} ELSE {})
        \cup (IF b.heading = "remaining" /\ b.count # Cardinality(b.listed)
              THEN {Issue("backlog_summary_count_mismatch", Nothing, "stale", Plain)} ELSE {})
        \cup (IF b.section /\ missing # {}
              THEN {Issue("backlog_summary_sprint_table_stale", Nothing, "stale", Plain)} ELSE {})
TableOf == {s \in Sprint : sprints[s].is /\ sprints[s].status # "discarded"}

LEMMA SummaryReports ==
    ASSUME StartsTyped, TypeInv, NEW p \in Proc, CheckSummary(p)
    PROVE  /\ pc[p] = "summary" /\ Works /\ UNCHANGED project
           /\ Continue(p, "documents",
                       [job[p] EXCEPT !.table = TableOf, !.issues = @ \cup SummaryFinds(p)])
<1> DEFINE b == backlog[Tree[p]]
           known == {s \in Sprint : sprints[s].is}
           missing == {s \in known \ b.table : sprints[s].status \in {"active", "backlog"}}
           T == {s \in known : sprints[s].status # "discarded"}
           H == (IF ~b.dated
                  THEN {Issue("backlog_summary_stale_timestamp", Nothing, "stale", Plain)}
                  ELSE {})
           I == (IF b.heading = "remaining" /\ b.count # Cardinality(b.listed)
                  THEN {Issue("backlog_summary_count_mismatch", Nothing, "stale", Plain)}
                  ELSE {})
           K == (IF b.section /\ missing # {}
                  THEN {Issue("backlog_summary_sprint_table_stale", Nothing, "stale", Plain)}
                  ELSE {})
<1>1. pc[p] = "summary" /\ Works /\ UNCHANGED project
      /\ Continue(p, "documents", [job[p] EXCEPT !.table = T, !.issues = @ \cup H \cup I \cup K])
  BY Zenon DEF CheckSummary
<1>2. T = TableOf
  BY DEF TableOf
<1>3. SummaryFinds(p) = H \cup I \cup K
  BY Zenon DEF SummaryFinds
<1>4. job[p].issues \cup H \cup I \cup K = job[p].issues \cup SummaryFinds(p)
  BY <1>3
<1> HIDE DEF H, I, K, T
<1> QED
  BY <1>1, <1>2, <1>4

LEMMA SummaryFindsProper == ASSUME NEW p PROVE SummaryFinds(p) \subseteq Proper
<1>1. "backlog_summary_count_mismatch" \in SummaryKind
      /\ "backlog_summary_stale_timestamp" \in SummaryKind
      /\ "backlog_summary_sprint_table_stale" \in SummaryKind
  BY DEF SummaryKind
<1>2. \A k \in SummaryKind : Issue(k, Nothing, "stale", Plain) \in Proper
  BY SummaryIssueTyped
<1> QED
  BY <1>1, <1>2 DEF SummaryFinds

LEMMA SummaryTyped == ASSUME StartsTyped, TypeInv, NEW p \in Proc, CheckSummary(p) PROVE TypeInv'
<1> DEFINE j == [job[p] EXCEPT !.table = TableOf, !.issues = @ \cup SummaryFinds(p)]
<1>1. job[p] \in Job /\ job[p].issues \subseteq Proper /\ Proper \subseteq Issues
  BY StateTyped DEF TypeInv, Shape, Proper
<1>2. j \in Job /\ j.issues \subseteq Proper
  BY <1>1, SummaryFindsProper DEF Job, TableOf
<1>3. Continue(p, "documents", j) /\ Works /\ UNCHANGED project
  BY SummaryReports
<1>4. "documents" \in Label \ {"clear", "reread", "save"}
  BY DEF Label
<1> HIDE DEF j
<1> QED
  BY <1>2, <1>3, <1>4, LookTyped

LEMMA DocumentsTyped == ASSUME StartsTyped, TypeInv, NEW p \in Proc, ReadDocuments(p) PROVE TypeInv'
<1> DEFINE j == [job[p] EXCEPT !.found = docs[Tree[p]]]
<1>1. j \in Job
  <2>1. job[p] \in Job /\ docs[Tree[p]] \in [Sprint -> [SprintPlace -> Doc]]
    BY StateTyped DEF TypeInv, TypeOK
  <2> QED
    BY <2>1 DEF Job
<1>2. "sprints" \in Label \ {"clear", "reread", "save"} /\ Continue(p, "sprints", j) /\ Works /\ UNCHANGED project
  BY DEF Label, ReadDocuments
<1>3. j.issues \subseteq Proper
  BY StateTyped DEF TypeInv, Shape, Job
<1> HIDE DEF j
<1> QED
  BY <1>1, <1>2, <1>3, LookTyped

DocumentsOf(p) == {e \in Sprint \X SprintPlace : job[p].found[e[1]][e[2]] # "absent"}
SprintsFind(p) == UNION {SprintIssues(e[1], e[2], job[p].found[e[1]][e[2]]) : e \in DocumentsOf(p)}
SprintsManual(p) ==
    \E e \in DocumentsOf(p) : /\ sprints[e[1]].is
                             /\ isSprintStatusRegression(sprints[e[1]].status, e[2])

LEMMA SprintsReport ==
    ASSUME NEW p, CompareSprints(p)
    PROVE  /\ pc[p] = "sprints" /\ Works /\ UNCHANGED project
           /\ Report(p, "orphans", SprintsFind(p), SprintsManual(p))
BY Zenon DEF CompareSprints, SprintsFind, SprintsManual, DocumentsOf

LEMMA SprintsFindProper ==
    ASSUME NEW p \in Proc
    PROVE  SprintsFind(p) \subseteq Proper /\ SprintsManual(p) \in BOOLEAN
<1>1. ASSUME NEW e \in Sprint \X SprintPlace
      PROVE  SprintIssues(e[1], e[2], job[p].found[e[1]][e[2]]) \subseteq Proper
  <2>1. \A k \in SprintKind : Issue(k, e[1], e[2], Plain) \in Proper
    BY SprintIssueTyped
  <2> QED
    BY <2>1 DEF SprintIssues, SprintKind
<1>2. SprintsFind(p) \subseteq Proper
  BY <1>1 DEF SprintsFind, DocumentsOf
<1>3. SprintsManual(p) \in BOOLEAN
  BY DEF SprintsManual
<1> QED
  BY <1>2, <1>3

LEMMA SprintsTyped == ASSUME StartsTyped, TypeInv, NEW p \in Proc, CompareSprints(p) PROVE TypeInv'
<1>1. "orphans" \in Label \ {"clear", "reread", "save"}
  BY DEF Label
<1> QED
  BY <1>1, SprintsReport, SprintsFindProper, ReportTyped, Zenon

OrphansFound(p) ==
    {Issue("db_orphan_task", t, "stale", Plain) :
       t \in {u \in Task :
                /\ tasks[u].is /\ u \notin Listed(p)
                /\ \A l \in Loc : <<u, l>> \notin job[p].seen
                /\ ~\E w \in Worktree : /\ tasks[u].path # "stale"
                                        /\ files[w][u][tasks[u].path].is # "absent"}}

LEMMA OrphansReport ==
    ASSUME NEW p, CheckOrphans(p)
    PROVE  /\ pc[p] = "orphans" /\ Works /\ UNCHANGED project
           /\ Report(p, "fix", OrphansFound(p), FALSE)
BY Zenon DEF CheckOrphans, OrphansFound

LEMMA OrphansProper == ASSUME NEW p PROVE OrphansFound(p) \subseteq Proper
<1>1. "db_orphan_task" \in TaskKind \ FileKind
  BY DEF TaskKind, FileKind
<1>2. \A t \in Task : Issue("db_orphan_task", t, "stale", Plain) \in Proper
  BY <1>1, PlainTyped, TaskIssueTyped
<1> QED
  BY <1>2 DEF OrphansFound

LEMMA OrphansTyped == ASSUME StartsTyped, TypeInv, NEW p \in Proc, CheckOrphans(p) PROVE TypeInv'
<1>1. "fix" \in Label \ {"clear", "reread", "save"}
  BY DEF Label
<1> QED
  BY <1>1, OrphansReport, OrphansProper, ReportTyped, Zenon

-----------------------------------------------------------------------------
(* The repairs.                                                            *)

LEMMA DoneTyped ==
    ASSUME TypeInv, NEW p \in Proc, NEW i, Done(p, i)
    PROVE  /\ Shape'
           /\ pc' \in [Proc -> Label] /\ job' \in [Proc -> Job]
           /\ rounds' \in [Proc -> Nat]
           /\ scene' \in [rounds : [Proc -> Nat], others : SUBSET {"task", "sprint", "rebuild"}]
           /\ pc'[p] = "fix" /\ job'[p] = [job[p] EXCEPT !.issues = @ \ {i}]
           /\ \A q \in Proc \ {p} : pc'[q] = pc[q] /\ job'[q] = job[q]
<1> DEFINE j == [job[p] EXCEPT !.issues = @ \ {i}]
<1>1. job[p] \in Job /\ job[p].issues \subseteq Proper
  BY DEF TypeInv, TypeOK, Shape
<1>2. j \in Job /\ j.issues \subseteq Proper
  BY <1>1 DEF Job
<1>3. "fix" \in Label /\ Continue(p, "fix", j)
  BY DEF Label, Done
<1> HIDE DEF j
<1>4. /\ Shape'
      /\ pc' \in [Proc -> Label] /\ job' \in [Proc -> Job]
      /\ rounds' \in [Proc -> Nat]
      /\ scene' \in [rounds : [Proc -> Nat], others : SUBSET {"task", "sprint", "rebuild"}]
      /\ pc'[p] = "fix" /\ job'[p] = j
      /\ \A q \in Proc \ {p} : pc'[q] = pc[q] /\ job'[q] = job[q]
  BY <1>2, <1>3, OwnStep
<1> QED
  BY <1>4 DEF j

LEMMA SetRowTyped ==
    ASSUME TypeInv, NEW t \in Task, NEW row \in Row, SetRow(t, row)
    PROVE  tasks' \in [Task -> Row]
BY DEF TypeInv, TypeOK, SetRow

LEMMA FixRowTyped ==
    ASSUME StartsTyped, TypeInv, NEW p \in Proc, NEW i \in job[p].issues, FixRow(p, i)
    PROVE  TypeInv'
<1>1. i \in Proper /\ i \in Issues
  BY DEF TypeInv, Shape, Proper
<1>2. i.kind \in TaskKind /\ (i.kind # "db_orphan_task" => i.kind \in FileKind)
  BY DEF FixRow, TaskKind, FileKind
<1>3. i.on \in Task /\ i.fm \in FM /\ (i.kind # "db_orphan_task" => i.at \in Loc)
  BY <1>1, <1>2 DEF Proper, Issues
<1>4. tasks[i.on] \in Row /\ i.fm.status \in Status /\ i.fm.sprint \in Field
  BY <1>3 DEF TypeInv, TypeOK, FM
<1>5. tasks' \in [Task -> Row]
  <2>1. CASE i.kind = "db_missing_task" /\ tasks' = IF tasks[i.on].is THEN tasks ELSE
               [tasks EXCEPT ![i.on] = [is |-> TRUE, status |-> i.fm.status,
                                        sprint |-> i.fm.sprint, path |-> i.at]]
    <3>1. [is |-> TRUE, status |-> i.fm.status, sprint |-> i.fm.sprint, path |-> i.at] \in Row
      BY <1>3, <1>4, <2>1 DEF Row
    <3> QED
      BY <3>1, <1>3, <2>1 DEF TypeInv, TypeOK
  <2>2. CASE i.kind = "db_status_mismatch" /\ SetRow(i.on, [tasks[i.on] EXCEPT !.status = i.fm.status])
    <3>1. [tasks[i.on] EXCEPT !.status = i.fm.status] \in Row
      BY <1>4 DEF Row
    <3> QED
      BY <3>1, <2>2, <1>3, SetRowTyped
  <2>3. CASE i.kind = "completed_anomaly" /\ SetRow(i.on, [tasks[i.on] EXCEPT !.status = "done"])
    <3>1. [tasks[i.on] EXCEPT !.status = "done"] \in Row
      BY <1>4 DEF Row, Status
    <3> QED
      BY <3>1, <2>3, <1>3, SetRowTyped
  <2>4. CASE i.kind = "db_sprint_mismatch" /\ SetRow(i.on, [tasks[i.on] EXCEPT !.sprint = i.fm.sprint])
    <3>1. [tasks[i.on] EXCEPT !.sprint = i.fm.sprint] \in Row
      BY <1>4 DEF Row
    <3> QED
      BY <3>1, <2>4, <1>3, SetRowTyped
  <2>5. CASE i.kind = "db_file_path_mismatch" /\ SetRow(i.on, [tasks[i.on] EXCEPT !.path = i.at])
    <3>1. [tasks[i.on] EXCEPT !.path = i.at] \in Row
      BY <1>3, <1>4, <2>5 DEF Row
    <3> QED
      BY <3>1, <2>5, <1>3, SetRowTyped
  <2>6. CASE i.kind = "db_orphan_task" /\ SetRow(i.on, NoRow)
    <3>1. NoRow \in Row
      BY DEF NoRow, Row, Status, Field
    <3> QED
      BY <3>1, <2>6, <1>3, SetRowTyped
  <2> QED
    BY <2>1, <2>2, <2>3, <2>4, <2>5, <2>6 DEF FixRow
<1>6. Done(p, i) /\ Works /\ UNCHANGED <<files, backlog, sprints, docs>>
  BY DEF FixRow
<1> QED
  BY <1>5, <1>6, DoneTyped DEF TypeInv, TypeOK, Works

LEMMA FilesTyped ==
    ASSUME TypeInv, NEW w \in Worktree, NEW t \in Task, NEW l \in Loc, NEW f \in Field
    PROVE  [files EXCEPT ![w][t][l].fm.sprint = f] \in [Worktree -> [Task -> [Loc -> File]]]
<1>1. files[w][t][l] \in File /\ files[w][t] \in [Loc -> File]
  BY DEF TypeInv, TypeOK
<1>2. [files[w][t][l] EXCEPT !.fm.sprint = f] \in File
  BY <1>1 DEF File, FM
<1> DEFINE d == [files[w][t][l] EXCEPT !.fm.sprint = f]
<1>3. [files EXCEPT ![w][t][l].fm.sprint = f] = [files EXCEPT ![w][t][l] = d]
  OBVIOUS
<1> HIDE DEF d
<1>4. [files EXCEPT ![w][t][l] = d] \in [Worktree -> [Task -> [Loc -> File]]]
  BY <1>2 DEF TypeInv, TypeOK, d
<1> QED
  BY <1>3, <1>4

LEMMA FixLocationTyped ==
    ASSUME StartsTyped, TypeInv, NEW p \in Proc, NEW i \in job[p].issues, FixLocation(p, i)
    PROVE  TypeInv'
<1> DEFINE w == Tree[p]
           j == [job[p] EXCEPT !.issues = @ \ {i}, !.on = i.on]
<1>1. i \in Proper /\ i \in Issues /\ w \in Worktree
  BY StateTyped DEF TypeInv, Shape, Proper
<1>2. i.kind \in FileKind /\ i.kind \in TaskKind
  BY DEF FixLocation, FileKind, TaskKind
<1>3. i.on \in Task /\ i.at \in Loc
  BY <1>1, <1>2 DEF Proper
<1>4. Works /\ UNCHANGED <<tasks, backlog, sprints, docs>>
  BY DEF FixLocation
<1>5. CASE Done(p, i) /\ UNCHANGED files
  BY <1>4, <1>5, DoneTyped DEF TypeInv, TypeOK, Works
<1>6. CASE Continue(p, "clear", j) /\ files' = [files EXCEPT ![w][i.on][i.at].fm.sprint = "backlog"]
  <2>1. job[p] \in Job /\ job[p].issues \subseteq Proper
    BY DEF TypeInv, TypeOK, Shape
  <2>2. j \in Job /\ j.issues \subseteq Proper /\ j.on \in Task
    BY <2>1, <1>3, ZenonT(60) DEF Job
  <2>3. "clear" \in Label /\ "backlog" \in Field
    BY DEF Label, Field
  <2>4. files' \in [Worktree -> [Task -> [Loc -> File]]]
    BY <1>6, <1>1, <1>3, <2>3, FilesTyped, ZenonT(60)
  <2> HIDE DEF j
  <2>5. /\ Shape'
        /\ pc' \in [Proc -> Label] /\ job' \in [Proc -> Job]
        /\ rounds' \in [Proc -> Nat]
        /\ scene' \in [rounds : [Proc -> Nat], others : SUBSET {"task", "sprint", "rebuild"}]
    BY <1>6, <2>2, <2>3, OwnStep
  <2> QED
    BY <2>4, <2>5, <1>4 DEF TypeInv, TypeOK, Works
<1> QED
  BY <1>5, <1>6 DEF FixLocation

LEMMA ClearTyped ==
    ASSUME StartsTyped, TypeInv, NEW p \in Proc, ClearSprint(p)
    PROVE  TypeInv'
<1> DEFINE t == job[p].on
           j == [job[p] EXCEPT !.on = Nothing]
<1>1. t \in Task /\ job[p] \in Job /\ job[p].issues \subseteq Proper
  BY DEF ClearSprint, TypeInv, Shape, TypeOK
<1>2. j \in Job /\ j.issues \subseteq Proper
  BY <1>1 DEF Job
<1>3. Continue(p, "fix", j) /\ "fix" \in Label /\ UNCHANGED <<files, backlog, sprints, docs>>
  BY DEF ClearSprint, Label
<1>4. tasks' \in [Task -> Row]
  <2>1. [tasks[t] EXCEPT !.sprint = ""] \in Row
    <3>1. tasks[t] \in Row
      BY <1>1 DEF TypeInv, TypeOK
    <3> QED
      BY <3>1 DEF Row, Field
  <2>2. CASE SetRow(t, [tasks[t] EXCEPT !.sprint = ""])
    BY <2>1, <2>2, <1>1, SetRowTyped
  <2>3. CASE UNCHANGED tasks
    BY <2>3 DEF TypeInv, TypeOK
  <2> QED
    BY <2>2, <2>3 DEF ClearSprint
<1>5. faults' \in Nat
  <2>1. faults \in Nat /\ (Works \/ Fault)
    BY DEF ClearSprint, TypeInv, TypeOK
  <2> QED
    BY <2>1 DEF Works, Fault
<1> HIDE DEF j
<1>6. /\ Shape'
      /\ pc' \in [Proc -> Label] /\ job' \in [Proc -> Job]
      /\ rounds' \in [Proc -> Nat]
      /\ scene' \in [rounds : [Proc -> Nat], others : SUBSET {"task", "sprint", "rebuild"}]
  BY <1>2, <1>3, OwnStep
<1> QED
  BY <1>3, <1>4, <1>5, <1>6 DEF TypeInv, TypeOK

LEMMA ListingKept ==
    ASSUME TypeInv, NEW w \in Worktree, NEW b \in Listing
    PROVE  [backlog EXCEPT ![w] = b] \in [Worktree -> Listing]
BY DEF TypeInv, TypeOK

LEMMA ListingDoneTyped ==
    ASSUME TypeInv, NEW p \in Proc, NEW i, Done(p, i), Works,
           UNCHANGED <<tasks, files, sprints, docs>>,
           NEW w \in Worktree, NEW b \in Listing, backlog' = [backlog EXCEPT ![w] = b]
    PROVE  TypeInv'
<1>1. backlog' \in [Worktree -> Listing]
  BY ListingKept
<1> QED
  BY <1>1, DoneTyped DEF TypeInv, TypeOK, Works

LEMMA FixListingTyped ==
    ASSUME StartsTyped, TypeInv, NEW p \in Proc, NEW i \in job[p].issues, FixListing(p, i)
    PROVE  TypeInv'
<1> DEFINE w == Tree[p]
           j == [job[p] EXCEPT !.issues = @ \ {i}, !.rebuild = TRUE]
<1>1. i \in Proper /\ w \in Worktree /\ backlog[w] \in Listing /\ job[p] \in Job
      /\ job[p].issues \subseteq Proper
  BY StateTyped DEF TypeInv, Shape
<1>2. Works /\ UNCHANGED <<tasks, files, sprints, docs>>
  BY DEF FixListing
<1>3. CASE i.kind = "backlog_md_stale_completed" /\ Done(p, i)
           /\ backlog' = [backlog EXCEPT ![w].listed = @ \ {i.on}]
  <2> DEFINE b == [backlog[w] EXCEPT !.listed = @ \ {i.on}]
  <2>1. b \in Listing
    BY <1>1 DEF Listing
  <2>2. backlog' = [backlog EXCEPT ![w] = b]
    BY <1>3
  <2> HIDE DEF b
  <2> QED
    BY <2>1, <2>2, <1>1, <1>2, <1>3, ListingDoneTyped
<1>4. CASE i.kind = "backlog_md_missing_entry" /\ Done(p, i)
           /\ backlog' = [backlog EXCEPT ![w].listed = @ \cup {i.on}]
  <2> DEFINE b == [backlog[w] EXCEPT !.listed = @ \cup {i.on}]
  <2>1. i.on \in Task
    BY <1>1, <1>4 DEF Proper, TaskKind
  <2>2. b \in Listing
    BY <1>1, <2>1 DEF Listing
  <2>3. backlog' = [backlog EXCEPT ![w] = b]
    BY <1>4
  <2> HIDE DEF b
  <2> QED
    BY <2>2, <2>3, <1>1, <1>2, <1>4, ListingDoneTyped
<1>5. CASE Done(p, i) /\ backlog' = [backlog EXCEPT ![w].table = job[p].table]
  <2> DEFINE b == [backlog[w] EXCEPT !.table = job[p].table]
  <2>1. b \in Listing
    BY <1>1 DEF Listing, Job
  <2>2. backlog' = [backlog EXCEPT ![w] = b]
    BY <1>5
  <2> HIDE DEF b
  <2> QED
    BY <2>1, <2>2, <1>1, <1>2, <1>5, ListingDoneTyped
<1>6. CASE UNCHANGED backlog /\ Continue(p, "fix", j)
  <2>1. j \in Job /\ j.issues \subseteq Proper
    BY <1>1 DEF Job
  <2>2. "fix" \in Label \ {"clear", "reread", "save"}
    BY DEF Label
  <2>3. UNCHANGED project
    BY <1>2, <1>6 DEF project
  <2> HIDE DEF j
  <2> QED
    BY <2>1, <2>2, <2>3, <1>2, <1>6, LookTyped
<1> QED
  BY <1>3, <1>4, <1>5, <1>6 DEF FixListing

LEMMA SprintRowKept ==
    ASSUME TypeInv, NEW s \in Sprint, NEW row \in SprintRow
    PROVE  [sprints EXCEPT ![s] = row] \in [Sprint -> SprintRow]
BY DEF TypeInv, TypeOK

LEMMA FixSprintTyped ==
    ASSUME StartsTyped, TypeInv, NEW p \in Proc, NEW i \in job[p].issues, FixSprint(p, i)
    PROVE  TypeInv'
<1> DEFINE s == i.on
           Set(row) == sprints' = IF sprints[s].is THEN [sprints EXCEPT ![s] = row] ELSE sprints
           new == [is |-> TRUE, status |-> i.at, folder |-> i.at, started |-> TRUE,
                   title |-> IF job[p].found[s][i.at] = "titled" THEN "title" ELSE "id",
                   completed |-> i.at = "completed"]
<1>1. i \in Proper
  BY DEF TypeInv, Shape
<1>2. i.kind \in SprintKind
  BY DEF FixSprint, SprintKind
<1>3. s \in Sprint /\ i.at \in SprintPlace /\ i.at \in Loc
  BY <1>1, <1>2, SprintPlaceInLoc DEF Proper
<1>4. sprints[s] \in SprintRow
  BY <1>3 DEF TypeInv, TypeOK
<1>5. /\ new \in SprintRow
      /\ [sprints[s] EXCEPT !.title = "title"] \in SprintRow
      /\ [sprints[s] EXCEPT !.folder = i.at] \in SprintRow
      /\ [sprints[s] EXCEPT !.folder = i.at, !.status = i.at] \in SprintRow
  BY <1>3, <1>4 DEF SprintRow
<1>6. \/ sprints' = IF sprints[s].is THEN sprints ELSE [sprints EXCEPT ![s] = new]
      \/ Set([sprints[s] EXCEPT !.title = "title"])
      \/ Set([sprints[s] EXCEPT !.folder = i.at])
      \/ Set([sprints[s] EXCEPT !.folder = i.at, !.status = i.at])
  BY DEF FixSprint
<1> HIDE DEF new
<1>7. sprints' \in [Sprint -> SprintRow]
  BY <1>3, <1>5, <1>6, SprintRowKept DEF TypeInv, TypeOK
<1>8. Done(p, i) /\ Works /\ UNCHANGED <<tasks, files, backlog, docs>>
  BY DEF FixSprint
<1> QED
  BY <1>7, <1>8, DoneTyped DEF TypeInv, TypeOK, Works

LEMMA FixMetadataTyped ==
    ASSUME StartsTyped, TypeInv, NEW p \in Proc, NEW i \in job[p].issues, FixMetadata(p, i)
    PROVE  TypeInv'
<1> DEFINE s == i.on
           j == [job[p] EXCEPT !.issues = @ \ {i}, !.on = s, !.at = i.at]
<1>1. i \in Proper /\ job[p] \in Job /\ job[p].issues \subseteq Proper
  BY DEF TypeInv, Shape, TypeOK
<1>2. s \in Sprint /\ i.at \in SprintPlace /\ i.at \in Loc
  BY <1>1, SprintPlaceInLoc DEF FixMetadata, SprintKind, Proper
<1>3. Continue(p, "reread", j) /\ Works /\ UNCHANGED <<tasks, files, backlog, docs>>
  BY DEF FixMetadata
<1>4. sprints' \in [Sprint -> SprintRow]
  <2> DEFINE row == [sprints[s] EXCEPT !.title = "title"]
  <2>1. sprints[s] \in SprintRow
    BY <1>2 DEF TypeInv, TypeOK
  <2>2. row \in SprintRow
    BY <2>1 DEF SprintRow
  <2>3. UNCHANGED sprints \/ sprints' = [sprints EXCEPT ![s] = row]
    BY DEF FixMetadata
  <2> HIDE DEF row
  <2> QED
    BY <2>2, <2>3, <1>2, SprintRowKept DEF TypeInv, TypeOK
<1>5. j \in Job /\ j.issues \subseteq Proper /\ j.on = s /\ j.at = i.at
  BY <1>1, <1>2 DEF Job
<1>6. "reread" \in Label
  BY DEF Label
<1> HIDE DEF j
<1>7. /\ Shape'
      /\ pc' \in [Proc -> Label] /\ job' \in [Proc -> Job]
      /\ rounds' \in [Proc -> Nat]
      /\ scene' \in [rounds : [Proc -> Nat], others : SUBSET {"task", "sprint", "rebuild"}]
  BY <1>2, <1>3, <1>5, <1>6, OwnStep
<1> QED
  BY <1>3, <1>4, <1>7 DEF TypeInv, TypeOK, Works

LEMMA FaultsTyped == ASSUME TypeInv, Works \/ Fault PROVE faults' \in Nat
<1>1. faults \in Nat
  BY DEF TypeInv, TypeOK
<1> QED
  BY <1>1 DEF Works, Fault

LEMMA SkipFixTyped ==
    ASSUME StartsTyped, TypeInv, NEW p \in Proc, NEW i \in job[p].issues, SkipFix(p, i)
    PROVE  TypeInv'
<1>1. Done(p, i) /\ Fault /\ UNCHANGED project
  BY DEF SkipFix
<1> QED
  BY <1>1, DoneTyped, FaultsTyped DEF TypeInv, TypeOK, project

LEMMA RereadTyped ==
    ASSUME StartsTyped, TypeInv, NEW p \in Proc, RereadSprint(p)
    PROVE  TypeInv'
<1> DEFINE j == job[p]
           row == [sprints[j.on] EXCEPT !.started = TRUE, !.completed = @ \/ j.at = "completed"]
           saving == [j EXCEPT !.row = row]
           skipping == [j EXCEPT !.on = Nothing, !.at = "stale"]
<1>1. j \in Job /\ j.issues \subseteq Proper /\ j.on \in Sprint /\ j.at \in SprintPlace
      /\ UNCHANGED project
  BY DEF TypeInv, Shape, TypeOK, RereadSprint
<1>2. sprints[j.on] \in SprintRow
  BY <1>1 DEF TypeInv, TypeOK
<1>3. row \in SprintRow
  BY <1>2 DEF SprintRow
<1>4. "fix" \in Label /\ "save" \in Label
  BY DEF Label
<1> HIDE DEF j
<1>5. skipping \in Job /\ skipping.issues \subseteq Proper
  BY <1>1 DEF Job
<1>6. saving \in Job /\ saving.issues \subseteq Proper /\ saving.on \in Sprint
      /\ saving.at \in SprintPlace
  <2> HIDE DEF row
  <2> QED
    BY <1>1, <1>3 DEF Job
<1>7. \/ Works /\ Continue(p, "save", saving)
      \/ Fault /\ Continue(p, "fix", skipping)
  BY DEF RereadSprint, j
<1> HIDE DEF saving, skipping, row
<1>8. /\ Shape'
      /\ pc' \in [Proc -> Label] /\ job' \in [Proc -> Job]
      /\ rounds' \in [Proc -> Nat]
      /\ scene' \in [rounds : [Proc -> Nat], others : SUBSET {"task", "sprint", "rebuild"}]
  <2>1. CASE Continue(p, "save", saving)
    BY <2>1, <1>4, <1>6, OwnStep
  <2>2. CASE Continue(p, "fix", skipping)
    BY <2>2, <1>4, <1>5, OwnStep
  <2> QED
    BY <2>1, <2>2, <1>7
<1>9. faults' \in Nat
  BY <1>7, FaultsTyped
<1> QED
  BY <1>1, <1>8, <1>9 DEF TypeInv, TypeOK, project

LEMMA SaveTyped ==
    ASSUME StartsTyped, TypeInv, NEW p \in Proc, SaveSprint(p)
    PROVE  TypeInv'
<1> DEFINE j == job[p]
           after == [j EXCEPT !.on = Nothing, !.at = "stale", !.row = NoSprintRow]
<1>1. j \in Job /\ j.issues \subseteq Proper /\ j.on \in Sprint
  BY DEF TypeInv, Shape, TypeOK, SaveSprint
<1>2. NoSprintRow \in SprintRow
  BY DEF NoSprintRow, SprintRow, SprintPlace, Loc
<1>3. after \in Job /\ after.issues \subseteq Proper
  BY <1>1, <1>2 DEF Job
<1>4. "fix" \in Label /\ Continue(p, "fix", after) /\ UNCHANGED <<tasks, files, backlog, docs>>
  BY DEF Label, SaveSprint
<1>5. sprints' \in [Sprint -> SprintRow]
  <2>1. j.row \in SprintRow
    BY <1>1 DEF Job
  <2>2. sprints' = [sprints EXCEPT ![j.on] = j.row] \/ UNCHANGED sprints
    BY DEF SaveSprint
  <2> QED
    BY <2>1, <2>2, <1>1, SprintRowKept DEF TypeInv, TypeOK
<1>6. faults' \in Nat
  BY FaultsTyped DEF SaveSprint
<1> HIDE DEF after
<1>7. /\ Shape'
      /\ pc' \in [Proc -> Label] /\ job' \in [Proc -> Job]
      /\ rounds' \in [Proc -> Nat]
      /\ scene' \in [rounds : [Proc -> Nat], others : SUBSET {"task", "sprint", "rebuild"}]
  BY <1>3, <1>4, OwnStep
<1> QED
  BY <1>4, <1>5, <1>6, <1>7 DEF TypeInv, TypeOK

\* What the end of a sync makes of BACKLOG.md: the date and the count only.
LEMMA SummaryRebuilt ==
    ASSUME IsFiniteSet(Task), NEW b \in Listing, NEW x, x = RebuildBacklogSummary(b)
    PROVE  /\ x \in Listing /\ x.dated
           /\ x.listed = b.listed /\ x.heading = b.heading
           /\ x.section = b.section /\ x.table = b.table
<1>1. Cardinality(b.listed) \in Nat
  <2>1. b.listed \subseteq Task
    BY DEF Listing
  <2> QED
    BY <2>1, FS_Subset, FS_CardinalityType
<1>2. PICK n \in Nat : n = IF b.heading = "outstanding" THEN Cardinality(b.listed) ELSE b.count
  BY <1>1 DEF Listing
<1>3. x = [b EXCEPT !.dated = TRUE, !.count = n]
  BY <1>2 DEF RebuildBacklogSummary
<1> QED
  BY <1>3 DEF Listing

LEMMA EndTyped ==
    ASSUME StartsTyped, TypeInv, NEW p \in Proc, EndSync(p)
    PROVE  TypeInv'
<1>1. PICK w : w = Tree[p] /\ w \in Worktree /\ backlog[w] \in Listing
  BY StateTyped
<1>2. PICK b : b = RebuildBacklogSummary(backlog[w])
  OBVIOUS
<1>3. b \in Listing
  BY <1>1, <1>2, SummaryRebuilt DEF StartsTyped
<1>4. backlog' = [backlog EXCEPT ![w] = b] \/ UNCHANGED backlog
  BY <1>1, <1>2 DEF EndSync
<1>5. backlog' \in [Worktree -> Listing]
  BY <1>1, <1>3, <1>4, ListingKept DEF TypeInv, TypeOK
<1>6. /\ pc' = [pc EXCEPT ![p] = "idle"] /\ job' = [job EXCEPT ![p] = NoJob]
      /\ rounds' = [rounds EXCEPT ![p] = @ + 1] /\ UNCHANGED <<tasks, files, sprints, docs, scene, faults>>
  BY DEF EndSync, Works
<1>7. pc' \in [Proc -> Label] /\ job' \in [Proc -> Job] /\ rounds' \in [Proc -> Nat]
  BY <1>6, NoJobTyped DEF TypeInv, TypeOK, Label
<1>8. Shape'
  <2> SUFFICES ASSUME NEW q \in Proc
               PROVE  /\ job'[q].issues \subseteq Proper
                      /\ pc'[q] = "clear" => job'[q].on \in Task
                      /\ pc'[q] \in {"reread", "save"} =>
                            job'[q].on \in Sprint /\ job'[q].at \in SprintPlace
    BY DEF Shape
  <2>1. CASE q = p
    <3>1. job'[q] = NoJob /\ pc'[q] = "idle"
      BY <2>1, <1>6 DEF TypeInv, TypeOK
    <3> QED
      BY <3>1 DEF NoJob
  <2>2. CASE q # p
    BY <2>2, <1>6 DEF TypeInv, TypeOK, Shape
  <2> QED
    BY <2>1, <2>2
<1> QED
  BY <1>5, <1>6, <1>7, <1>8 DEF TypeInv, TypeOK

LEMMA AdvanceTyped ==
    ASSUME StartsTyped, TypeInv, NEW t \in Task, NEW w \in Worktree, NEW l \in Loc,
           Advance(t, w, l)
    PROVE  TypeInv'
<1> DEFINE fm == files[w][t][l].fm
           st == IF fm.status = "todo" THEN "in-progress" ELSE "done"
           to == IF st = "done" /\ l = "tasks" THEN "archive" ELSE l
           row == [tasks[t] EXCEPT !.status = st, !.path = to]
           new == [is |-> "read", fm |-> [fm EXCEPT !.status = st]]
           places == [files[w][t] EXCEPT ![l] = NoFile, ![to] = new]
<1>1. tasks[t] \in Row /\ files[w] \in [Task -> [Loc -> File]] /\ files[w][t] \in [Loc -> File]
      /\ fm \in FM
  BY DEF TypeInv, TypeOK, File
<1>2. st \in Status /\ to \in Loc
  BY DEF Status, Loc
<1> HIDE DEF st, to, fm
<1>3. row \in Row /\ new \in File /\ NoFile \in File
  BY <1>1, <1>2, PlainTyped DEF Row, File, FM, NoFile
<1> HIDE DEF row, new
<1>4. places \in [Loc -> File]
  BY <1>1, <1>3
<1> HIDE DEF places
<1>5. tasks' = [tasks EXCEPT ![t] = row] /\ files' = [files EXCEPT ![w][t] = places]
  BY DEF Advance, row, new, places, st, to, fm
<1>6. tasks' \in [Task -> Row] /\ files' \in [Worktree -> [Task -> [Loc -> File]]]
  BY <1>3, <1>4, <1>5 DEF TypeInv, TypeOK
<1>7. UNCHANGED <<backlog, sprints, docs, pc, job, rounds, faults, scene>>
  BY DEF Advance, Others
<1> QED
  BY <1>6, <1>7 DEF TypeInv, TypeOK, Shape

LEMMA MoveTyped ==
    ASSUME StartsTyped, TypeInv, NEW s \in Sprint, NEW w \in Worktree,
           NEW from \in SprintPlace, MoveSprint(s, w, from)
    PROVE  TypeInv'
<1> DEFINE to == IF from = "backlog" THEN "active" ELSE "completed"
           inside(t) == files[w][t][from].is # "absent"
           here == [t \in Task |->
                      IF inside(t) THEN [files[w][t] EXCEPT ![to] = files[w][t][from],
                                                            ![from] = NoFile]
                      ELSE files[w][t]]
           row == [sprints[s] EXCEPT !.status = to, !.folder = to, !.started = TRUE,
                                     !.completed = to = "completed"]
           places == [docs[w][s] EXCEPT ![to] = docs[w][s][from], ![from] = "absent"]
<1>1. from \in Loc /\ to \in Loc /\ to \in SprintPlace
  BY SprintPlaceInLoc DEF Loc, SprintPlace
<1>2. NoFile \in File
  BY PlainTyped DEF NoFile, File
<1>3. tasks' \in [Task -> Row]
  <2>1. tasks' = [t \in Task |-> IF inside(t) THEN [tasks[t] EXCEPT !.path = to] ELSE tasks[t]]
    BY DEF MoveSprint
  <2> SUFFICES ASSUME NEW t \in Task
               PROVE  (IF inside(t) THEN [tasks[t] EXCEPT !.path = to] ELSE tasks[t]) \in Row
    BY <2>1
  <2>2. tasks[t] \in Row
    BY DEF TypeInv, TypeOK
  <2>3. [tasks[t] EXCEPT !.path = to] \in Row
    BY <2>2, <1>1 DEF Row
  <2> QED
    BY <2>2, <2>3
<1>4. files' \in [Worktree -> [Task -> [Loc -> File]]]
  <2>1. here \in [Task -> [Loc -> File]]
    <3> SUFFICES ASSUME NEW t \in Task
                 PROVE  (IF inside(t) THEN [files[w][t] EXCEPT ![to] = files[w][t][from],
                                                            ![from] = NoFile]
                         ELSE files[w][t]) \in [Loc -> File]
      OBVIOUS
    <3>1. files[w][t] \in [Loc -> File]
      BY DEF TypeInv, TypeOK
    <3> QED
      BY <3>1, <1>1, <1>2
  <2>2. files' = [files EXCEPT ![w] = here]
    BY DEF MoveSprint
  <2> HIDE DEF here
  <2> QED
    BY <2>1, <2>2 DEF TypeInv, TypeOK
<1>5. sprints' \in [Sprint -> SprintRow]
  <2>1. sprints[s] \in SprintRow
    BY DEF TypeInv, TypeOK
  <2>2. row \in SprintRow
    BY <2>1, <1>1 DEF SprintRow
  <2>3. sprints' = [sprints EXCEPT ![s] = row]
    BY DEF MoveSprint
  <2> HIDE DEF row
  <2> QED
    BY <2>2, <2>3, SprintRowKept
<1>6. docs' \in [Worktree -> [Sprint -> [SprintPlace -> Doc]]]
  <2>1. docs[w][s] \in [SprintPlace -> Doc]
    BY DEF TypeInv, TypeOK
  <2>2. places \in [SprintPlace -> Doc]
    BY <2>1, <1>1 DEF Doc
  <2>3. docs' = [docs EXCEPT ![w][s] = places]
    BY DEF MoveSprint
  <2> HIDE DEF places
  <2> QED
    BY <2>2, <2>3 DEF TypeInv, TypeOK
<1>7. UNCHANGED <<backlog, pc, job, rounds, faults, scene>>
  BY DEF MoveSprint, Others
<1> QED
  BY <1>3, <1>4, <1>5, <1>6, <1>7 DEF TypeInv, TypeOK, Shape

LEMMA RebuildTyped ==
    ASSUME StartsTyped, TypeInv, NEW w \in Worktree, NEW include \in BOOLEAN,
           RebuildMD(w, include)
    PROVE  TypeInv'
<1> DEFINE b == [dated |-> TRUE,
                 listed |-> {t \in Task : /\ tasks[t].is
                                    /\ \/ tasks[t].sprint = "" /\ tasks[t].status = "todo"
                                       \/ include /\ tasks[t].status = "in-progress"},
                 heading |-> "plain", count |-> 0, section |-> FALSE, table |-> {}]
<1>1. b \in Listing
  BY DEF Listing
<1>2. backlog' = [backlog EXCEPT ![w] = b]
  BY DEF RebuildMD
<1> HIDE DEF b
<1>3. backlog' \in [Worktree -> Listing]
  BY <1>1, <1>2, ListingKept
<1>4. UNCHANGED <<tasks, files, sprints, docs, pc, job, rounds, faults, scene>>
  BY DEF RebuildMD, Others
<1> QED
  BY <1>3, <1>4 DEF TypeInv, TypeOK, Shape

LEMMA TypedInitially == StartsTyped /\ Init => TypeInv
<1> SUFFICES ASSUME StartsTyped, Init PROVE TypeInv
  OBVIOUS
<1>1. PICK states \in Starts : \E start \in states :
          /\ tasks = start.tasks /\ files = start.files /\ backlog = start.backlog
          /\ sprints = start.sprints /\ docs = start.docs /\ scene = start.scene
  BY DEF Init
<1>2. PICK start \in states :
          /\ tasks = start.tasks /\ files = start.files /\ backlog = start.backlog
          /\ sprints = start.sprints /\ docs = start.docs /\ scene = start.scene
  BY <1>1
<1>3. /\ tasks \in [Task -> Row]
      /\ files \in [Worktree -> [Task -> [Loc -> File]]]
      /\ backlog \in [Worktree -> Listing]
      /\ sprints \in [Sprint -> SprintRow]
      /\ docs \in [Worktree -> [Sprint -> [SprintPlace -> Doc]]]
      /\ scene \in [rounds : [Proc -> Nat], others : SUBSET {"task", "sprint", "rebuild"}]
  BY <1>2 DEF StartsTyped
<1>4. /\ pc = [p \in Proc |-> "idle"] /\ job = [p \in Proc |-> NoJob]
      /\ rounds = [p \in Proc |-> 0] /\ faults = 0
  BY DEF Init
<1>5. pc \in [Proc -> Label] /\ job \in [Proc -> Job]
  BY <1>4, NoJobTyped DEF Label
<1>6. Shape
  BY <1>4 DEF Shape, NoJob
<1> QED
  BY <1>3, <1>4, <1>5, <1>6 DEF TypeInv, TypeOK

LEMMA TypedStep == StartsTyped /\ TypeInv /\ [Next]_vars => TypeInv'
<1> SUFFICES ASSUME StartsTyped, TypeInv, [Next]_vars PROVE TypeInv'
  OBVIOUS
<1>1. ASSUME NEW p \in Proc, BeginSync(p) \/ Step(p) PROVE TypeInv'
  <2>1. CASE BeginSync(p) \/ CheckLocation(p) \/ ReadRows(p) \/ CompareFiles(p)
             \/ CheckListing(p) \/ CheckSummary(p) \/ ReadDocuments(p)
             \/ CompareSprints(p) \/ CheckOrphans(p)
    BY <2>1, BeginTyped, LocationTyped, ReadRowsTyped, CompareTyped, ListingTyped,
       SummaryTyped, DocumentsTyped, SprintsTyped, OrphansTyped
  <2>2. ASSUME NEW i \in job[p].issues,
               FixRow(p, i) \/ FixLocation(p, i) \/ FixListing(p, i)
               \/ FixSprint(p, i) \/ FixMetadata(p, i) \/ SkipFix(p, i)
        PROVE  TypeInv'
    BY <2>2, FixRowTyped, FixLocationTyped, FixListingTyped, FixSprintTyped,
       FixMetadataTyped, SkipFixTyped
  <2>3. CASE ClearSprint(p) \/ RereadSprint(p) \/ SaveSprint(p) \/ EndSync(p)
    BY <2>3, ClearTyped, RereadTyped, SaveTyped, EndTyped
  <2> QED
    BY <1>1, <2>1, <2>2, <2>3 DEF Step
<1>2. ASSUME NEW t \in Task, NEW w \in Worktree, NEW l \in Loc, Advance(t, w, l)
      PROVE  TypeInv'
  BY <1>2, AdvanceTyped
<1>3. ASSUME NEW s \in Sprint, NEW w \in Worktree, NEW l \in SprintPlace, MoveSprint(s, w, l)
      PROVE  TypeInv'
  BY <1>3, MoveTyped
<1>4. ASSUME NEW w \in Worktree, NEW include \in BOOLEAN, RebuildMD(w, include)
      PROVE  TypeInv'
  BY <1>4, RebuildTyped
<1>5. CASE UNCHANGED vars
  BY <1>5 DEF vars, TypeInv, TypeOK, Shape
<1> QED
  BY <1>1, <1>2, <1>3, <1>4, <1>5 DEF Next

\* The variables keep their types, and whatever sync is to repair is about a Task
\* or a Sprint of the project, and about a folder that may hold it.
THEOREM SyncTypeCorrect == StartsTyped => (Spec => [](TypeOK /\ Shape))
<1> SUFFICES ASSUME StartsTyped PROVE Spec => [](TypeOK /\ Shape)
  OBVIOUS
<1> QED
  BY TypedInitially, TypedStep, PTL DEF Spec, TypeInv

-----------------------------------------------------------------------------
(* Nothing but syncs of one worktree, and none of their repairs fails.     *)

\* A Sprint has its SPRINT.md in one place of a worktree.
OneDocument ==
    \A states \in Starts : \A start \in states : \A w \in Worktree, s \in Sprint :
       \A l, m \in SprintPlace :
          start.docs[w][s][l] # "absent" /\ start.docs[w][s][m] # "absent" => l = m

Undisturbed == scene.others = {} /\ OneTree /\ faults = 0

Here(w, t, l) == files[w][t][l].is # "absent"
Said(w, t, l) == files[w][t][l].fm.status

\* The file of t that counts; the row of t, if there is one, is not ahead of st.
Last(w, t, l) == Here(w, t, l) /\ \A m \in Loc : Here(w, t, m) => Order[m] <= Order[l]
Within(t, st) == tasks[t].is => taskStatusRank(tasks[t].status) <= taskStatusRank(st)

\* The row of s says what SPRINT.md at l says, or is ahead of it.
Settled(s, l) ==
    sprints[s].is /\ (sprints[s].status = l \/ isSprintStatusRegression(sprints[s].status, l))

TaskClaim(w, i) ==
    /\ i.kind \in {"db_missing_task", "db_status_mismatch", "completed_anomaly"} =>
          Last(w, i.on, i.at) /\ i.fm.status = Said(w, i.on, i.at)
    /\ i.kind = "db_status_mismatch" => Within(i.on, i.fm.status)
    /\ i.kind = "completed_anomaly" => i.fm.status = "done"

SprintClaim(w, I, i) ==
    /\ i.kind \in SprintKind => docs[w][i.on][i.at] # "absent"
    /\ i.kind = "db_sprint_status_file_absent" =>
          sprints[i.on].is /\ ~isSprintStatusRegression(sprints[i.on].status, i.at)
    /\ i.kind = "db_sprint_metadata_stale" =>
          \/ Settled(i.on, i.at)
          \/ Issue("db_sprint_status_file_absent", i.on, i.at, Plain) \in I

\* What a sync of worktree w with the local variables j knows at label c.
Claims(c, j, w) ==
    /\ c = "idle" => j.issues = {}
    /\ c # "idle" => j.seen = {e \in Task \X Loc : Here(w, e[1], e[2])}
    /\ \A i \in j.issues : TaskClaim(w, i) /\ SprintClaim(w, j.issues, i)
    /\ c = "compare" =>
          \A t \in Task, l \in Loc :
             /\ Last(w, t, l) /\ j.rows[t].is
             /\ taskStatusRank(j.rows[t].status) <= taskStatusRank(Said(w, t, l))
             => Within(t, Said(w, t, l))
    /\ c = "sprints" => j.found = docs[w]
    /\ c \in {"reread", "save"} => docs[w][j.on][j.at] # "absent" /\ Settled(j.on, j.at)
    /\ c = "save" => j.row.is /\ j.row.status = sprints[j.on].status

OneDoc == \A w \in Worktree, s \in Sprint : \A l, m \in SprintPlace :
             docs[w][s][l] # "absent" /\ docs[w][s][m] # "absent" => l = m

SyncInv ==
    Undisturbed =>
        /\ OneDoc
        /\ \A p \in Proc :
              /\ p \notin Runs => pc[p] = "idle"
              /\ \A c \in {pc[p]}, j \in {job[p]} : Claims(c, j, Tree[p])

\* What a step of a sync of w does at most: it moves the row of a Task to what the
\* file says, and the row of a Sprint to where SPRINT.md is, never backwards.
Gentle(w) ==
    /\ \A v \in Worktree, t \in Task, l \in Loc :
          /\ files'[v][t][l].is = files[v][t][l].is
          /\ files'[v][t][l].fm.status = files[v][t][l].fm.status
    /\ docs' = docs
    /\ \A t \in Task : tasks'[t].is =>
          \/ tasks[t].is /\ tasks'[t].status = tasks[t].status
          \/ \E l \in Loc : /\ Last(w, t, l) /\ tasks'[t].status = Said(w, t, l)
                            /\ Within(t, Said(w, t, l))
    /\ \A s \in Sprint :
          /\ sprints[s].is => sprints'[s].is
          /\ sprints'[s].is =>
                \/ sprints[s].is /\ sprints'[s].status = sprints[s].status
                \/ \E l \in SprintPlace :
                      /\ docs[w][s][l] # "absent" /\ sprints'[s].status = l
                      /\ sprints[s].is => ~isSprintStatusRegression(sprints[s].status, l)

LEMMA OrderInjective ==
    ASSUME NEW l \in Loc, NEW m \in Loc, Order[l] <= Order[m], Order[m] <= Order[l]
    PROVE  l = m
BY DEF Loc, Order

LEMMA LastUnique ==
    ASSUME NEW w, NEW t, NEW l \in Loc, NEW m \in Loc, Last(w, t, l), Last(w, t, m)
    PROVE  l = m
BY OrderInjective DEF Last

LEMMA TaskRanks ==
    ASSUME NEW st \in Status
    PROVE  taskStatusRank(st) \in 0..2 /\ (taskStatusRank(st) = 2 => st = "done")
BY DEF Status, taskStatusRank

LEMMA TaskRankInjective ==
    ASSUME NEW st \in Status, NEW u \in Status, taskStatusRank(st) = taskStatusRank(u)
    PROVE  st = u
BY DEF Status, taskStatusRank

LEMMA RegressionIrreflexive == \A l \in SprintPlace : ~isSprintStatusRegression(l, l)
BY DEF SprintPlace, isSprintStatusRegression, sprintStatusRank

LEMMA FileKept ==
    ASSUME NEW w \in Worktree, Gentle(w), NEW v \in Worktree, NEW t \in Task, NEW l \in Loc
    PROVE  /\ Here(v, t, l)' <=> Here(v, t, l)
           /\ Last(v, t, l)' <=> Last(v, t, l)
           /\ Said(v, t, l)' = Said(v, t, l)
<1>1. \A m \in Loc : Here(v, t, m)' <=> Here(v, t, m)
  BY DEF Gentle, Here
<1>2. Said(v, t, l)' = Said(v, t, l)
  BY DEF Gentle, Said
<1>3. Last(v, t, l)' <=> Last(v, t, l)
  BY <1>1 DEF Last
<1> QED
  BY <1>1, <1>2, <1>3

LEMMA SaidTyped ==
    ASSUME TypeInv, NEW w \in Worktree, NEW t \in Task, NEW l \in Loc
    PROVE  Said(w, t, l) \in Status
<1>1. files[w][t][l] \in File
  BY DEF TypeInv, TypeOK
<1> QED
  BY <1>1 DEF Said, File, FM

LEMMA WithinKept ==
    ASSUME TypeInv, NEW w \in Worktree, Gentle(w), NEW t \in Task, NEW l \in Loc,
           Last(w, t, l), NEW st \in Status, st = Said(w, t, l), Within(t, st)
    PROVE  Within(t, st)'
<1> SUFFICES ASSUME tasks'[t].is
             PROVE  taskStatusRank(tasks'[t].status) <= taskStatusRank(st)
  BY DEF Within
<1>1. CASE tasks[t].is /\ tasks'[t].status = tasks[t].status
  BY <1>1 DEF Within
<1>2. ASSUME NEW m \in Loc, Last(w, t, m), tasks'[t].status = Said(w, t, m)
      PROVE  taskStatusRank(tasks'[t].status) <= taskStatusRank(st)
  <2>1. m = l
    BY <1>2, LastUnique
  <2>2. taskStatusRank(st) \in 0..2
    BY TaskRanks
  <2> QED
    BY <1>2, <2>1, <2>2
<1> QED
  BY <1>1, <1>2 DEF Gentle

LEMMA SettledKept ==
    ASSUME OneDoc, NEW w \in Worktree, Gentle(w), NEW s \in Sprint, NEW l \in SprintPlace,
           docs[w][s][l] # "absent", Settled(s, l)
    PROVE  Settled(s, l)' /\ sprints'[s].status = sprints[s].status
<1>1. sprints[s].is /\ sprints'[s].is
  BY DEF Settled, Gentle
<1>2. sprints'[s].status = sprints[s].status
  <2>1. ASSUME NEW m \in SprintPlace, docs[w][s][m] # "absent", sprints'[s].status = m,
               ~isSprintStatusRegression(sprints[s].status, m)
        PROVE  sprints'[s].status = sprints[s].status
    <3>1. m = l
      BY <2>1 DEF OneDoc
    <3> QED
      BY <3>1, <2>1 DEF Settled
  <2> QED
    BY <1>1, <2>1 DEF Gentle
<1> QED
  BY <1>1, <1>2 DEF Settled

LEMMA ForwardKept ==
    ASSUME OneDoc, NEW w \in Worktree, Gentle(w), NEW s \in Sprint, NEW l \in SprintPlace,
           docs[w][s][l] # "absent", sprints[s].is,
           ~isSprintStatusRegression(sprints[s].status, l)
    PROVE  sprints'[s].is /\ ~isSprintStatusRegression(sprints'[s].status, l)
<1>1. sprints'[s].is
  BY DEF Gentle
<1>2. ASSUME NEW m \in SprintPlace, docs[w][s][m] # "absent", sprints'[s].status = m
      PROVE  ~isSprintStatusRegression(sprints'[s].status, l)
  <2>1. m = l
    BY <1>2 DEF OneDoc
  <2> QED
    BY <2>1, <1>2, RegressionIrreflexive
<1> QED
  BY <1>1, <1>2 DEF Gentle

LEMMA TaskClaimKept ==
    ASSUME TypeInv, NEW w \in Worktree, Gentle(w), NEW i \in Proper, TaskClaim(w, i)
    PROVE  TaskClaim(w, i)'
<1> DEFINE K == {"db_missing_task", "db_status_mismatch", "completed_anomaly"}
<1>1. CASE i.kind \in K
  <2>1. i.on \in Task /\ i.at \in Loc /\ i.fm.status \in Status
    BY <1>1 DEF Proper, TaskKind, FileKind, Issues, FM
  <2>2. Last(w, i.on, i.at) /\ i.fm.status = Said(w, i.on, i.at)
    BY <1>1 DEF TaskClaim
  <2>3. /\ Last(w, i.on, i.at)' <=> Last(w, i.on, i.at)
        /\ Said(w, i.on, i.at)' = Said(w, i.on, i.at)
    BY <2>1, FileKept
  <2>4. i.kind = "db_status_mismatch" => Within(i.on, i.fm.status)'
    BY <2>1, <2>2, WithinKept DEF TaskClaim
  <2> QED
    BY <2>2, <2>3, <2>4 DEF TaskClaim
<1>2. CASE i.kind \notin K
  BY <1>2 DEF TaskClaim
<1> QED
  BY <1>1, <1>2

LEMMA SprintClaimKept ==
    ASSUME TypeInv, OneDoc, NEW w \in Worktree, Gentle(w), NEW I, NEW i \in Proper,
           SprintClaim(w, I, i)
    PROVE  SprintClaim(w, I, i)'
<1>1. CASE i.kind \in SprintKind
  <2>1. i.on \in Sprint /\ i.at \in SprintPlace /\ docs[w][i.on][i.at] # "absent"
    BY <1>1 DEF Proper, SprintClaim
  <2>2. docs' = docs
    BY DEF Gentle
  <2>3. CASE i.kind = "db_sprint_status_file_absent"
    <3>1. sprints[i.on].is /\ ~isSprintStatusRegression(sprints[i.on].status, i.at)
      BY <2>3 DEF SprintClaim
    <3>2. sprints'[i.on].is /\ ~isSprintStatusRegression(sprints'[i.on].status, i.at)
      BY <3>1, <2>1, ForwardKept
    <3> QED
      BY <3>2, <2>1, <2>2, <2>3 DEF SprintClaim
  <2>4. CASE i.kind = "db_sprint_metadata_stale"
    <3>1. Settled(i.on, i.at) => Settled(i.on, i.at)'
      BY <2>1, SettledKept
    <3> QED
      BY <3>1, <2>1, <2>2, <2>4 DEF SprintClaim
  <2> QED
    BY <2>1, <2>2, <2>3, <2>4 DEF SprintClaim
<1>2. CASE i.kind \notin SprintKind
  BY <1>2 DEF SprintClaim, SprintKind
<1> QED
  BY <1>1, <1>2

\* What a sync knows stays true whatever the others do meanwhile.
LEMMA ClaimsKept ==
    ASSUME TypeInv, OneDoc, NEW w \in Worktree, Gentle(w), NEW c, NEW j \in Job,
           j.issues \subseteq Proper,
           c \in {"reread", "save"} => j.on \in Sprint /\ j.at \in SprintPlace,
           Claims(c, j, w)
    PROVE  Claims(c, j, w)'
<1>1. c = "idle" => j.issues = {}
  BY DEF Claims
<1>2. c # "idle" => j.seen = {e \in Task \X Loc : Here(w, e[1], e[2])'}
  <2>1. \A e \in Task \X Loc : Here(w, e[1], e[2])' <=> Here(w, e[1], e[2])
    BY FileKept
  <2> QED
    BY <2>1 DEF Claims
<1>3. \A i \in j.issues : TaskClaim(w, i)' /\ SprintClaim(w, j.issues, i)'
  BY TaskClaimKept, SprintClaimKept DEF Claims
<1>4. ASSUME c = "compare", NEW t \in Task, NEW l \in Loc, Last(w, t, l)', j.rows[t].is,
             taskStatusRank(j.rows[t].status) <= taskStatusRank(Said(w, t, l)')
      PROVE  Within(t, Said(w, t, l))'
  <2>1. Last(w, t, l) /\ Said(w, t, l)' = Said(w, t, l)
    BY <1>4, FileKept
  <2>2. PICK st \in Status : st = Said(w, t, l)
    BY SaidTyped
  <2>3. Within(t, st)
    BY <1>4, <2>1, <2>2 DEF Claims
  <2>4. Within(t, st)'
    BY <2>1, <2>2, <2>3, WithinKept
  <2> QED
    BY <2>1, <2>2, <2>4 DEF Within
<1>5. c = "sprints" => j.found = docs'[w]
  BY DEF Claims, Gentle
<1>6. c \in {"reread", "save"} =>
        /\ docs'[w][j.on][j.at] # "absent" /\ Settled(j.on, j.at)'
        /\ sprints'[j.on].status = sprints[j.on].status
  BY SettledKept DEF Claims, Gentle
<1>7. c = "save" => j.row.is /\ j.row.status = sprints'[j.on].status
  BY <1>6 DEF Claims
<1> QED
  BY <1>1, <1>2, <1>3, <1>4, <1>5, <1>6, <1>7 DEF Claims

-----------------------------------------------------------------------------
(* The checks keep what is claimed.                                        *)

Calm == {"rows", "listing", "summary", "documents", "orphans", "fix"}

LEMMA StandstillGentle ==
    ASSUME TypeInv, UNCHANGED project, NEW w PROVE Gentle(w)
<1>1. \A t \in Task : tasks'[t].is => tasks[t].is /\ tasks'[t].status = tasks[t].status
  BY DEF project
<1>2. \A s \in Sprint : sprints'[s].is => sprints[s].is /\ sprints'[s].status = sprints[s].status
  BY DEF project
<1> QED
  BY <1>1, <1>2 DEF Gentle, project

\* New repairs with their claims join what is claimed already.
LEMMA MoreClaims ==
    ASSUME NEW j \in Job, NEW w, NEW c, c # "idle", Claims(c, j, w), NEW I \in SUBSET Proper,
           \A i \in I : TaskClaim(w, i) /\ SprintClaim(w, I, i),
           NEW b \in BOOLEAN, NEW d \in Calm
    PROVE  Claims(d, [j EXCEPT !.issues = @ \cup I, !.manual = @ \/ b], w)
<1> DEFINE k == [j EXCEPT !.issues = @ \cup I, !.manual = @ \/ b]
<1>1. k.issues = j.issues \cup I /\ k.seen = j.seen
  BY DEF Job
<1> HIDE DEF k
<1>2. ASSUME NEW i \in k.issues
      PROVE  TaskClaim(w, i) /\ SprintClaim(w, k.issues, i)
  <2>1. CASE i \in I
    BY <2>1, <1>1 DEF SprintClaim
  <2>2. CASE i \in j.issues
    BY <2>2, <1>1 DEF Claims, SprintClaim
  <2> QED
    BY <2>1, <2>2, <1>1
<1>3. d \notin {"idle", "compare", "sprints", "reread", "save"}
  BY DEF Calm
<1>4. Claims(d, k, w)
  BY <1>1, <1>2, <1>3 DEF Claims
<1> QED
  BY <1>4 DEF k

LEMMA ReportClaims ==
    ASSUME StartsTyped, TypeInv, NEW p \in Proc, NEW w, NEW c, NEW j, c = pc[p], j = job[p],
           c # "idle", Claims(c, j, w), NEW I \in SUBSET Proper,
           \A i \in I : TaskClaim(w, i) /\ SprintClaim(w, I, i),
           NEW b \in BOOLEAN, NEW d \in Calm, Report(p, d, I, b)
    PROVE  \E e, k : pc'[p] = e /\ job'[p] = k /\ Claims(e, k, w)
<1>1. j \in Job
  BY StateTyped
<1> DEFINE k == [j EXCEPT !.issues = @ \cup I, !.manual = @ \/ b]
<1>2. Claims(d, k, w)
  BY <1>1, MoreClaims
<1>3. pc'[p] = d /\ job'[p] = k
  BY DEF Report, Continue, TypeInv, TypeOK
<1> HIDE DEF k
<1> QED
  BY <1>2, <1>3

\* Repairs about nothing that is claimed of.
Harmless == {"location_frontmatter_mismatch", "db_sprint_mismatch", "db_file_path_mismatch",
             "backlog_md_stale_completed", "backlog_md_missing_entry", "db_orphan_task",
             "backlog_summary_stale_timestamp", "backlog_summary_count_mismatch",
             "backlog_summary_sprint_table_stale"}

LEMMA HarmlessClaims ==
    ASSUME NEW i, i.kind \in Harmless, NEW w, NEW I
    PROVE  TaskClaim(w, i) /\ SprintClaim(w, I, i)
BY DEF Harmless, TaskClaim, SprintClaim, SprintKind

LEMMA BeginClaims ==
    ASSUME StartsTyped, TypeInv, NEW p \in Proc, NEW w, w = Tree[p], BeginSync(p)
    PROVE  \E e, k : pc'[p] = e /\ job'[p] = k /\ Claims(e, k, w)
<1> DEFINE k == [NoJob EXCEPT !.seen =
                   {e \in Task \X Loc : TaskFile(p, e[1], e[2]).is # "absent"}]
<1>1. pc'[p] = "location" /\ job'[p] = k
  BY DEF BeginSync, Continue, TypeInv, TypeOK
<1>2. k.issues = {} /\ k.seen = {e \in Task \X Loc : Here(w, e[1], e[2])}
  BY DEF NoJob, TaskFile, Here
<1> HIDE DEF k
<1>3. Claims("location", k, w)
  BY <1>2 DEF Claims
<1> QED
  BY <1>1, <1>3

LEMMA LocationClaims ==
    ASSUME StartsTyped, TypeInv, NEW p \in Proc, NEW w, NEW c, NEW j, c = pc[p], j = job[p],
           Claims(c, j, w), CheckLocation(p)
    PROVE  \E e, k : pc'[p] = e /\ job'[p] = k /\ Claims(e, k, w)
<1>1. c # "idle" /\ "rows" \in Calm
  BY LocationReports DEF Calm
<1>2. \A i \in LocationFinds(p) : i.kind \in Harmless
  BY DEF LocationFinds, Harmless, Issue
<1>3. \A i \in LocationFinds(p) : TaskClaim(w, i) /\ SprintClaim(w, LocationFinds(p), i)
  BY <1>2, HarmlessClaims
<1> QED
  BY <1>1, <1>3, LocationReports, LocationFindsProper, ReportClaims, Zenon

LEMMA ReadRowsClaims ==
    ASSUME StartsTyped, TypeInv, NEW p \in Proc, NEW w \in Worktree, NEW c, NEW j, c = pc[p],
           j = job[p], Claims(c, j, w), ReadRows(p)
    PROVE  \E e, k : pc'[p] = e /\ job'[p] = k /\ Claims(e, k, w)
<1> DEFINE k == [j EXCEPT !.rows = tasks]
<1>1. pc'[p] = "compare" /\ job'[p] = k /\ c # "idle"
  BY DEF ReadRows, Continue, TypeInv, TypeOK
<1>2. j \in Job
  BY StateTyped
<1>3. k.issues = j.issues /\ k.seen = j.seen /\ k.rows = tasks
  BY <1>2 DEF Job
<1> HIDE DEF k
<1>4. \A st : \A t \in Task :
         /\ k.rows[t].is
         /\ taskStatusRank(k.rows[t].status) <= taskStatusRank(st)
         => Within(t, st)
  BY <1>3 DEF Within
<1>5. Claims("compare", k, w)
  BY <1>1, <1>3, <1>4 DEF Claims
<1> QED
  BY <1>1, <1>5

\* The file that counts for this sync is the one that counts in its worktree.
LEMMA LastSeenIsLast ==
    ASSUME StartsTyped, TypeInv, NEW p \in Proc, pc[p] # "idle",
           job[p].seen = {e \in Task \X Loc : Here(Tree[p], e[1], e[2])},
           NEW t \in Task, NEW l \in Loc
    PROVE  LastSeen(p, t, l) <=> Last(Tree[p], t, l)
<1>1. \A m \in Loc : <<t, m>> \in job[p].seen <=> Here(Tree[p], t, m)
  <2> SUFFICES ASSUME NEW m \in Loc
               PROVE  <<t, m>> \in job[p].seen <=> Here(Tree[p], t, m)
    OBVIOUS
  <2>1. <<t, m>> \in Task \X Loc /\ <<t, m>>[1] = t /\ <<t, m>>[2] = m
    OBVIOUS
  <2> QED
    BY <2>1
<1> QED
  BY <1>1 DEF LastSeen, Last

LEMMA CompareClaims ==
    ASSUME StartsTyped, TypeInv, NEW p \in Proc, NEW w, w = Tree[p], NEW c, NEW j, c = pc[p],
           j = job[p], Claims(c, j, w), CompareFiles(p)
    PROVE  \E e, k : pc'[p] = e /\ job'[p] = k /\ Claims(e, k, w)
<1>1. c = "compare" /\ c # "idle" /\ "listing" \in Calm
  BY CompareReports DEF Calm
<1>2. ASSUME NEW e \in LastOf(p)
      PROVE  /\ Last(w, e[1], e[2]) /\ TaskFile(p, e[1], e[2]).fm.status = Said(w, e[1], e[2])
             /\ e[1] \in Task /\ e[2] \in Loc
  <2>1. LastSeen(p, e[1], e[2]) /\ e[1] \in Task /\ e[2] \in Loc
    BY <1>2, LastTyped DEF LastOf
  <2>2. Last(w, e[1], e[2])
    BY <2>1, <1>1, LastSeenIsLast DEF Claims
  <2> QED
    BY <2>1, <2>2 DEF TaskFile, Said
<1>3. ASSUME NEW e \in LastOf(p)
      PROVE  TaskClaim(w, NewRow(p, e)) /\ SprintClaim(w, CompareFinds(p), NewRow(p, e))
  <2>1. TaskFile(p, e[1], e[2]).fm \in FM
    BY LastTyped
  <2>2. /\ NewRow(p, e).kind = "db_missing_task" /\ NewRow(p, e).on = e[1]
        /\ NewRow(p, e).at = e[2]
        /\ NewRow(p, e).fm.status = TaskFile(p, e[1], e[2]).fm.status
    BY <2>1 DEF NewRow, Issue, FM
  <2> QED
    BY <2>2, <1>2 DEF TaskClaim, SprintClaim, SprintKind
<1>4. ASSUME NEW e \in KnownOf(p), NEW i \in FileFinds(p, e)
      PROVE  TaskClaim(w, i) /\ SprintClaim(w, CompareFinds(p), i)
  <2> DEFINE row == j.rows[e[1]]
             fm == TaskFile(p, e[1], e[2]).fm
  <2>1. e \in LastOf(p) /\ row.is
    BY DEF KnownOf
  <2>2. fm \in FM /\ row \in Row /\ fm.status \in Status /\ row.status \in Status
    BY <2>1, LastTyped DEF FM, Row
  <2>3. Last(w, e[1], e[2]) /\ fm.status = Said(w, e[1], e[2]) /\ e[1] \in Task /\ e[2] \in Loc
    BY <2>1, <1>2
  <2>4. CASE i \in StatusIssue(row, e[1], e[2], fm)
    <3>1. CASE i = Issue("completed_anomaly", e[1], e[2], fm) /\ fm.status = "done"
      BY <3>1, <2>3 DEF Issue, TaskClaim, SprintClaim, SprintKind
    <3>2. CASE i = Issue("db_status_mismatch", e[1], e[2], fm)
               /\ ~isTaskStatusRegression(row.status, fm.status)
      <4>1. taskStatusRank(row.status) <= taskStatusRank(fm.status)
        BY <3>2, <2>2, TaskRanks DEF isTaskStatusRegression
      <4>2. Within(e[1], fm.status)
        BY <4>1, <2>1, <2>3, <1>1 DEF Claims
      <4>3. i.kind = "db_status_mismatch" /\ i.on = e[1] /\ i.at = e[2] /\ i.fm = fm
        BY <3>2 DEF Issue
      <4> QED
        BY <4>2, <4>3, <2>3 DEF TaskClaim, SprintClaim, SprintKind
    <3> QED
      BY <2>4, <3>1, <3>2 DEF StatusIssue
  <2>5. CASE i \in SprintIssue(row, e[1], e[2], fm) \cup PathIssue(row, e[1], e[2], fm)
    <3>1. \E f : i = Issue("db_sprint_mismatch", e[1], e[2], f)
                \/ i = Issue("db_file_path_mismatch", e[1], e[2], f)
      <4>1. CASE i \in SprintIssue(row, e[1], e[2], fm)
        BY <4>1 DEF SprintIssue
      <4>2. CASE i \in PathIssue(row, e[1], e[2], fm)
        BY <4>2 DEF PathIssue
      <4> QED
        BY <4>1, <4>2, <2>5
    <3>2. i.kind \in Harmless
      BY <3>1 DEF Issue, Harmless
    <3> QED
      BY <3>2, HarmlessClaims
  <2> QED
    BY <2>4, <2>5 DEF FileFinds
<1>5. \A i \in CompareFinds(p) : TaskClaim(w, i) /\ SprintClaim(w, CompareFinds(p), i)
  BY <1>3, <1>4 DEF CompareFinds
<1>6. Report(p, "listing", CompareFinds(p), CompareManual(p))
  BY CompareReports
<1>7. c # "idle" /\ "listing" \in Calm
  BY <1>1
<1>8. CompareFinds(p) \in SUBSET Proper /\ CompareManual(p) \in BOOLEAN
  BY CompareFindsProper
<1> QED
  BY <1>5, <1>6, <1>7, <1>8, ReportClaims, ZenonT(60)

LEMMA ListingClaims ==
    ASSUME StartsTyped, TypeInv, NEW p \in Proc, NEW w, NEW c, NEW j, c = pc[p], j = job[p],
           Claims(c, j, w), CheckListing(p)
    PROVE  \E e, k : pc'[p] = e /\ job'[p] = k /\ Claims(e, k, w)
<1>1. c # "idle" /\ "summary" \in Calm
  BY ListingReports DEF Calm
<1>2. \A i \in ListingFinds(p) : i.kind \in Harmless
  BY DEF ListingFinds, Harmless, Issue
<1>3. \A i \in ListingFinds(p) : TaskClaim(w, i) /\ SprintClaim(w, ListingFinds(p), i)
  BY <1>2, HarmlessClaims
<1> QED
  BY <1>1, <1>3, ListingReports, ListingFindsProper, ReportClaims, Zenon

LEMMA SummaryClaims ==
    ASSUME StartsTyped, TypeInv, NEW p \in Proc, NEW w, NEW c, NEW j, c = pc[p], j = job[p],
           Claims(c, j, w), CheckSummary(p)
    PROVE  \E e, k : pc'[p] = e /\ job'[p] = k /\ Claims(e, k, w)
<1> DEFINE m == [j EXCEPT !.table = TableOf]
           k == [j EXCEPT !.table = TableOf, !.issues = @ \cup SummaryFinds(p)]
           n == [m EXCEPT !.issues = @ \cup SummaryFinds(p), !.manual = @ \/ FALSE]
<1>1. pc'[p] = "documents" /\ job'[p] = k /\ c = "summary"
  BY SummaryReports, ZenonT(60) DEF Continue, TypeInv, TypeOK
<1>2. j \in Job /\ k.issues = j.issues \cup SummaryFinds(p) /\ k.seen = j.seen
  BY StateTyped DEF Job
<1> HIDE DEF k
<1>3. \A i \in SummaryFinds(p) : i.kind \in Harmless
  BY DEF SummaryFinds, Harmless, Issue
<1>4. ASSUME NEW i \in k.issues PROVE TaskClaim(w, i) /\ SprintClaim(w, k.issues, i)
  <2>1. CASE i \in SummaryFinds(p)
    BY <2>1, <1>3, HarmlessClaims
  <2>2. CASE i \in j.issues
    BY <2>2, <1>2 DEF Claims, SprintClaim
  <2> QED
    BY <2>1, <2>2, <1>2
<1>5. Claims("documents", k, w)
  BY <1>1, <1>2, <1>4 DEF Claims
<1> QED
  BY <1>1, <1>5

LEMMA DocumentsClaims ==
    ASSUME StartsTyped, TypeInv, NEW p \in Proc, NEW w, w = Tree[p], NEW c, NEW j, c = pc[p],
           j = job[p], Claims(c, j, w), ReadDocuments(p)
    PROVE  \E e, k : pc'[p] = e /\ job'[p] = k /\ Claims(e, k, w)
<1> DEFINE k == [j EXCEPT !.found = docs[w]]
<1>1. pc'[p] = "sprints" /\ job'[p] = k /\ c = "documents"
  BY DEF ReadDocuments, Continue, TypeInv, TypeOK
<1>2. k.issues = j.issues /\ k.seen = j.seen /\ k.found = docs[w]
  BY StateTyped DEF Job
<1> HIDE DEF k
<1>3. Claims("sprints", k, w)
  BY <1>1, <1>2 DEF Claims
<1> QED
  BY <1>1, <1>3

LEMMA SprintsClaims ==
    ASSUME StartsTyped, TypeInv, NEW p \in Proc, NEW w, NEW c, NEW j, c = pc[p],
           j = job[p], Claims(c, j, w), CompareSprints(p)
    PROVE  \E e, k : pc'[p] = e /\ job'[p] = k /\ Claims(e, k, w)
<1>1. c = "sprints" /\ c # "idle" /\ "orphans" \in Calm
  BY SprintsReport DEF Calm
<1>2. job[p].found = docs[w]
  BY <1>1 DEF Claims
<1>3. ASSUME NEW e \in DocumentsOf(p), NEW d,
             NEW i \in SprintIssues(e[1], e[2], d), SprintIssues(e[1], e[2], d) \subseteq SprintsFind(p)
      PROVE  TaskClaim(w, i) /\ SprintClaim(w, SprintsFind(p), i)
  <2>1. i.kind \in SprintKind /\ i.on = e[1] /\ i.at = e[2] /\ i = Issue(i.kind, e[1], e[2], Plain)
    BY <1>3 DEF SprintIssues, Issue, SprintKind
  <2>2. docs[w][e[1]][e[2]] # "absent"
    BY <1>2 DEF DocumentsOf
  <2>3. TaskClaim(w, i)
    BY <2>1 DEF TaskClaim, SprintKind
  <2>4. CASE i.kind = "db_sprint_status_file_absent"
    <3>1. sprints[e[1]].is /\ ~isSprintStatusRegression(sprints[e[1]].status, e[2])
      BY <1>3, <2>1, <2>4 DEF SprintIssues, Issue
    <3> QED
      BY <3>1, <2>1, <2>2, <2>3, <2>4 DEF SprintClaim
  <2>5. CASE i.kind = "db_sprint_metadata_stale"
    <3>1. sprints[e[1]].is
      BY <1>3, <2>1, <2>5 DEF SprintIssues, Issue
    <3>2. CASE sprints[e[1]].status = e[2] \/ isSprintStatusRegression(sprints[e[1]].status, e[2])
      BY <3>1, <3>2, <2>1, <2>2, <2>3, <2>5 DEF SprintClaim, Settled
    <3>3. CASE sprints[e[1]].status # e[2] /\ ~isSprintStatusRegression(sprints[e[1]].status, e[2])
      <4>1. Issue("db_sprint_status_file_absent", e[1], e[2], Plain) \in SprintIssues(e[1], e[2], d)
        BY <3>1, <3>3 DEF SprintIssues, Kind
      <4> QED
        BY <4>1, <1>3, <2>1, <2>2, <2>3, <2>5 DEF SprintClaim
    <3> QED
      BY <3>2, <3>3
  <2>6. CASE i.kind \notin {"db_sprint_status_file_absent", "db_sprint_metadata_stale"}
    BY <2>6, <2>1, <2>2, <2>3 DEF SprintClaim
  <2> QED
    BY <2>4, <2>5, <2>6
<1>4. \A i \in SprintsFind(p) : TaskClaim(w, i) /\ SprintClaim(w, SprintsFind(p), i)
  <2> SUFFICES ASSUME NEW i \in SprintsFind(p)
               PROVE  TaskClaim(w, i) /\ SprintClaim(w, SprintsFind(p), i)
    OBVIOUS
  <2>1. PICK e \in DocumentsOf(p) : i \in SprintIssues(e[1], e[2], job[p].found[e[1]][e[2]])
    BY DEF SprintsFind
  <2>2. SprintIssues(e[1], e[2], job[p].found[e[1]][e[2]]) \subseteq SprintsFind(p)
    BY DEF SprintsFind
  <2> QED
    BY <1>3, <2>1, <2>2
<1> QED
  BY <1>1, <1>4, SprintsReport, SprintsFindProper, ReportClaims, Zenon

LEMMA OrphansClaims ==
    ASSUME StartsTyped, TypeInv, NEW p \in Proc, NEW w, NEW c, NEW j, c = pc[p], j = job[p],
           Claims(c, j, w), CheckOrphans(p)
    PROVE  \E e, k : pc'[p] = e /\ job'[p] = k /\ Claims(e, k, w)
<1>1. c # "idle" /\ "fix" \in Calm
  BY OrphansReport DEF Calm
<1>2. \A i \in OrphansFound(p) : i.kind \in Harmless
  BY DEF OrphansFound, Harmless, Issue
<1>3. \A i \in OrphansFound(p) : TaskClaim(w, i) /\ SprintClaim(w, OrphansFound(p), i)
  BY <1>2, HarmlessClaims
<1> QED
  BY <1>1, <1>3, OrphansReport, OrphansProper, ReportClaims, Zenon

-----------------------------------------------------------------------------
(* The repairs are gentle, and leave the claims on those still to make.     *)

LEMMA ClaimsDropped ==
    ASSUME NEW j, NEW k, NEW w, NEW i, NEW d \in {"fix", "clear"}, Claims("fix", j, w)',
           k.issues = j.issues \ {i}, k.seen = j.seen,
           i.kind = "db_sprint_status_file_absent" => Settled(i.on, i.at)'
    PROVE  Claims(d, k, w)'
<1>1. ASSUME NEW m \in k.issues PROVE TaskClaim(w, m)' /\ SprintClaim(w, k.issues, m)'
  <2>1. m \in j.issues /\ TaskClaim(w, m)' /\ SprintClaim(w, j.issues, m)'
    BY DEF Claims
  <2>2. ASSUME m.kind = "db_sprint_metadata_stale", ~Settled(m.on, m.at)'
        PROVE  Issue("db_sprint_status_file_absent", m.on, m.at, Plain) \in k.issues
    <3> DEFINE a == Issue("db_sprint_status_file_absent", m.on, m.at, Plain)
    <3>1. a \in j.issues
      BY <2>1, <2>2 DEF SprintClaim
    <3>2. a.kind = "db_sprint_status_file_absent" /\ a.on = m.on /\ a.at = m.at
      BY DEF Issue
    <3> HIDE DEF a
    <3>3. a # i
      BY <2>2, <3>2
    <3>4. a \in k.issues
      BY <3>1, <3>3
    <3> QED
      BY <3>4 DEF a
  <2> QED
    BY <2>1, <2>2 DEF SprintClaim
<1>2. d \notin {"idle", "compare", "sprints", "reread", "save"}
  OBVIOUS
<1>3. k.seen = {e \in Task \X Loc : Here(w, e[1], e[2])'}
  BY DEF Claims
<1> QED
  BY <1>1, <1>2, <1>3 DEF Claims

LEMMA OneTaskGentle ==
    ASSUME TypeInv, NEW w, NEW t \in Task, NEW row,
           tasks' = tasks \/ tasks' = [tasks EXCEPT ![t] = row],
           UNCHANGED <<files, sprints, docs>>,
           row.is => \/ tasks[t].is /\ row.status = tasks[t].status
                     \/ \E l \in Loc : /\ Last(w, t, l) /\ row.status = Said(w, t, l)
                                       /\ Within(t, Said(w, t, l))
    PROVE  Gentle(w)
<1>1. tasks \in [Task -> Row]
  BY DEF TypeInv, TypeOK
<1>2. ASSUME NEW u \in Task, tasks'[u].is
      PROVE  \/ tasks[u].is /\ tasks'[u].status = tasks[u].status
             \/ \E l \in Loc : /\ Last(w, u, l) /\ tasks'[u].status = Said(w, u, l)
                               /\ Within(u, Said(w, u, l))
  <2>1. CASE tasks'[u] = tasks[u]
    BY <2>1, <1>2
  <2>2. CASE u = t /\ tasks'[u] = row
    BY <2>2, <1>2
  <2> QED
    BY <2>1, <2>2, <1>1
<1> QED
  BY <1>2 DEF Gentle

LEMMA OneSprintGentle ==
    ASSUME TypeInv, NEW w, NEW s \in Sprint, NEW row,
           sprints' = sprints \/ sprints' = [sprints EXCEPT ![s] = row],
           UNCHANGED <<tasks, files, docs>>, row.is,
           \/ sprints[s].is /\ row.status = sprints[s].status
           \/ \E l \in SprintPlace :
                 /\ docs[w][s][l] # "absent" /\ row.status = l
                 /\ sprints[s].is => ~isSprintStatusRegression(sprints[s].status, l)
    PROVE  Gentle(w)
<1>1. sprints \in [Sprint -> SprintRow]
  BY DEF TypeInv, TypeOK
<1>2. ASSUME NEW u \in Sprint
      PROVE  /\ sprints[u].is => sprints'[u].is
             /\ sprints'[u].is =>
                   \/ sprints[u].is /\ sprints'[u].status = sprints[u].status
                   \/ \E l \in SprintPlace :
                         /\ docs[w][u][l] # "absent" /\ sprints'[u].status = l
                         /\ sprints[u].is => ~isSprintStatusRegression(sprints[u].status, l)
  <2>1. CASE sprints'[u] = sprints[u]
    BY <2>1
  <2>2. CASE u = s /\ sprints'[u] = row
    BY <2>2
  <2> QED
    BY <2>1, <2>2, <1>1
<1> QED
  BY <1>2 DEF Gentle

\* A step of process p to label d with k left to do, from label c and j.
LEMMA DoneIs ==
    ASSUME TypeInv, NEW p \in Proc, NEW i, NEW j, j = job[p], Done(p, i)
    PROVE  /\ pc'[p] = "fix" /\ job'[p] = [j EXCEPT !.issues = @ \ {i}]
           /\ [j EXCEPT !.issues = @ \ {i}].issues = j.issues \ {i}
           /\ [j EXCEPT !.issues = @ \ {i}].seen = j.seen
<1>1. j \in Job
  BY DEF TypeInv, TypeOK
<1> QED
  BY <1>1, DoneTyped DEF Job

\* A gentle repair of i keeps what is claimed of the others.
LEMMA RepairClaims ==
    ASSUME TypeInv, OneDoc, NEW p \in Proc, NEW w \in Worktree, NEW j, j = job[p],
           pc[p] = "fix", Claims("fix", j, w), Gentle(w), NEW i, NEW k,
           NEW d \in {"fix", "clear"}, pc'[p] = d, job'[p] = k,
           k.issues = j.issues \ {i}, k.seen = j.seen,
           i.kind = "db_sprint_status_file_absent" => Settled(i.on, i.at)'
    PROVE  \E e, m : pc'[p] = e /\ job'[p] = m /\ Claims(e, m, w)'
<1>1. j \in Job /\ j.issues \subseteq Proper
  BY DEF TypeInv, TypeOK, Shape
<1>2. Claims("fix", j, w)'
  BY <1>1, ClaimsKept
<1>3. Claims(d, k, w)'
  BY <1>2, ClaimsDropped
<1> QED
  BY <1>3

LEMMA DoneClaims ==
    ASSUME TypeInv, OneDoc, NEW p \in Proc, NEW w \in Worktree, NEW c, NEW j, c = pc[p],
           j = job[p], Claims(c, j, w), NEW i, c = "fix", Done(p, i), Gentle(w),
           i.kind = "db_sprint_status_file_absent" => Settled(i.on, i.at)'
    PROVE  \E e, m : pc'[p] = e /\ job'[p] = m /\ Claims(e, m, w)'
<1>1. PICK k : k = [j EXCEPT !.issues = @ \ {i}]
  OBVIOUS
<1>2. pc'[p] = "fix" /\ job'[p] = k /\ k.issues = j.issues \ {i} /\ k.seen = j.seen
  BY <1>1, DoneIs
<1>3. PICK d \in {"fix", "clear"} : d = "fix"
  OBVIOUS
<1>4. pc'[p] = d /\ pc[p] = "fix" /\ Claims("fix", j, w)
  BY <1>2, <1>3
<1> QED
  BY <1>2, <1>4, RepairClaims

LEMMA FixRowGentle ==
    ASSUME StartsTyped, TypeInv, NEW p \in Proc, NEW w \in Worktree, NEW j, j = job[p],
           Claims("fix", j, w), NEW i \in j.issues, FixRow(p, i)
    PROVE  Gentle(w)
<1> DEFINE t == i.on
<1>1. i \in Proper /\ i \in Issues /\ TaskClaim(w, i)
  BY DEF TypeInv, Shape, Proper, Claims
<1>2. i.kind \in TaskKind /\ (i.kind # "db_orphan_task" => i.kind \in FileKind)
  BY DEF FixRow, TaskKind, FileKind
<1>3. t \in Task /\ i.fm \in FM /\ (i.kind # "db_orphan_task" => i.at \in Loc)
  BY <1>1, <1>2 DEF Proper, Issues
<1>4. tasks[t] \in Row
  BY <1>3 DEF TypeInv, TypeOK
<1>5. UNCHANGED <<files, sprints, docs>>
  BY DEF FixRow
<1> HIDE DEF t
<1>6. ASSUME NEW row, SetRow(t, row), row.is => tasks[t].is /\ row.status = tasks[t].status
      PROVE  Gentle(w)
  BY <1>3, <1>5, <1>6, OneTaskGentle DEF SetRow
<1>7. ASSUME NEW row, SetRow(t, row), row.status = i.fm.status, Last(w, t, i.at),
             i.at \in Loc, i.fm.status = Said(w, t, i.at), Within(t, i.fm.status)
      PROVE  Gentle(w)
  BY <1>3, <1>5, <1>7, OneTaskGentle DEF SetRow
<1>8. CASE i.kind = "db_missing_task"
  <2> DEFINE row == [is |-> TRUE, status |-> i.fm.status, sprint |-> i.fm.sprint, path |-> i.at]
  <2>1. tasks' = IF tasks[t].is THEN tasks ELSE [tasks EXCEPT ![t] = row]
    BY <1>8 DEF FixRow, t
  <2>2. Last(w, t, i.at) /\ i.fm.status = Said(w, t, i.at) /\ i.at \in Loc
    BY <1>1, <1>3, <1>8 DEF TaskClaim, t
  <2>3. row.status = i.fm.status
    OBVIOUS
  <2> HIDE DEF row
  <2>4. CASE tasks[t].is
    <3>1. tasks' = tasks
      BY <2>1, <2>4
    <3>2. SetRow(t, tasks[t])
      BY <3>1, <2>4, <1>3 DEF SetRow, TypeInv, TypeOK
    <3> QED
      BY <3>2, <2>4, <1>6
  <2>5. CASE ~tasks[t].is
    <3>1. tasks' = [tasks EXCEPT ![t] = row] /\ Within(t, i.fm.status)
      BY <2>1, <2>5 DEF Within
    <3> QED
      BY <3>1, <2>2, <2>3, <1>3, <1>5, OneTaskGentle
  <2> QED
    BY <2>4, <2>5
<1>9. CASE i.kind = "db_status_mismatch"
  <2>1. Last(w, t, i.at) /\ i.fm.status = Said(w, t, i.at) /\ Within(t, i.fm.status)
    BY <1>1, <1>9 DEF TaskClaim, t
  <2>2. SetRow(t, [tasks[t] EXCEPT !.status = i.fm.status])
    BY <1>9 DEF FixRow, t
  <2>3. [tasks[t] EXCEPT !.status = i.fm.status].status = i.fm.status
    BY <1>4 DEF Row
  <2> QED
    BY <2>1, <2>2, <2>3, <1>3, <1>7, <1>9
<1>10. CASE i.kind = "completed_anomaly"
  <2>1. Last(w, t, i.at) /\ i.fm.status = Said(w, t, i.at) /\ i.fm.status = "done"
    BY <1>1, <1>10 DEF TaskClaim, t
  <2>2. SetRow(t, [tasks[t] EXCEPT !.status = "done"])
    BY <1>10 DEF FixRow, t
  <2>3. [tasks[t] EXCEPT !.status = "done"].status = i.fm.status
    BY <1>4, <2>1 DEF Row
  <2>4. Within(t, i.fm.status)
    <3>1. tasks[t].status \in Status
      BY <1>4 DEF Row
    <3>2. taskStatusRank(tasks[t].status) \in 0..2 /\ taskStatusRank("done") = 2
      BY <3>1, TaskRanks DEF taskStatusRank
    <3> QED
      BY <3>2, <2>1 DEF Within
  <2> QED
    BY <2>1, <2>2, <2>3, <2>4, <1>3, <1>7, <1>10
<1>11. CASE i.kind = "db_sprint_mismatch"
  <2>1. SetRow(t, [tasks[t] EXCEPT !.sprint = i.fm.sprint])
    BY <1>11 DEF FixRow, t
  <2>2. [tasks[t] EXCEPT !.sprint = i.fm.sprint].is = tasks[t].is
        /\ [tasks[t] EXCEPT !.sprint = i.fm.sprint].status = tasks[t].status
    BY <1>4 DEF Row
  <2> QED
    BY <2>1, <2>2, <1>6
<1>12. CASE i.kind = "db_file_path_mismatch"
  <2>1. SetRow(t, [tasks[t] EXCEPT !.path = i.at])
    BY <1>12 DEF FixRow, t
  <2>2. [tasks[t] EXCEPT !.path = i.at].is = tasks[t].is
        /\ [tasks[t] EXCEPT !.path = i.at].status = tasks[t].status
    BY <1>4 DEF Row
  <2> QED
    BY <2>1, <2>2, <1>6
<1>13. CASE i.kind = "db_orphan_task"
  <2>1. SetRow(t, NoRow) /\ ~NoRow.is
    BY <1>13 DEF FixRow, t, NoRow
  <2> QED
    BY <2>1, <1>6
<1> QED
  BY <1>8, <1>9, <1>10, <1>11, <1>12, <1>13 DEF FixRow

LEMMA FixRowClaims ==
    ASSUME StartsTyped, TypeInv, OneDoc, NEW p \in Proc, NEW w \in Worktree, NEW c, NEW j,
           c = pc[p], j = job[p], Claims(c, j, w), NEW i \in j.issues, FixRow(p, i)
    PROVE  Gentle(w) /\ \E e, m : pc'[p] = e /\ job'[p] = m /\ Claims(e, m, w)'
<1>1. c = "fix" /\ Done(p, i) /\ i.kind # "db_sprint_status_file_absent"
  BY DEF FixRow, Due
<1>2. Gentle(w)
  BY <1>1, FixRowGentle
<1> QED
  BY <1>1, <1>2, DoneClaims

LEMMA FixLocationClaims ==
    ASSUME StartsTyped, TypeInv, OneDoc, NEW p \in Proc, NEW w \in Worktree, w = Tree[p],
           NEW c, NEW j, c = pc[p], j = job[p], Claims(c, j, w), NEW i \in j.issues,
           FixLocation(p, i)
    PROVE  Gentle(w) /\ \E e, m : pc'[p] = e /\ job'[p] = m /\ Claims(e, m, w)'
<1>1. /\ c = "fix" /\ UNCHANGED <<tasks, sprints, docs>>
      /\ i.kind = "location_frontmatter_mismatch"
  BY DEF FixLocation, Due
<1>2. i.on \in Task /\ i.at \in Loc
  BY <1>1 DEF TypeInv, Shape, Proper, FileKind, TaskKind
<1>3. CASE files[w][i.on][i.at].is # "read"
  <2>1. Done(p, i) /\ UNCHANGED files
    BY <1>3 DEF FixLocation
  <2>2. Gentle(w)
    BY <2>1, <1>1, <1>2, OneTaskGentle
  <2> QED
    BY <2>1, <2>2, <1>1, DoneClaims
<1>4. CASE files[w][i.on][i.at].is = "read"
  <2> DEFINE d == [files[w][i.on][i.at] EXCEPT !.fm.sprint = "backlog"]
  <2>1. files' = [files EXCEPT ![w][i.on][i.at] = d]
    BY <1>4 DEF FixLocation
  <2>2. d.is = files[w][i.on][i.at].is /\ d.fm.status = files[w][i.on][i.at].fm.status
    <3>1. files[w][i.on][i.at] \in File
      BY <1>2 DEF TypeInv, TypeOK
    <3> QED
      BY <3>1 DEF File, FM
  <2> HIDE DEF d
  <2>3. \A v \in Worktree, t \in Task, l \in Loc :
           /\ files'[v][t][l].is = files[v][t][l].is
           /\ files'[v][t][l].fm.status = files[v][t][l].fm.status
    <3>1. files \in [Worktree -> [Task -> [Loc -> File]]]
      BY DEF TypeInv, TypeOK
    <3> SUFFICES ASSUME NEW v \in Worktree, NEW t \in Task, NEW l \in Loc
                 PROVE  files'[v][t][l] = files[v][t][l]
                        \/ (v = w /\ t = i.on /\ l = i.at /\ files'[v][t][l] = d)
      BY <2>2
    <3> DEFINE F == [files[w][i.on] EXCEPT ![i.at] = d]
               G == [files[w] EXCEPT ![i.on] = F]
    <3>2. files' = [files EXCEPT ![w] = G]
      BY <2>1
    <3>3. files[w] \in [Task -> [Loc -> File]] /\ files[w][i.on] \in [Loc -> File]
      BY <3>1, <1>2
    <3>4. F[l] = IF l = i.at THEN d ELSE files[w][i.on][l]
      BY <3>3
    <3> HIDE DEF F
    <3>5. G[t] = IF t = i.on THEN F ELSE files[w][t]
      BY <3>3
    <3> HIDE DEF G
    <3>6. files'[v] = IF v = w THEN G ELSE files[v]
      BY <3>1, <3>2
    <3>7. CASE v # w \/ t # i.on
      BY <3>5, <3>6, <3>7
    <3>8. CASE v = w /\ t = i.on
      <4>1. files'[v][t][l] = F[l] /\ files[v][t][l] = files[w][i.on][l]
        BY <3>5, <3>6, <3>8
      <4> QED
        BY <4>1, <3>4, <3>8
    <3> QED
      BY <3>7, <3>8
  <2>4. Gentle(w)
    BY <2>3, <1>1 DEF Gentle
  <2>5. PICK k : k = [j EXCEPT !.issues = @ \ {i}, !.on = i.on]
    OBVIOUS
  <2>6. pc'[p] = "clear" /\ job'[p] = k
    BY <2>5, <1>4 DEF FixLocation, Continue, TypeInv, TypeOK
  <2>7. k.issues = j.issues \ {i} /\ k.seen = j.seen
    BY <2>5, StateTyped DEF Job
  <2>8. PICK e \in {"fix", "clear"} : e = "clear"
    OBVIOUS
  <2>9. pc'[p] = e /\ pc[p] = "fix" /\ Claims("fix", j, w)
    BY <2>6, <2>8, <1>1
  <2> QED
    BY <2>4, <2>6, <2>7, <2>9, <1>1, RepairClaims
<1> QED
  BY <1>3, <1>4

\* A step that keeps the repairs to make, and goes on to one of the calm labels.
LEMMA SameClaims ==
    ASSUME TypeInv, OneDoc, NEW p \in Proc, NEW w \in Worktree, NEW c, NEW j, c = pc[p],
           j = job[p], Claims(c, j, w), Gentle(w), c # "idle", NEW k, pc'[p] = "fix",
           job'[p] = k, k.issues = j.issues, k.seen = j.seen
    PROVE  \E e, m : pc'[p] = e /\ job'[p] = m /\ Claims(e, m, w)'
<1>1. /\ j \in Job /\ j.issues \subseteq Proper
      /\ c \in {"reread", "save"} => j.on \in Sprint /\ j.at \in SprintPlace
  BY DEF TypeInv, TypeOK, Shape
<1>2. Claims(c, j, w)'
  BY <1>1, ClaimsKept
<1>3. k.seen = {e \in Task \X Loc : Here(w, e[1], e[2])'}
  BY <1>2 DEF Claims
<1>4. \A i \in k.issues : TaskClaim(w, i)' /\ SprintClaim(w, k.issues, i)'
  BY <1>2 DEF Claims
<1>5. Claims("fix", k, w)'
  BY <1>3, <1>4 DEF Claims
<1> QED
  BY <1>5

LEMMA ClearClaims ==
    ASSUME StartsTyped, TypeInv, OneDoc, NEW p \in Proc, NEW w \in Worktree, NEW c, NEW j,
           c = pc[p], j = job[p], Claims(c, j, w), ClearSprint(p)
    PROVE  Gentle(w) /\ \E e, m : pc'[p] = e /\ job'[p] = m /\ Claims(e, m, w)'
<1>1. c = "clear" /\ j.on \in Task /\ UNCHANGED <<files, sprints, docs>>
  BY DEF ClearSprint, TypeInv, Shape
<1>2. tasks[j.on] \in Row /\ j \in Job
  BY <1>1, StateTyped
<1> DEFINE row == [tasks[j.on] EXCEPT !.sprint = ""]
<1>3. row.is = tasks[j.on].is /\ row.status = tasks[j.on].status
  BY <1>2 DEF Row
<1>4. tasks' = tasks \/ tasks' = [tasks EXCEPT ![j.on] = row]
  BY DEF ClearSprint, SetRow
<1> HIDE DEF row
<1>5. Gentle(w)
  BY <1>1, <1>3, <1>4, OneTaskGentle
<1>6. PICK k : k = [j EXCEPT !.on = Nothing]
  OBVIOUS
<1>7. pc'[p] = "fix" /\ job'[p] = k /\ k.issues = j.issues /\ k.seen = j.seen
  BY <1>2, <1>6 DEF ClearSprint, Continue, TypeInv, TypeOK, Job
<1> QED
  BY <1>1, <1>5, <1>7, SameClaims

LEMMA FixListingClaims ==
    ASSUME StartsTyped, TypeInv, OneDoc, NEW p \in Proc, NEW w \in Worktree, NEW c, NEW j,
           c = pc[p], j = job[p], Claims(c, j, w), NEW i \in j.issues, FixListing(p, i)
    PROVE  Gentle(w) /\ \E e, m : pc'[p] = e /\ job'[p] = m /\ Claims(e, m, w)'
<1>1. /\ c = "fix" /\ UNCHANGED <<tasks, files, sprints, docs>>
      /\ i.kind # "db_sprint_status_file_absent"
  BY DEF FixListing, Due, summaryTypes
<1>2. Gentle(w)
  <2>1. \A t \in Task : tasks'[t].is => tasks[t].is /\ tasks'[t].status = tasks[t].status
    BY <1>1
  <2>2. \A s \in Sprint : sprints'[s].is => sprints[s].is /\ sprints'[s].status = sprints[s].status
    BY <1>1
  <2> QED
    BY <2>1, <2>2, <1>1 DEF Gentle
<1>3. CASE Done(p, i)
  BY <1>1, <1>2, <1>3, DoneClaims
<1>4. CASE Continue(p, "fix", [j EXCEPT !.issues = @ \ {i}, !.rebuild = TRUE])
  <2>1. PICK k : k = [j EXCEPT !.issues = @ \ {i}, !.rebuild = TRUE]
    OBVIOUS
  <2>2. pc'[p] = "fix" /\ job'[p] = k
    BY <2>1, <1>4 DEF Continue, TypeInv, TypeOK
  <2>3. k.issues = j.issues \ {i} /\ k.seen = j.seen
    BY <2>1, StateTyped DEF Job
  <2> QED
    BY <2>2, <2>3, <1>1, <1>2, RepairClaims
<1> QED
  BY <1>3, <1>4 DEF FixListing

LEMMA FixSprintClaims ==
    ASSUME StartsTyped, TypeInv, OneDoc, NEW p \in Proc, NEW w \in Worktree, NEW c, NEW j,
           c = pc[p], j = job[p], Claims(c, j, w), NEW i \in j.issues, FixSprint(p, i)
    PROVE  Gentle(w) /\ \E e, m : pc'[p] = e /\ job'[p] = m /\ Claims(e, m, w)'
<1> DEFINE s == i.on
<1>1. c = "fix" /\ Done(p, i) /\ UNCHANGED <<tasks, files, docs>>
  BY DEF FixSprint, Due
<1>2. i \in Proper /\ i.kind \in SprintKind /\ SprintClaim(w, j.issues, i)
  BY DEF FixSprint, SprintKind, TypeInv, Shape, Claims
<1>3. s \in Sprint /\ i.at \in SprintPlace /\ docs[w][s][i.at] # "absent"
  BY <1>2 DEF Proper, SprintClaim
<1>4. sprints[s] \in SprintRow /\ sprints \in [Sprint -> SprintRow]
  BY <1>3 DEF TypeInv, TypeOK
<1> HIDE DEF s
<1>5. ASSUME NEW row, row.is = sprints[s].is, row.status = sprints[s].status,
             sprints' = IF sprints[s].is THEN [sprints EXCEPT ![s] = row] ELSE sprints
      PROVE  Gentle(w)
  <2>1. CASE sprints[s].is
    BY <2>1, <1>1, <1>3, <1>5, OneSprintGentle
  <2>2. CASE ~sprints[s].is
    <3>1. \A u \in Sprint : sprints'[u].is => sprints[u].is /\ sprints'[u].status = sprints[u].status
      BY <2>2, <1>5
    <3>2. \A t \in Task : tasks'[t].is => tasks[t].is /\ tasks'[t].status = tasks[t].status
      BY <1>1
    <3>3. sprints' = sprints
      BY <2>2, <1>5
    <3> QED
      BY <3>1, <3>2, <3>3, <1>1 DEF Gentle
  <2> QED
    BY <2>1, <2>2
<1>6. CASE i.kind = "db_missing_sprint"
  <2> DEFINE row == [is |-> TRUE, status |-> i.at, folder |-> i.at, started |-> TRUE,
                     title |-> IF job[p].found[s][i.at] = "titled" THEN "title" ELSE "id",
                     completed |-> i.at = "completed"]
  <2>1. sprints' = IF sprints[s].is THEN sprints ELSE [sprints EXCEPT ![s] = row]
    BY <1>6 DEF FixSprint, s
  <2>2. row.is /\ row.status = i.at
    OBVIOUS
  <2> HIDE DEF row
  <2>3. ASSUME sprints[s].is PROVE Gentle(w)
    <3>1. sprints' = IF sprints[s].is THEN [sprints EXCEPT ![s] = sprints[s]] ELSE sprints
      BY <2>1, <2>3, <1>4
    <3> QED
      BY <3>1, <1>5
  <2>4. ASSUME ~sprints[s].is PROVE Gentle(w)
    <3>1. sprints' = [sprints EXCEPT ![s] = row]
      BY <2>1, <2>4
    <3> QED
      BY <3>1, <2>2, <2>4, <1>1, <1>3, OneSprintGentle
  <2>5. Gentle(w)
    BY <2>3, <2>4
  <2> QED
    BY <2>5, <1>1, <1>6, DoneClaims
<1>7. CASE i.kind = "db_sprint_title_mismatch"
  <2> DEFINE row == [sprints[s] EXCEPT !.title = "title"]
  <2>1. sprints' = IF sprints[s].is THEN [sprints EXCEPT ![s] = row] ELSE sprints
    BY <1>7 DEF FixSprint, s
  <2>2. row.is = sprints[s].is /\ row.status = sprints[s].status
    BY <1>4 DEF SprintRow
  <2> HIDE DEF row
  <2>3. Gentle(w)
    BY <2>1, <2>2, <1>5
  <2> QED
    BY <2>3, <1>1, <1>7, DoneClaims
<1>8. CASE i.kind = "db_sprint_folder_path_mismatch"
  <2> DEFINE row == [sprints[s] EXCEPT !.folder = i.at]
  <2>1. sprints' = IF sprints[s].is THEN [sprints EXCEPT ![s] = row] ELSE sprints
    BY <1>8 DEF FixSprint, s
  <2>2. row.is = sprints[s].is /\ row.status = sprints[s].status
    BY <1>4 DEF SprintRow
  <2> HIDE DEF row
  <2>3. Gentle(w)
    BY <2>1, <2>2, <1>5
  <2> QED
    BY <2>3, <1>1, <1>8, DoneClaims
<1>9. CASE i.kind = "db_sprint_status_file_absent"
  <2> DEFINE row == [sprints[s] EXCEPT !.folder = i.at, !.status = i.at]
  <2>1. sprints[s].is /\ ~isSprintStatusRegression(sprints[s].status, i.at)
    BY <1>2, <1>9 DEF SprintClaim, s
  <2>2. sprints' = [sprints EXCEPT ![s] = row]
    BY <2>1, <1>9 DEF FixSprint, s
  <2>3. row.is /\ row.status = i.at
    BY <2>1, <1>4 DEF SprintRow
  <2> HIDE DEF row
  <2>4. Gentle(w)
    BY <2>1, <2>2, <2>3, <1>1, <1>3, OneSprintGentle
  <2>5. sprints'[s].is /\ sprints'[s].status = i.at
    BY <2>2, <2>3, <1>3, <1>4
  <2>6. Settled(i.on, i.at)'
    BY <2>5 DEF Settled, s
  <2> QED
    BY <2>4, <2>6, <1>1, DoneClaims
<1> QED
  BY <1>6, <1>7, <1>8, <1>9 DEF FixSprint

\* When the metadata of a Sprint comes to be repaired, its status was before it.
LEMMA MetadataSettled ==
    ASSUME NEW p \in Proc, NEW w, NEW j, j = job[p], NEW i \in j.issues, Due(p, i),
           i.kind = "db_sprint_metadata_stale", SprintClaim(w, j.issues, i)
    PROVE  Settled(i.on, i.at)
<1> DEFINE a == Issue("db_sprint_status_file_absent", i.on, i.at, Plain)
<1>1. a.kind = "db_sprint_status_file_absent"
  BY DEF Issue
<1> HIDE DEF a
<1>2. a \notin j.issues
  BY <1>1 DEF Due, Rank
<1> QED
  BY <1>2 DEF SprintClaim, a

LEMMA FixMetadataClaims ==
    ASSUME StartsTyped, TypeInv, OneDoc, NEW p \in Proc, NEW w \in Worktree, NEW c, NEW j,
           c = pc[p], j = job[p], Claims(c, j, w), NEW i \in j.issues, FixMetadata(p, i)
    PROVE  Gentle(w) /\ \E e, m : pc'[p] = e /\ job'[p] = m /\ Claims(e, m, w)'
<1> DEFINE row == [sprints[i.on] EXCEPT !.title = "title"]
<1>1. /\ c = "fix" /\ Due(p, i) /\ UNCHANGED <<tasks, files, docs>>
      /\ i.kind = "db_sprint_metadata_stale"
  BY DEF FixMetadata, Due
<1>2. /\ i \in Proper /\ i.kind \in SprintKind /\ SprintClaim(w, j.issues, i)
      /\ j \in Job /\ j.issues \subseteq Proper
  BY <1>1 DEF SprintKind, TypeInv, TypeOK, Shape, Claims
<1>3. i.on \in Sprint /\ i.at \in SprintPlace /\ docs[w][i.on][i.at] # "absent"
  BY <1>2 DEF Proper, SprintClaim
<1>4. Settled(i.on, i.at)
  BY <1>1, <1>2, MetadataSettled
<1>5. sprints[i.on] \in SprintRow /\ sprints \in [Sprint -> SprintRow]
  BY <1>3 DEF TypeInv, TypeOK
<1>6. Gentle(w)
  <2>1. sprints[i.on].is
    BY <1>4 DEF Settled
  <2>2. row.is /\ row.status = sprints[i.on].status
    BY <2>1, <1>5 DEF SprintRow
  <2>3. sprints' = sprints \/ sprints' = [sprints EXCEPT ![i.on] = row]
    <3>1. [sprints EXCEPT ![i.on].title = "title"] = [sprints EXCEPT ![i.on] = row]
      OBVIOUS
    <3> HIDE DEF row
    <3>2. sprints' = sprints \/ sprints' = [sprints EXCEPT ![i.on].title = "title"]
      BY DEF FixMetadata
    <3> QED
      BY <3>1, <3>2
  <2> HIDE DEF row
  <2> QED
    BY <2>1, <2>2, <2>3, <1>1, <1>3, OneSprintGentle
<1>7. Settled(i.on, i.at)'
  BY <1>3, <1>4, <1>6, SettledKept
<1>8. PICK k : k = [j EXCEPT !.issues = @ \ {i}, !.on = i.on, !.at = i.at]
  OBVIOUS
<1>9. pc'[p] = "reread" /\ job'[p] = k
  BY <1>8 DEF FixMetadata, Continue, TypeInv, TypeOK
<1>10. k.issues = j.issues \ {i} /\ k.seen = j.seen /\ k.on = i.on /\ k.at = i.at
  BY <1>2, <1>8 DEF Job
<1>11. Claims("fix", j, w)
  BY <1>1
<1>12. Claims("fix", j, w)'
  BY <1>2, <1>6, <1>11, ClaimsKept
<1>13. PICK d \in {"fix", "clear"} : d = "fix"
  OBVIOUS
<1>14. Claims(d, k, w)'
  BY <1>1, <1>10, <1>12, ClaimsDropped
<1>15. docs'[w][k.on][k.at] # "absent" /\ Settled(k.on, k.at)'
  BY <1>1, <1>3, <1>7, <1>10
<1>16. Claims("reread", k, w)'
  BY <1>13, <1>14, <1>15 DEF Claims
<1> QED
  BY <1>6, <1>9, <1>16

LEMMA RereadClaims ==
    ASSUME StartsTyped, TypeInv, OneDoc, NEW p \in Proc, NEW w \in Worktree, NEW c, NEW j,
           c = pc[p], j = job[p], Claims(c, j, w), RereadSprint(p), faults = 0, faults' = 0
    PROVE  Gentle(w) /\ \E e, m : pc'[p] = e /\ job'[p] = m /\ Claims(e, m, w)'
<1>1. c = "reread" /\ UNCHANGED project
  BY DEF RereadSprint
<1>2. /\ j \in Job /\ j.issues \subseteq Proper
      /\ j.on \in Sprint /\ j.at \in SprintPlace
  BY <1>1 DEF TypeInv, TypeOK, Shape
<1>3. Gentle(w)
  BY <1>1, StandstillGentle
<1>4. Claims("reread", j, w)'
  BY <1>1, <1>2, <1>3, ClaimsKept
<1> DEFINE row == [sprints[j.on] EXCEPT !.started = TRUE, !.completed = @ \/ j.at = "completed"]
<1>5. sprints[j.on] \in SprintRow /\ sprints' = sprints
  BY <1>1, <1>2 DEF TypeInv, TypeOK, project
<1>6. row.is = sprints'[j.on].is /\ row.status = sprints'[j.on].status
  BY <1>5 DEF SprintRow
<1>7. PICK k : k = [j EXCEPT !.row = row]
  OBVIOUS
<1>8. pc'[p] = "save" /\ job'[p] = k
  <2>1. Continue(p, "save", [j EXCEPT !.row = row])
    BY DEF RereadSprint, Fault
  <2> HIDE DEF row
  <2> QED
    BY <2>1, <1>7 DEF Continue, TypeInv, TypeOK
<1> HIDE DEF row
<1>9. k.issues = j.issues /\ k.seen = j.seen /\ k.on = j.on /\ k.at = j.at /\ k.row = row
  BY <1>2, <1>7 DEF Job
<1>10. /\ j.seen = {e \in Task \X Loc : Here(w, e[1], e[2])'}
       /\ \A i \in j.issues : TaskClaim(w, i)' /\ SprintClaim(w, j.issues, i)'
       /\ docs'[w][j.on][j.at] # "absent" /\ Settled(j.on, j.at)'
  BY <1>4 DEF Claims
<1>11. sprints'[j.on].is
  BY <1>10 DEF Settled
<1>12. Claims("save", k, w)'
  BY <1>6, <1>9, <1>10, <1>11 DEF Claims
<1> QED
  BY <1>3, <1>8, <1>12

LEMMA SaveClaims ==
    ASSUME StartsTyped, TypeInv, OneDoc, NEW p \in Proc, NEW w \in Worktree, NEW c, NEW j,
           c = pc[p], j = job[p], Claims(c, j, w), SaveSprint(p), faults = 0, faults' = 0
    PROVE  Gentle(w) /\ \E e, m : pc'[p] = e /\ job'[p] = m /\ Claims(e, m, w)'
<1>1. c = "save" /\ UNCHANGED <<tasks, files, docs>> /\ j \in Job /\ j.on \in Sprint
  BY DEF SaveSprint, TypeInv, TypeOK, Shape
<1>2. sprints' = [sprints EXCEPT ![j.on] = j.row]
  BY DEF SaveSprint, Fault
<1>3. j.row.is /\ j.row.status = sprints[j.on].status /\ sprints[j.on].is
  BY <1>1 DEF Claims, Settled
<1>4. Gentle(w)
  BY <1>1, <1>2, <1>3, OneSprintGentle
<1>5. PICK k : k = [j EXCEPT !.on = Nothing, !.at = "stale", !.row = NoSprintRow]
  OBVIOUS
<1>6. pc'[p] = "fix" /\ job'[p] = k
  BY <1>5 DEF SaveSprint, Continue, TypeInv, TypeOK
<1>7. k.issues = j.issues /\ k.seen = j.seen
  BY <1>1, <1>5 DEF Job
<1> QED
  BY <1>1, <1>4, <1>6, <1>7, SameClaims

LEMMA NothingGentle ==
    ASSUME UNCHANGED <<tasks, files, sprints, docs>>, NEW w PROVE Gentle(w)
<1>1. \A t \in Task : tasks'[t].is => tasks[t].is /\ tasks'[t].status = tasks[t].status
  OBVIOUS
<1>2. \A s \in Sprint : sprints'[s].is => sprints[s].is /\ sprints'[s].status = sprints[s].status
  OBVIOUS
<1> QED
  BY <1>1, <1>2 DEF Gentle

LEMMA EndClaims ==
    ASSUME TypeInv, NEW p \in Proc, NEW w \in Worktree, EndSync(p)
    PROVE  Gentle(w) /\ \E e, m : pc'[p] = e /\ job'[p] = m /\ Claims(e, m, w)'
<1>1. pc'[p] = "idle" /\ job'[p] = NoJob /\ UNCHANGED <<tasks, files, sprints, docs>>
  BY DEF EndSync, TypeInv, TypeOK
<1>2. Claims("idle", NoJob, w)'
  BY DEF Claims, NoJob
<1> QED
  BY <1>1, <1>2, NothingGentle

-----------------------------------------------------------------------------
(* Every step of a sync is gentle, and leaves it with what it claims.       *)

\* What is claimed after a check is claimed of the state the check leaves as it is.
LEMMA CheckClaims ==
    ASSUME TypeInv, TypeInv', OneDoc, NEW p \in Proc, NEW w \in Worktree, UNCHANGED project,
           \E e, k : pc'[p] = e /\ job'[p] = k /\ Claims(e, k, w)
    PROVE  Gentle(w) /\ \E e, m : pc'[p] = e /\ job'[p] = m /\ Claims(e, m, w)'
<1>1. Gentle(w)
  BY StandstillGentle
<1>2. PICK e, k : pc'[p] = e /\ job'[p] = k /\ Claims(e, k, w)
  OBVIOUS
<1>3. /\ k \in Job /\ k.issues \subseteq Proper
      /\ e \in {"reread", "save"} => k.on \in Sprint /\ k.at \in SprintPlace
  BY <1>2 DEF TypeInv, TypeOK, Shape
<1>4. Claims(e, k, w)'
  BY <1>1, <1>2, <1>3, ClaimsKept
<1> QED
  BY <1>1, <1>2, <1>4

LEMMA StepClaims ==
    ASSUME StartsTyped, TypeInv, TypeInv', OneDoc, NEW p \in Proc, NEW w, w = Tree[p],
           NEW c, NEW j, c = pc[p], j = job[p], Claims(c, j, w), BeginSync(p) \/ Step(p),
           faults = 0, faults' = 0
    PROVE  Gentle(w) /\ \E e, m : pc'[p] = e /\ job'[p] = m /\ Claims(e, m, w)'
<1>1. w \in Worktree
  BY StateTyped
<1>2. CASE BeginSync(p)
  <2>1. UNCHANGED project
    BY <1>2 DEF BeginSync
  <2> QED
    BY <2>1, <1>1, <1>2, BeginClaims, CheckClaims
<1>3. CASE CheckLocation(p)
  <2>1. UNCHANGED project
    BY <1>3, LocationReports
  <2> QED
    BY <2>1, <1>1, <1>3, LocationClaims, CheckClaims
<1>4. CASE ReadRows(p)
  <2>1. UNCHANGED project
    BY <1>4 DEF ReadRows
  <2> QED
    BY <2>1, <1>1, <1>4, ReadRowsClaims, CheckClaims
<1>5. CASE CompareFiles(p)
  <2>1. UNCHANGED project
    BY <1>5, CompareReports
  <2> QED
    BY <2>1, <1>1, <1>5, CompareClaims, CheckClaims
<1>6. CASE CheckListing(p)
  <2>1. UNCHANGED project
    BY <1>6, ListingReports
  <2> QED
    BY <2>1, <1>1, <1>6, ListingClaims, CheckClaims
<1>7. CASE CheckSummary(p)
  <2>1. UNCHANGED project
    BY <1>7, SummaryReports
  <2> QED
    BY <2>1, <1>1, <1>7, SummaryClaims, CheckClaims
<1>8. CASE ReadDocuments(p)
  <2>1. UNCHANGED project
    BY <1>8 DEF ReadDocuments
  <2> QED
    BY <2>1, <1>1, <1>8, DocumentsClaims, CheckClaims
<1>9. CASE CompareSprints(p)
  <2>1. UNCHANGED project
    BY <1>9, SprintsReport
  <2> QED
    BY <2>1, <1>1, <1>9, SprintsClaims, CheckClaims
<1>10. CASE CheckOrphans(p)
  <2>1. UNCHANGED project
    BY <1>10, OrphansReport
  <2> QED
    BY <2>1, <1>1, <1>10, OrphansClaims, CheckClaims
<1>11. ASSUME NEW i \in j.issues,
              FixRow(p, i) \/ FixLocation(p, i) \/ FixListing(p, i)
              \/ FixSprint(p, i) \/ FixMetadata(p, i) \/ SkipFix(p, i)
       PROVE  Gentle(w) /\ \E e, m : pc'[p] = e /\ job'[p] = m /\ Claims(e, m, w)'
  <2>1. ~SkipFix(p, i)
    BY DEF SkipFix, Fault
  <2>2. CASE FixRow(p, i)
    BY <2>2, <1>1, FixRowClaims
  <2>3. CASE FixLocation(p, i)
    BY <2>3, <1>1, FixLocationClaims
  <2>4. CASE FixListing(p, i)
    BY <2>4, <1>1, FixListingClaims
  <2>5. CASE FixSprint(p, i)
    BY <2>5, <1>1, FixSprintClaims
  <2>6. CASE FixMetadata(p, i)
    BY <2>6, <1>1, FixMetadataClaims
  <2> QED
    BY <2>1, <2>2, <2>3, <2>4, <2>5, <2>6, <1>11
<1>12. CASE ClearSprint(p)
  BY <1>1, <1>12, ClearClaims
<1>13. CASE RereadSprint(p)
  BY <1>1, <1>13, RereadClaims
<1>14. CASE SaveSprint(p)
  BY <1>1, <1>14, SaveClaims
<1>15. CASE EndSync(p)
  BY <1>1, <1>15, EndClaims
<1> QED
  BY <1>2, <1>3, <1>4, <1>5, <1>6, <1>7, <1>8, <1>9, <1>10, <1>11, <1>12, <1>13, <1>14,
     <1>15 DEF Step

\* A step of a sync is its own, at a label of its own.
LEMMA StepIsOwn ==
    ASSUME TypeInv, NEW p \in Proc, BeginSync(p) \/ Step(p)
    PROVE  /\ scene' = scene /\ (Works \/ Fault)
           /\ \A q \in Proc \ {p} : pc'[q] = pc[q] /\ job'[q] = job[q]
           /\ p \in Runs \/ pc[p] # "idle"
<1>1. pc \in [Proc -> Label] /\ job \in [Proc -> Job]
  BY DEF TypeInv, TypeOK
<1>2. (\E l, k : Continue(p, l, k)) =>
         scene' = scene /\ \A q \in Proc \ {p} : pc'[q] = pc[q] /\ job'[q] = job[q]
  BY <1>1 DEF Continue
<1>3. CASE BeginSync(p)
  <2>1. p \in Runs
    BY <1>3 DEF BeginSync, Runs, TypeInv, TypeOK
  <2>2. Works /\ \E l, k : Continue(p, l, k)
    BY <1>3 DEF BeginSync
  <2> QED
    BY <2>1, <2>2, <1>2
<1>4. CASE CheckLocation(p) \/ ReadRows(p) \/ CompareFiles(p) \/ CheckListing(p)
           \/ CheckSummary(p) \/ ReadDocuments(p) \/ CompareSprints(p) \/ CheckOrphans(p)
  <2>1. Works /\ pc[p] # "idle"
    BY <1>4, ZenonT(60) DEF CheckLocation, ReadRows, CompareFiles, CheckListing, CheckSummary,
       ReadDocuments, CompareSprints, CheckOrphans
  <2>2. \E l, k : Continue(p, l, k)
    BY <1>4, ZenonT(60) DEF CheckLocation, ReadRows, CompareFiles, CheckListing, CheckSummary,
       ReadDocuments, CompareSprints, CheckOrphans, Report
  <2> QED
    BY <2>1, <2>2, <1>2, SMTT(30)
<1>5. ASSUME NEW i \in job[p].issues,
             FixRow(p, i) \/ FixLocation(p, i) \/ FixListing(p, i)
             \/ FixSprint(p, i) \/ FixMetadata(p, i) \/ SkipFix(p, i)
      PROVE  /\ scene' = scene /\ (Works \/ Fault)
             /\ \A q \in Proc \ {p} : pc'[q] = pc[q] /\ job'[q] = job[q]
             /\ pc[p] # "idle"
  <2>1. (Works \/ Fault) /\ Due(p, i)
    BY <1>5, ZenonT(60) DEF FixRow, FixLocation, FixListing, FixSprint, FixMetadata, SkipFix
  <2>2. \E l, k : Continue(p, l, k)
    BY <1>5, Zenon DEF FixRow, FixLocation, FixListing, FixSprint, FixMetadata, SkipFix, Done
  <2> QED
    BY <2>1, <2>2, <1>2 DEF Due
<1>6. CASE ClearSprint(p) \/ RereadSprint(p) \/ SaveSprint(p)
  <2>1. (Works \/ Fault) /\ pc[p] # "idle"
    BY <1>6 DEF ClearSprint, RereadSprint, SaveSprint
  <2>2. \E l, k : Continue(p, l, k)
    BY <1>6, Zenon DEF ClearSprint, RereadSprint, SaveSprint
  <2> QED
    BY <2>1, <2>2, <1>2
<1>7. CASE EndSync(p)
  BY <1>1, <1>7 DEF EndSync
<1> QED
  BY <1>3, <1>4, <1>5, <1>6, <1>7 DEF Step

LEMMA SyncOrOthers ==
    ASSUME Next
    PROVE  (\E p \in Proc : BeginSync(p) \/ Step(p)) \/ (\E cmd : Others(cmd))
<1>1. ASSUME NEW t \in Task, NEW w \in Worktree, NEW l \in Loc, Advance(t, w, l)
      PROVE  Others("task")
  BY <1>1, Zenon DEF Advance
<1>2. ASSUME NEW s \in Sprint, NEW w \in Worktree, NEW l \in SprintPlace, MoveSprint(s, w, l)
      PROVE  Others("sprint")
  BY <1>2, Zenon DEF MoveSprint
<1>3. ASSUME NEW w \in Worktree, NEW include \in BOOLEAN, RebuildMD(w, include)
      PROVE  Others("rebuild")
  BY <1>3, Zenon DEF RebuildMD
<1> QED
  BY <1>1, <1>2, <1>3, Zenon DEF Next

LEMMA SceneKept ==
    ASSUME TypeInv, Next PROVE scene' = scene /\ (Works \/ Fault)
<1>1. ASSUME NEW p \in Proc, BeginSync(p) \/ Step(p)
      PROVE  scene' = scene /\ (Works \/ Fault)
  BY <1>1, StepIsOwn
<1>2. ASSUME NEW cmd, Others(cmd) PROVE scene' = scene /\ (Works \/ Fault)
  BY <1>2 DEF Others, Works
<1> QED
  BY <1>1, <1>2, SyncOrOthers

LEMMA UndisturbedBefore ==
    ASSUME TypeInv, Next, scene'.others = {}, OneTree', faults' = 0
    PROVE  Undisturbed /\ \E p \in Proc : BeginSync(p) \/ Step(p)
<1>1. scene' = scene /\ (Works \/ Fault)
  BY SceneKept
<1>2. faults = 0
  BY <1>1 DEF Works, Fault, TypeInv, TypeOK
<1>3. Undisturbed
  BY <1>1, <1>2 DEF Undisturbed, OneTree, Runs
<1>4. \A cmd : ~Others(cmd)
  BY <1>3 DEF Others, Undisturbed
<1>5. \E p \in Proc : BeginSync(p) \/ Step(p)
  BY <1>4, SyncOrOthers
<1> QED
  BY <1>3, <1>5

LEMMA ClaimsInitially == StartsTyped /\ OneDocument /\ Init => SyncInv
<1> SUFFICES ASSUME StartsTyped, OneDocument, Init PROVE SyncInv
  OBVIOUS
<1>1. OneDoc
  <2>1. PICK states \in Starts : \E start \in states : docs = start.docs
    BY DEF Init
  <2>2. PICK start \in states : docs = start.docs
    BY <2>1
  <2> QED
    BY <2>2 DEF OneDocument, OneDoc
<1>2. \A p \in Proc : pc[p] = "idle" /\ job[p] = NoJob
  BY DEF Init
<1>3. \A w : Claims("idle", NoJob, w)
  BY DEF Claims, NoJob
<1> QED
  BY <1>1, <1>2, <1>3 DEF SyncInv

\* Undisturbed, a step is gentle, and every sync keeps what it claims.
LEMMA ClaimsStep ==
    ASSUME StartsTyped, TypeInv, TypeInv', SyncInv, Next,
           scene'.others = {}, OneTree', faults' = 0
    PROVE  SyncInv' /\ Undisturbed /\ \E p \in Proc : Gentle(Tree[p])
<1>1. Undisturbed
  BY UndisturbedBefore
<1>2. PICK p \in Proc : BeginSync(p) \/ Step(p)
  BY UndisturbedBefore
<1>3. PICK w : w = Tree[p]
  OBVIOUS
<1>4. PICK c, j : c = pc[p] /\ j = job[p]
  OBVIOUS
<1>5. OneDoc /\ Claims(c, j, w)
  BY <1>1, <1>3, <1>4 DEF SyncInv
<1>6. faults = 0
  BY <1>1 DEF Undisturbed
<1>7. Gentle(w) /\ \E e, m : pc'[p] = e /\ job'[p] = m /\ Claims(e, m, w)'
  BY <1>2, <1>3, <1>4, <1>5, <1>6, StepClaims
<1>8. /\ scene' = scene
      /\ \A q \in Proc \ {p} : pc'[q] = pc[q] /\ job'[q] = job[q]
      /\ p \in Runs \/ pc[p] # "idle"
  BY <1>2, StepIsOwn
<1>9. p \in Runs /\ Runs' = Runs /\ w \in Worktree
  BY <1>1, <1>3, <1>8, StateTyped DEF SyncInv, Runs
<1>10. OneDoc'
  BY <1>5, <1>7 DEF OneDoc, Gentle
<1>11. ASSUME NEW q \in Proc, NEW d, NEW k, d = pc'[q], k = job'[q], NEW v, v = Tree[q]
       PROVE  Claims(d, k, v)' /\ (q \notin Runs' => d = "idle")
  <2>1. CASE q = p
    BY <2>1, <1>3, <1>7, <1>9, <1>11
  <2>2. CASE q # p /\ q \in Runs
    <3>1. v = w /\ d = pc[q] /\ k = job[q]
      BY <2>2, <1>1, <1>3, <1>8, <1>9, <1>11 DEF Undisturbed, OneTree
    <3>2. Claims(d, k, v)
      BY <3>1, <1>1, <1>11 DEF SyncInv
    <3>3. /\ k \in Job /\ k.issues \subseteq Proper
          /\ d \in {"reread", "save"} => k.on \in Sprint /\ k.at \in SprintPlace
      BY <3>1 DEF TypeInv, TypeOK, Shape
    <3>4. Claims(d, k, w)'
      BY <3>1, <3>2, <3>3, <1>5, <1>7, <1>9, ClaimsKept
    <3> QED
      BY <3>1, <3>4, <2>2, <1>9
  <2>3. CASE q # p /\ q \notin Runs
    <3>1. d = "idle" /\ d = pc[q] /\ k = job[q]
      BY <2>3, <1>1, <1>8, <1>11 DEF SyncInv
    <3>2. Claims(d, k, v)
      BY <3>1, <1>1, <1>11 DEF SyncInv
    <3>3. k.issues = {}
      BY <3>1, <3>2 DEF Claims
    <3>4. Claims(d, k, v)'
      BY <3>1, <3>3 DEF Claims
    <3> QED
      BY <3>1, <3>4
  <2> QED
    BY <2>1, <2>2, <2>3
<1>12. SyncInv'
  BY <1>10, <1>11 DEF SyncInv
<1> QED
  BY <1>1, <1>3, <1>7, <1>12

\* Gentle steps take nothing back: neither the status of a Task, nor of a Sprint.
LEMMA GentleKeepsForward ==
    ASSUME TypeInv, TypeInv', NEW w \in Worktree, Gentle(w)
    PROVE  /\ \A t \in Task : tasks[t].is /\ tasks'[t].is =>
                 <<tasks'[t].status, tasks[t].status>> \notin Before
           /\ \A s \in Sprint : sprints[s].is /\ sprints'[s].is =>
                 <<sprints'[s].status, sprints[s].status>> \notin Before
<1>1. ASSUME NEW t \in Task, tasks[t].is, tasks'[t].is
      PROVE  <<tasks'[t].status, tasks[t].status>> \notin Before
  <2>1. tasks[t].status \in Status /\ tasks'[t].status \in Status
    <3>1. tasks[t] \in Row /\ tasks'[t] \in Row
      BY DEF TypeInv, TypeOK
    <3> QED
      BY <3>1 DEF Row
  <2>2. taskStatusRank(tasks[t].status) <= taskStatusRank(tasks'[t].status)
    <3>1. CASE tasks'[t].status = tasks[t].status
      BY <3>1, <2>1, TaskRanks
    <3>2. ASSUME NEW l \in Loc, tasks'[t].status = Said(w, t, l), Within(t, Said(w, t, l))
          PROVE  taskStatusRank(tasks[t].status) <= taskStatusRank(tasks'[t].status)
      BY <3>2, <1>1 DEF Within
    <3> QED
      BY <3>1, <3>2, <1>1 DEF Gentle
  <2> QED
    BY <2>1, <2>2 DEF Status, taskStatusRank, Before
<1>2. ASSUME NEW s \in Sprint, sprints[s].is, sprints'[s].is
      PROVE  <<sprints'[s].status, sprints[s].status>> \notin Before
  <2>1. sprints[s].status \in SprintPlace \cup {"discarded"}
    <3>1. sprints[s] \in SprintRow
      BY DEF TypeInv, TypeOK
    <3> QED
      BY <3>1 DEF SprintRow
  <2>2. CASE sprints'[s].status = sprints[s].status
    BY <2>1, <2>2 DEF SprintPlace, Before
  <2>3. ASSUME NEW l \in SprintPlace, sprints'[s].status = l,
               ~isSprintStatusRegression(sprints[s].status, l)
        PROVE  <<sprints'[s].status, sprints[s].status>> \notin Before
    BY <2>1, <2>3 DEF SprintPlace, Before, isSprintStatusRegression, sprintStatusRank
  <2> QED
    BY <2>2, <2>3, <1>2 DEF Gentle
<1> QED
  BY <1>1, <1>2

\* However many syncs of one worktree run at once, none takes a Task or a Sprint
\* back to an earlier status: whatever a sync read and is about to write, the
\* file it comes from is still the one that counts, and the row is not past it.
THEOREM SyncNeverRegresses == StartsTyped /\ OneDocument => (Spec => NeverRegresses)
<1> SUFFICES ASSUME StartsTyped, OneDocument PROVE Spec => NeverRegresses
  OBVIOUS
<1> DEFINE Forward ==
      /\ \A t \in Task : tasks[t].is /\ tasks'[t].is =>
            <<tasks'[t].status, tasks[t].status>> \notin Before
      /\ \A s \in Sprint : sprints[s].is /\ sprints'[s].is =>
            <<sprints'[s].status, sprints[s].status>> \notin Before
<1>1. Init => TypeInv /\ SyncInv
  BY TypedInitially, ClaimsInitially
<1>2. TypeInv /\ SyncInv /\ [Next]_vars => (TypeInv /\ SyncInv)'
  <2> SUFFICES ASSUME TypeInv, SyncInv, [Next]_vars PROVE (TypeInv /\ SyncInv)'
    OBVIOUS
  <2>1. TypeInv'
    BY TypedStep
  <2>2. CASE Next
    BY <2>1, <2>2, ClaimsStep DEF SyncInv, Undisturbed
  <2>3. CASE UNCHANGED vars
    <3>1. \A c, j, w : Claims(c, j, w)' <=> Claims(c, j, w)
      BY <2>3 DEF vars, Claims, TaskClaim, SprintClaim, Last, Here, Said, Within, Settled
    <3>2. SyncInv'
      BY <3>1, <2>3 DEF vars, SyncInv, Undisturbed, OneTree, Runs, OneDoc
    <3> QED
      BY <3>2, <2>1
  <2> QED
    BY <2>1, <2>2, <2>3
<1>3. TypeInv /\ SyncInv /\ [Next]_vars =>
        [scene.others = {} /\ OneTree /\ faults' = 0 => Forward]_vars
  <2> SUFFICES ASSUME TypeInv, SyncInv, Next, scene.others = {}, OneTree, faults' = 0
               PROVE  Forward
    BY DEF vars
  <2>1. TypeInv'
    BY TypedStep
  <2>2. scene' = scene
    BY SceneKept
  <2>3. PICK p \in Proc : Gentle(Tree[p])
    BY <2>1, <2>2, ClaimsStep DEF OneTree, Runs
  <2> QED
    BY <2>1, <2>3, StateTyped, GentleKeepsForward
<1> QED
  BY <1>1, <1>2, <1>3, PTL DEF Spec, NeverRegresses

-----------------------------------------------------------------------------
(* A sync alone: what its checks have looked at agrees, as long as they have  *)
(* nothing to repair and nothing for a person.                                *)

Looking == {"location", "rows", "compare", "listing", "summary", "documents",
            "sprints", "orphans"}
Clean(j) == j.issues = {} /\ ~j.manual

\* There is at most one file of t, readable, and of no Sprint in docs/tasks.
PlacesAgree(w, t) ==
    \A l \in Loc : Here(w, t, l) =>
       /\ files[w][t][l].is = "read"
       /\ \A m \in Loc : Here(w, t, m) => m = l
       /\ l = "tasks" => NormalizeSprintField(files[w][t][l].fm.sprint) = ""
RowAgrees(w, t) ==
    \A l \in Loc : Here(w, t, l) =>
       /\ tasks[t].is /\ tasks[t].path = l /\ tasks[t].status = files[w][t][l].fm.status
       /\ NormalizeSprintField(tasks[t].sprint) = NormalizeSprintField(files[w][t][l].fm.sprint)
LinesAgree(w) == \A t \in backlog[w].listed : Here(w, t, "tasks")

\* What a sync of worktree w with the local variables j has found at label c.
Finds(c, j, w) ==
    /\ c \in Looking => j.seen = {e \in Task \X Loc : Here(w, e[1], e[2])}
    /\ c = "compare" => j.rows = tasks
    /\ c = "sprints" => j.found = docs[w]
    /\ Clean(j) =>
         /\ c \in Looking \ {"location"} => \A t \in Task : PlacesAgree(w, t)
         /\ c \in Looking \ {"location", "rows", "compare"} => \A t \in Task : RowAgrees(w, t)
         /\ c \in Looking \ {"location", "rows", "compare", "listing"} => LinesAgree(w)
         /\ c = "orphans" => \A s \in Sprint : SprintAgrees(w, s)

AloneInv ==
    Alone => \A p \in Proc :
                /\ p \notin Runs => pc[p] = "idle"
                /\ \A c \in {pc[p]}, j \in {job[p]} : Finds(c, j, Tree[p])

LEMMA FindsKept ==
    ASSUME UNCHANGED project, NEW c, NEW j, NEW w PROVE Finds(c, j, w)' <=> Finds(c, j, w)
BY DEF project, Finds, Here, PlacesAgree, RowAgrees, LinesAgree, SprintAgrees

\* What a check does: process p goes on to d, with the repairs I and, if b, a
\* matter for a person added to what it has.
Reported(p, d, I, b) ==
    \E k : /\ pc'[p] = d /\ job'[p] = k /\ k.seen = job[p].seen
           /\ Clean(k) => Clean(job[p]) /\ I = {} /\ ~b

LEMMA ReportIs ==
    ASSUME TypeInv, NEW p \in Proc, NEW d, NEW I, NEW b \in BOOLEAN, Report(p, d, I, b)
    PROVE  Reported(p, d, I, b)
<1>1. PICK j : j = job[p]
  OBVIOUS
<1>2. j \in Job
  BY <1>1 DEF TypeInv, TypeOK
<1> DEFINE k == [j EXCEPT !.issues = @ \cup I, !.manual = @ \/ b]
<1>3. pc'[p] = d /\ job'[p] = k
  BY <1>1 DEF Report, Continue, TypeInv, TypeOK
<1>4. k.seen = j.seen /\ k.issues = j.issues \cup I
  BY <1>2 DEF Job
<1>5. k.manual = (j.manual \/ b)
  BY <1>2 DEF Job
<1> HIDE DEF k
<1>6. Clean(k) => Clean(j) /\ I = {}
  BY <1>4, <1>5 DEF Clean
<1>7. Clean(k) => ~b
  BY <1>5 DEF Clean
<1> QED
  BY <1>1, <1>3, <1>4, <1>6, <1>7 DEF Reported

LEMMA LocationIs ==
    ASSUME StartsTyped, TypeInv, NEW p \in Proc, CheckLocation(p)
    PROVE  Reported(p, "rows", LocationFinds(p), LocationManual(p))
BY LocationReports, LocationFindsProper, ReportIs, Zenon

LEMMA CompareIs ==
    ASSUME StartsTyped, TypeInv, NEW p \in Proc, CompareFiles(p)
    PROVE  Reported(p, "listing", CompareFinds(p), CompareManual(p))
BY CompareReports, CompareFindsProper, ReportIs, Zenon

LEMMA ListingIs ==
    ASSUME StartsTyped, TypeInv, NEW p \in Proc, CheckListing(p)
    PROVE  Reported(p, "summary", ListingFinds(p), ListingManual(p))
BY ListingReports, ListingFindsProper, ReportIs, Zenon

LEMMA SprintsAre ==
    ASSUME StartsTyped, TypeInv, NEW p \in Proc, CompareSprints(p)
    PROVE  Reported(p, "orphans", SprintsFind(p), SprintsManual(p))
BY SprintsReport, SprintsFindProper, ReportIs, Zenon

LEMMA OrphansAre ==
    ASSUME StartsTyped, TypeInv, NEW p \in Proc, CheckOrphans(p)
    PROVE  Reported(p, "fix", OrphansFound(p), FALSE)
BY OrphansReport, ReportIs, Zenon

LEMMA SeenIs ==
    ASSUME NEW p, NEW w, w = Tree[p],
           job[p].seen = {e \in Task \X Loc : Here(w, e[1], e[2])},
           NEW t \in Task, NEW l \in Loc
    PROVE  /\ <<t, l>> \in job[p].seen <=> Here(w, t, l)
           /\ <<t, l>>[1] = t /\ <<t, l>>[2] = l
           /\ TaskFile(p, t, l) = files[w][t][l]
<1>1. <<t, l>> \in Task \X Loc /\ <<t, l>>[1] = t /\ <<t, l>>[2] = l
  OBVIOUS
<1> QED
  BY <1>1 DEF TaskFile

LEMMA BeginFinds ==
    ASSUME StartsTyped, TypeInv, NEW p \in Proc, NEW w, w = Tree[p], BeginSync(p)
    PROVE  \E e, k : pc'[p] = e /\ job'[p] = k /\ Finds(e, k, w)
<1> DEFINE k == [NoJob EXCEPT !.seen =
                   {e \in Task \X Loc : TaskFile(p, e[1], e[2]).is # "absent"}]
<1>1. pc'[p] = "location" /\ job'[p] = k
  BY DEF BeginSync, Continue, TypeInv, TypeOK
<1>2. k.seen = {e \in Task \X Loc : Here(w, e[1], e[2])}
  BY DEF NoJob, TaskFile, Here
<1> HIDE DEF k
<1>3. Finds("location", k, w)
  BY <1>2 DEF Finds, Looking
<1> QED
  BY <1>1, <1>3

LEMMA LocationAgrees ==
    ASSUME StartsTyped, TypeInv, NEW p \in Proc, NEW w, w = Tree[p],
           job[p].seen = {e \in Task \X Loc : Here(w, e[1], e[2])},
           LocationFinds(p) = {}, ~LocationManual(p), NEW t \in Task
    PROVE  PlacesAgree(w, t)
<1> SUFFICES ASSUME NEW l \in Loc, Here(w, t, l)
             PROVE  /\ files[w][t][l].is = "read"
                    /\ \A m \in Loc : Here(w, t, m) => m = l
                    /\ l = "tasks" => NormalizeSprintField(files[w][t][l].fm.sprint) = ""
  BY DEF PlacesAgree
<1>1. /\ <<t, l>> \in job[p].seen /\ <<t, l>>[1] = t /\ <<t, l>>[2] = l
      /\ TaskFile(p, t, l) = files[w][t][l]
  BY SeenIs
<1>2. files[w][t][l].is = "read"
  <2>1. TaskFile(p, t, l) \in File
    BY StateTyped
  <2>2. TaskFile(p, t, l).is # "unreadable"
    BY <1>1 DEF LocationManual
  <2> QED
    BY <2>1, <2>2, <1>1 DEF Here, File
<1>3. \A m \in Loc : Here(w, t, m) => m = l
  <2> SUFFICES ASSUME NEW m \in Loc, Here(w, t, m) PROVE m = l
    OBVIOUS
  <2>1. <<t, m>> \in job[p].seen /\ <<t, m>>[1] = t /\ <<t, m>>[2] = m
    BY SeenIs
  <2> QED
    BY <2>1, <1>1 DEF LocationManual
<1>4. l = "tasks" => NormalizeSprintField(files[w][t][l].fm.sprint) = ""
  <2> SUFFICES ASSUME l = "tasks", NormalizeSprintField(files[w][t][l].fm.sprint) # ""
               PROVE  FALSE
    OBVIOUS
  <2>1. <<t, l>> \in ReadOf(p) /\ Sprinted(p, <<t, l>>)
    BY <1>1, <1>2 DEF ReadOf, Sprinted
  <2>2. Issue("location_frontmatter_mismatch", <<t, l>>[1], <<t, l>>[2], Plain) \in LocationFinds(p)
    BY <2>1 DEF LocationFinds
  <2> QED
    BY <2>2
<1> QED
  BY <1>2, <1>3, <1>4

LEMMA LocationFinding ==
    ASSUME StartsTyped, TypeInv, NEW p \in Proc, NEW w, w = Tree[p], NEW c, NEW j, c = pc[p],
           j = job[p], Finds(c, j, w), CheckLocation(p)
    PROVE  \E e, k : pc'[p] = e /\ job'[p] = k /\ Finds(e, k, w)
<1>1. c = "location"
  BY LocationReports
<1>3. PICK k : /\ pc'[p] = "rows" /\ job'[p] = k /\ k.seen = j.seen
               /\ Clean(k) => Clean(j) /\ LocationFinds(p) = {} /\ ~LocationManual(p)
  BY LocationIs DEF Reported
<1>4. j.seen = {e \in Task \X Loc : Here(w, e[1], e[2])}
  BY <1>1 DEF Finds, Looking
<1>5. Clean(k) => \A t \in Task : PlacesAgree(w, t)
  BY <1>3, <1>4, LocationAgrees
<1>6. Finds("rows", k, w)
  BY <1>3, <1>4, <1>5 DEF Finds
<1> QED
  BY <1>3, <1>6

LEMMA ReadRowsFinding ==
    ASSUME StartsTyped, TypeInv, NEW p \in Proc, NEW w, NEW c, NEW j, c = pc[p],
           j = job[p], Finds(c, j, w), ReadRows(p)
    PROVE  \E e, k : pc'[p] = e /\ job'[p] = k /\ Finds(e, k, w)
<1> DEFINE k == [j EXCEPT !.rows = tasks]
<1>1. pc'[p] = "compare" /\ job'[p] = k /\ c = "rows"
  BY DEF ReadRows, Continue, TypeInv, TypeOK
<1>2. j \in Job
  BY StateTyped
<1>3. k.issues = j.issues /\ k.manual = j.manual /\ k.seen = j.seen /\ k.rows = tasks
  BY <1>2 DEF Job
<1> HIDE DEF k
<1>4. Clean(k) => Clean(j)
  BY <1>3 DEF Clean
<1>5. j.seen = {e \in Task \X Loc : Here(w, e[1], e[2])}
      /\ (Clean(j) => \A t \in Task : PlacesAgree(w, t))
  BY <1>1 DEF Finds, Looking
<1>6. Finds("compare", k, w)
  BY <1>3, <1>4, <1>5 DEF Finds
<1> QED
  BY <1>1, <1>6

LEMMA CompareAgrees ==
    ASSUME StartsTyped, TypeInv, NEW p \in Proc, NEW w, w = Tree[p],
           job[p].seen = {e \in Task \X Loc : Here(w, e[1], e[2])}, job[p].rows = tasks,
           CompareFinds(p) = {}, ~CompareManual(p), NEW t \in Task, PlacesAgree(w, t)
    PROVE  RowAgrees(w, t)
<1> SUFFICES ASSUME NEW l \in Loc, Here(w, t, l)
             PROVE  /\ tasks[t].is /\ tasks[t].path = l
                    /\ tasks[t].status = files[w][t][l].fm.status
                    /\ NormalizeSprintField(tasks[t].sprint)
                          = NormalizeSprintField(files[w][t][l].fm.sprint)
  BY DEF RowAgrees
<1>1. PICK e : e = <<t, l>>
  OBVIOUS
<1>2. /\ e \in job[p].seen /\ e[1] = t /\ e[2] = l
      /\ TaskFile(p, t, l) = files[w][t][l]
  BY <1>1, SeenIs
<1>3. e \in LastOf(p)
  <2>1. LastSeen(p, t, l)
    <3> SUFFICES ASSUME NEW m \in Loc, <<t, m>> \in job[p].seen PROVE Order[m] <= Order[l]
      BY <1>1, <1>2 DEF LastSeen
    <3>1. Here(w, t, m)
      BY SeenIs
    <3>2. m = l
      BY <3>1 DEF PlacesAgree
    <3> QED
      BY <3>2 DEF Order, Loc
  <2> QED
    BY <2>1, <1>2, ZenonT(60) DEF LastOf, PlacesAgree
<1>4. e \in KnownOf(p) /\ tasks[t].is
  <2>1. e \notin LastOf(p) \ KnownOf(p)
    BY DEF CompareFinds
  <2> QED
    BY <2>1, <1>2, <1>3 DEF KnownOf
<1> DEFINE fm == TaskFile(p, e[1], e[2]).fm
           row == job[p].rows[e[1]]
<1>5. FileFinds(p, e) = {}
  BY <1>4 DEF CompareFinds
<1>6. StatusIssue(row, e[1], e[2], fm) = {} /\ SprintIssue(row, e[1], e[2], fm) = {}
      /\ PathIssue(row, e[1], e[2], fm) = {}
  BY <1>5 DEF FileFinds
<1>7. row.status = fm.status
  BY <1>4, <1>6 DEF CompareManual
<1>8. row.path = l
  BY <1>2, <1>6 DEF PathIssue
<1>9. NormalizeSprintField(row.sprint) = IF l = "tasks" THEN "" ELSE NormalizeSprintField(fm.sprint)
  BY <1>2, <1>6 DEF SprintIssue
<1>10. l = "tasks" => NormalizeSprintField(files[w][t][l].fm.sprint) = ""
  BY DEF PlacesAgree
<1>11. row = tasks[t] /\ fm = files[w][t][l].fm
  BY <1>2
<1> QED
  BY <1>4, <1>7, <1>8, <1>9, <1>10, <1>11

LEMMA CompareFinding ==
    ASSUME StartsTyped, TypeInv, NEW p \in Proc, NEW w, w = Tree[p], NEW c, NEW j, c = pc[p],
           j = job[p], Finds(c, j, w), CompareFiles(p)
    PROVE  \E e, k : pc'[p] = e /\ job'[p] = k /\ Finds(e, k, w)
<1>1. c = "compare"
  BY CompareReports
<1>2. PICK k : /\ pc'[p] = "listing" /\ job'[p] = k /\ k.seen = j.seen
               /\ Clean(k) => Clean(j) /\ CompareFinds(p) = {} /\ ~CompareManual(p)
  BY CompareIs DEF Reported
<1>3. /\ j.seen = {e \in Task \X Loc : Here(w, e[1], e[2])} /\ j.rows = tasks
      /\ Clean(j) => \A t \in Task : PlacesAgree(w, t)
  BY <1>1 DEF Finds, Looking
<1>4. Clean(k) => \A t \in Task : RowAgrees(w, t)
  BY <1>2, <1>3, CompareAgrees
<1>5. Finds("listing", k, w)
  BY <1>2, <1>3, <1>4 DEF Finds
<1> QED
  BY <1>2, <1>5

LEMMA ListingFinding ==
    ASSUME StartsTyped, TypeInv, NEW p \in Proc, NEW w, w = Tree[p], NEW c, NEW j, c = pc[p],
           j = job[p], Finds(c, j, w), CheckListing(p)
    PROVE  \E e, k : pc'[p] = e /\ job'[p] = k /\ Finds(e, k, w)
<1>1. c = "listing"
  BY ListingReports
<1>2. PICK k : /\ pc'[p] = "summary" /\ job'[p] = k /\ k.seen = j.seen
               /\ Clean(k) => Clean(j) /\ ListingFinds(p) = {} /\ ~ListingManual(p)
  BY ListingIs DEF Reported
<1>3. /\ j.seen = {e \in Task \X Loc : Here(w, e[1], e[2])}
      /\ Clean(j) => \A t \in Task : PlacesAgree(w, t)
      /\ Clean(j) => \A t \in Task : RowAgrees(w, t)
  BY <1>1 DEF Finds, Looking
<1>4. Clean(k) => LinesAgree(w)
  <2> SUFFICES ASSUME ListingFinds(p) = {}, ~ListingManual(p), NEW t \in backlog[w].listed
               PROVE  Here(w, t, "tasks")
    BY <1>2 DEF LinesAgree
  <2>1. t \in Task /\ t \in Listed(p)
    BY StateTyped DEF Listed, Listing
  <2>2. t \notin GoneOf(p)
    BY DEF ListingFinds, ListingManual
  <2> QED
    BY <2>1, <2>2, <1>3, SeenIs DEF GoneOf, Loc
<1>5. Finds("summary", k, w)
  BY <1>2, <1>3, <1>4 DEF Finds
<1> QED
  BY <1>2, <1>5

LEMMA SummaryFinding ==
    ASSUME StartsTyped, TypeInv, NEW p \in Proc, NEW w, NEW c, NEW j, c = pc[p],
           j = job[p], Finds(c, j, w), CheckSummary(p)
    PROVE  \E e, k : pc'[p] = e /\ job'[p] = k /\ Finds(e, k, w)
<1> DEFINE k == [j EXCEPT !.table = TableOf, !.issues = @ \cup SummaryFinds(p)]
<1>1. pc'[p] = "documents" /\ job'[p] = k /\ c = "summary"
  BY SummaryReports DEF Continue, TypeInv, TypeOK
<1>2. j \in Job /\ k.issues = j.issues \cup SummaryFinds(p) /\ k.seen = j.seen
      /\ k.manual = j.manual
  BY StateTyped DEF Job
<1> HIDE DEF k
<1>3. Clean(k) => Clean(j)
  BY <1>2 DEF Clean
<1>4. /\ j.seen = {e \in Task \X Loc : Here(w, e[1], e[2])}
      /\ Clean(j) => /\ \A t \in Task : PlacesAgree(w, t)
                     /\ \A t \in Task : RowAgrees(w, t)
                     /\ LinesAgree(w)
  BY <1>1 DEF Finds, Looking
<1>5. Finds("documents", k, w)
  BY <1>2, <1>3, <1>4 DEF Finds
<1> QED
  BY <1>1, <1>5

LEMMA DocumentsFinding ==
    ASSUME StartsTyped, TypeInv, NEW p \in Proc, NEW w, w = Tree[p], NEW c, NEW j, c = pc[p],
           j = job[p], Finds(c, j, w), ReadDocuments(p)
    PROVE  \E e, k : pc'[p] = e /\ job'[p] = k /\ Finds(e, k, w)
<1> DEFINE k == [j EXCEPT !.found = docs[w]]
<1>1. pc'[p] = "sprints" /\ job'[p] = k /\ c = "documents"
  BY DEF ReadDocuments, Continue, TypeInv, TypeOK
<1>2. k.issues = j.issues /\ k.manual = j.manual /\ k.seen = j.seen /\ k.found = docs[w]
  BY StateTyped DEF Job
<1> HIDE DEF k
<1>3. Clean(k) => Clean(j)
  BY <1>2 DEF Clean
<1>4. /\ j.seen = {e \in Task \X Loc : Here(w, e[1], e[2])}
      /\ Clean(j) => /\ \A t \in Task : PlacesAgree(w, t)
                     /\ \A t \in Task : RowAgrees(w, t)
                     /\ LinesAgree(w)
  BY <1>1 DEF Finds, Looking
<1>5. Finds("sprints", k, w)
  BY <1>2, <1>3, <1>4 DEF Finds
<1> QED
  BY <1>1, <1>5

\* A Sprint whose SPRINT.md sync has nothing to say about is as SPRINT.md has it.
LEMMA NoSprintIssue ==
    ASSUME TypeInv, NEW s \in Sprint, NEW l \in SprintPlace, NEW d,
           SprintIssues(s, l, d) = {},
           sprints[s].is => ~isSprintStatusRegression(sprints[s].status, l)
    PROVE  sprints[s].is /\ sprints[s].status = l /\ sprints[s].folder = l
<1>1. \A k \in {"db_missing_sprint", "db_sprint_folder_path_mismatch",
               "db_sprint_status_file_absent"} : k \in Kind
  BY DEF Kind
<1>2. sprints[s].is
  <2> SUFFICES ASSUME ~sprints[s].is PROVE FALSE
    OBVIOUS
  <2>1. Issue("db_missing_sprint", s, l, Plain) \in SprintIssues(s, l, d)
    BY <1>1 DEF SprintIssues
  <2> QED
    BY <2>1
<1>3. sprints[s].folder = l
  <2> SUFFICES ASSUME sprints[s].folder # l PROVE FALSE
    OBVIOUS
  <2>1. Issue("db_sprint_folder_path_mismatch", s, l, Plain) \in SprintIssues(s, l, d)
    BY <1>1, <1>2 DEF SprintIssues
  <2> QED
    BY <2>1
<1>4. sprints[s].status = l
  <2> SUFFICES ASSUME sprints[s].status # l PROVE FALSE
    OBVIOUS
  <2>1. Issue("db_sprint_status_file_absent", s, l, Plain) \in SprintIssues(s, l, d)
    BY <1>1, <1>2 DEF SprintIssues
  <2> QED
    BY <2>1
<1> QED
  BY <1>2, <1>3, <1>4

LEMMA SprintsFinding ==
    ASSUME StartsTyped, TypeInv, NEW p \in Proc, NEW w, NEW c, NEW j, c = pc[p],
           j = job[p], Finds(c, j, w), CompareSprints(p)
    PROVE  \E e, k : pc'[p] = e /\ job'[p] = k /\ Finds(e, k, w)
<1>1. c = "sprints"
  BY SprintsReport
<1>2. PICK k : /\ pc'[p] = "orphans" /\ job'[p] = k /\ k.seen = j.seen
               /\ Clean(k) => Clean(j) /\ SprintsFind(p) = {} /\ ~SprintsManual(p)
  BY SprintsAre DEF Reported
<1>3. /\ j.seen = {e \in Task \X Loc : Here(w, e[1], e[2])} /\ j.found = docs[w]
      /\ Clean(j) => /\ \A t \in Task : PlacesAgree(w, t)
                     /\ \A t \in Task : RowAgrees(w, t)
                     /\ LinesAgree(w)
  BY <1>1 DEF Finds, Looking
<1>4. Clean(k) => \A s \in Sprint : SprintAgrees(w, s)
  <2> SUFFICES ASSUME SprintsFind(p) = {}, ~SprintsManual(p), NEW s \in Sprint,
                      NEW l \in SprintPlace, docs[w][s][l] # "absent"
               PROVE  sprints[s].is /\ sprints[s].status = l /\ sprints[s].folder = l
    BY <1>2 DEF SprintAgrees
  <2>1. PICK e : e = <<s, l>>
    OBVIOUS
  <2>2. e \in DocumentsOf(p) /\ e[1] = s /\ e[2] = l
    BY <2>1, <1>3 DEF DocumentsOf
  <2>3. SprintIssues(s, l, job[p].found[s][l]) = {}
    BY <2>2 DEF SprintsFind
  <2>4. sprints[s].is => ~isSprintStatusRegression(sprints[s].status, l)
    BY <2>2 DEF SprintsManual
  <2> QED
    BY <2>3, <2>4, NoSprintIssue
<1>5. Finds("orphans", k, w)
  BY <1>2, <1>3, <1>4 DEF Finds
<1> QED
  BY <1>2, <1>5

LEMMA RestFinds ==
    ASSUME NEW d, d \notin Looking, NEW k, NEW w PROVE Finds(d, k, w)'
BY DEF Finds, Looking

LEMMA CheckFinds ==
    ASSUME NEW p, NEW w, UNCHANGED project,
           \E e, k : pc'[p] = e /\ job'[p] = k /\ Finds(e, k, w)
    PROVE  \E e, k : pc'[p] = e /\ job'[p] = k /\ Finds(e, k, w)'
BY FindsKept

LEMMA RepairGoesOn ==
    ASSUME TypeInv, NEW p \in Proc, NEW i,
           FixRow(p, i) \/ FixLocation(p, i) \/ FixListing(p, i)
           \/ FixSprint(p, i) \/ FixMetadata(p, i) \/ SkipFix(p, i)
    PROVE  pc[p] = "fix" /\ pc'[p] \notin Looking
<1>1. \E k : \E l \in {"fix", "clear", "reread"} : Continue(p, l, k)
  <2>1. "fix" \in {"fix", "clear", "reread"} /\ "clear" \in {"fix", "clear", "reread"}
        /\ "reread" \in {"fix", "clear", "reread"}
    OBVIOUS
  <2> QED
    BY <2>1, Zenon DEF FixRow, FixLocation, FixListing, FixSprint, FixMetadata, SkipFix, Done
<1>2. pc'[p] \in {"fix", "clear", "reread"}
  BY <1>1, SMTT(30) DEF Continue, TypeInv, TypeOK
<1>3. pc[p] = "fix"
  BY ZenonT(60) DEF FixRow, FixLocation, FixListing, FixSprint, FixMetadata, SkipFix, Due
<1> QED
  BY <1>2, <1>3 DEF Looking

LEMMA LaterGoesOn ==
    ASSUME TypeInv, NEW p \in Proc,
           ClearSprint(p) \/ RereadSprint(p) \/ SaveSprint(p) \/ EndSync(p)
    PROVE  pc[p] \notin Looking /\ pc'[p] \notin Looking
<1>1. pc[p] \in {"clear", "reread", "save", "fix"}
  BY DEF ClearSprint, RereadSprint, SaveSprint, EndSync
<1>2. pc'[p] \in {"fix", "save", "idle"}
  BY DEF ClearSprint, RereadSprint, SaveSprint, EndSync, Continue, TypeInv, TypeOK
<1> QED
  BY <1>1, <1>2 DEF Looking

LEMMA StepFinds ==
    ASSUME StartsTyped, TypeInv, NEW p \in Proc, NEW w, w = Tree[p], NEW c, NEW j, c = pc[p],
           j = job[p], Finds(c, j, w), BeginSync(p) \/ Step(p)
    PROVE  \E e, k : pc'[p] = e /\ job'[p] = k /\ Finds(e, k, w)'
<1>1. CASE BeginSync(p)
  <2>1. UNCHANGED project
    BY <1>1 DEF BeginSync
  <2> QED
    BY <2>1, <1>1, BeginFinds, CheckFinds
<1>2. CASE CheckLocation(p)
  <2>1. UNCHANGED project
    BY <1>2, LocationReports
  <2> QED
    BY <2>1, <1>2, LocationFinding, CheckFinds
<1>3. CASE ReadRows(p)
  <2>1. UNCHANGED project
    BY <1>3 DEF ReadRows
  <2> QED
    BY <2>1, <1>3, ReadRowsFinding, CheckFinds
<1>4. CASE CompareFiles(p)
  <2>1. UNCHANGED project
    BY <1>4, CompareReports
  <2> QED
    BY <2>1, <1>4, CompareFinding, CheckFinds
<1>5. CASE CheckListing(p)
  <2>1. UNCHANGED project
    BY <1>5, ListingReports
  <2> QED
    BY <2>1, <1>5, ListingFinding, CheckFinds
<1>6. CASE CheckSummary(p)
  <2>1. UNCHANGED project
    BY <1>6, SummaryReports
  <2> QED
    BY <2>1, <1>6, SummaryFinding, CheckFinds
<1>7. CASE ReadDocuments(p)
  <2>1. UNCHANGED project
    BY <1>7 DEF ReadDocuments
  <2> QED
    BY <2>1, <1>7, DocumentsFinding, CheckFinds
<1>8. CASE CompareSprints(p)
  <2>1. UNCHANGED project
    BY <1>8, SprintsReport
  <2> QED
    BY <2>1, <1>8, SprintsFinding, CheckFinds
<1>9. ASSUME pc'[p] \notin Looking
      PROVE  \E e, k : pc'[p] = e /\ job'[p] = k /\ Finds(e, k, w)'
  <2>1. PICK e, k : pc'[p] = e /\ job'[p] = k
    OBVIOUS
  <2>2. Finds(e, k, w)'
    BY <2>1, <1>9, RestFinds
  <2> QED
    BY <2>1, <2>2
<1>10. CASE CheckOrphans(p)
  <2>1. pc'[p] = "fix"
    BY <1>10, OrphansAre DEF Reported
  <2> QED
    BY <2>1, <1>9 DEF Looking
<1>11. CASE \E i \in job[p].issues :
               FixRow(p, i) \/ FixLocation(p, i) \/ FixListing(p, i)
               \/ FixSprint(p, i) \/ FixMetadata(p, i) \/ SkipFix(p, i)
  BY <1>9, <1>11, RepairGoesOn
<1>12. CASE ClearSprint(p) \/ RereadSprint(p) \/ SaveSprint(p) \/ EndSync(p)
  BY <1>9, <1>12, LaterGoesOn
<1> QED
  BY <1>1, <1>2, <1>3, <1>4, <1>5, <1>6, <1>7, <1>8, <1>10, <1>11, <1>12 DEF Step

\* Where one process runs sync and nothing else happens, it is that process's step.
LEMMA AloneSteps ==
    ASSUME TypeInv, IsFiniteSet(Proc), Next, Alone, NEW p \in Proc,
           \A q \in Proc : q \notin Runs => pc[q] = "idle", BeginSync(p) \/ Step(p)
    PROVE  Runs = {p}
<1>1. Runs \subseteq Proc
  BY DEF Runs
<1>2. IsFiniteSet(Runs)
  BY <1>1, FS_Subset
<1>3. PICK x : Runs = {x}
  BY <1>2, FS_Singleton DEF Alone
<1>4. p \in Runs
  BY StepIsOwn
<1> QED
  BY <1>3, <1>4

LEMMA AloneMoves ==
    ASSUME TypeInv, Next, scene.others = {}
    PROVE  scene' = scene /\ \E p \in Proc : BeginSync(p) \/ Step(p)
<1>1. \A cmd : ~Others(cmd)
  BY DEF Others
<1> QED
  BY <1>1, SyncOrOthers, SceneKept

LEMMA AloneStep ==
    ASSUME StartsTyped, TypeInv, IsFiniteSet(Proc), AloneInv, Next, Alone'
    PROVE  \A q \in Proc : /\ q \notin Runs' => pc'[q] = "idle"
                           /\ \A c \in {pc'[q]}, j \in {job'[q]} : Finds(c, j, Tree[q])'
<1>1. scene' = scene
  BY SceneKept
<1>2. Alone /\ Runs' = Runs
  BY <1>1 DEF Alone, Runs
<1>3. PICK p \in Proc : BeginSync(p) \/ Step(p)
  BY <1>2, AloneMoves DEF Alone
<1>4. \A q \in Proc : q \notin Runs => pc[q] = "idle"
  BY <1>2 DEF AloneInv
<1>5. Runs = {p}
  BY <1>2, <1>3, <1>4, AloneSteps
<1>6. \A q \in Proc \ {p} : pc'[q] = pc[q] /\ job'[q] = job[q]
  BY <1>3, StepIsOwn
<1> SUFFICES ASSUME NEW q \in Proc, NEW c, NEW j, c = pc'[q], j = job'[q], NEW w, w = Tree[q]
             PROVE  (q \notin Runs' => c = "idle") /\ Finds(c, j, w)'
  OBVIOUS
<1>7. CASE q = p
  <2>1. PICK d, k : d = pc[p] /\ k = job[p]
    OBVIOUS
  <2>2. Finds(d, k, w)
    BY <2>1, <1>2, <1>7 DEF AloneInv
  <2>3. \E e, m : pc'[p] = e /\ job'[p] = m /\ Finds(e, m, w)'
    BY <2>1, <2>2, <1>3, <1>7, StepFinds
  <2> QED
    BY <2>3, <1>2, <1>5, <1>7
<1>8. CASE q # p
  <2>1. c = "idle"
    BY <1>4, <1>5, <1>6, <1>8
  <2>2. c \notin Looking
    BY <2>1 DEF Looking
  <2> QED
    BY <2>1, <2>2, RestFinds
<1> QED
  BY <1>7, <1>8

LEMMA AloneInitially == Init => AloneInv
<1> SUFFICES ASSUME Init PROVE AloneInv
  OBVIOUS
<1>1. \A p \in Proc : pc[p] = "idle"
  BY DEF Init
<1>2. \A j, w : Finds("idle", j, w)
  BY DEF Finds, Looking
<1> QED
  BY <1>1, <1>2 DEF AloneInv

\* At the end of the checks what they found is what TaskAgrees says.
LEMMA FoundTaskAgrees ==
    ASSUME StartsTyped, TypeInv, NEW p \in Proc, NEW w, w = Tree[p],
           job[p].seen = {e \in Task \X Loc : Here(w, e[1], e[2])},
           OrphansFound(p) = {}, LinesAgree(w),
           NEW t \in Task, PlacesAgree(w, t), RowAgrees(w, t)
    PROVE  TaskAgrees(w, t)
<1> DEFINE at == {l \in Loc : files[w][t][l].is # "absent"}
           elsewhere == \E v \in Worktree : /\ tasks[t].path # "stale"
                                            /\ files[v][t][tasks[t].path].is # "absent"
<1>1. tasks[t].is => at # {} \/ t \in backlog[w].listed \/ elsewhere
  <2> SUFFICES ASSUME tasks[t].is, at = {}, t \notin backlog[w].listed, ~elsewhere
               PROVE  FALSE
    OBVIOUS
  <2>1. \A l \in Loc : <<t, l>> \notin job[p].seen
    BY SeenIs DEF Here
  <2>2. Issue("db_orphan_task", t, "stale", Plain) \in OrphansFound(p)
    BY <2>1 DEF OrphansFound, Listed
  <2> QED
    BY <2>2
<1>2. ASSUME NEW l \in at
      PROVE  /\ tasks[t].is /\ at = {l} /\ tasks[t].path = l
             /\ tasks[t].status = files[w][t][l].fm.status
             /\ NormalizeSprintField(tasks[t].sprint)
                   = NormalizeSprintField(files[w][t][l].fm.sprint)
  <2>1. l \in Loc /\ Here(w, t, l)
    BY <1>2 DEF Here
  <2>2. at = {l}
    BY <2>1 DEF PlacesAgree, Here
  <2> QED
    BY <2>1, <2>2 DEF RowAgrees
<1>3. t \in backlog[w].listed => at = {"tasks"}
  BY DEF LinesAgree, PlacesAgree, Here, Loc
<1> QED
  BY <1>1, <1>2, <1>3 DEF TaskAgrees

\* What sync leaves unrepaired it reports: alone, with nothing to repair and
\* nothing for a person, it has seen database, files and BACKLOG.md agree.
THEOREM SyncCleanMeansAgree ==
    StartsTyped /\ IsFiniteSet(Proc) => (Spec => CleanMeansAgree)
<1> SUFFICES ASSUME StartsTyped, IsFiniteSet(Proc) PROVE Spec => CleanMeansAgree
  OBVIOUS
<1> DEFINE Agreed ==
      \A p \in Proc :
         Alone /\ pc[p] = "orphans" /\ pc'[p] = "fix" /\ job'[p].issues = {}
         /\ ~job'[p].manual =>
            /\ \A t \in Task : TaskAgrees(Tree[p], t)
            /\ \A s \in Sprint : SprintAgrees(Tree[p], s)
<1>1. Init => TypeInv /\ AloneInv
  BY TypedInitially, AloneInitially
<1>2. TypeInv /\ AloneInv /\ [Next]_vars => (TypeInv /\ AloneInv)'
  <2> SUFFICES ASSUME TypeInv, AloneInv, [Next]_vars PROVE (TypeInv /\ AloneInv)'
    OBVIOUS
  <2>1. TypeInv'
    BY TypedStep
  <2>2. CASE Next
    <3>1. AloneInv'
      BY <2>2, AloneStep DEF AloneInv
    <3> QED
      BY <3>1, <2>1
  <2>3. CASE UNCHANGED vars
    <3>1. \A c, j, w : Finds(c, j, w)' <=> Finds(c, j, w)
      BY <2>3, FindsKept DEF vars, project
    <3>2. AloneInv'
      BY <3>1, <2>3 DEF vars, AloneInv, Alone, Runs
    <3> QED
      BY <3>2, <2>1
  <2> QED
    BY <2>2, <2>3
<1>3. TypeInv /\ AloneInv /\ [Next]_vars => [Agreed]_vars
  <2> SUFFICES ASSUME TypeInv, AloneInv, Next, NEW p \in Proc, Alone, pc[p] = "orphans",
                      pc'[p] = "fix", job'[p].issues = {}, ~job'[p].manual
               PROVE  /\ \A t \in Task : TaskAgrees(Tree[p], t)
                      /\ \A s \in Sprint : SprintAgrees(Tree[p], s)
    OBVIOUS
  <2>1. PICK q \in Proc : BeginSync(q) \/ Step(q)
    BY AloneMoves DEF Alone
  <2>2. q = p
    BY <2>1, StepIsOwn
  <2>3. CheckOrphans(p)
    <3>1. /\ ~BeginSync(p) /\ ~CheckLocation(p) /\ ~ReadRows(p) /\ ~CompareFiles(p)
          /\ ~CheckListing(p) /\ ~CheckSummary(p) /\ ~ReadDocuments(p) /\ ~CompareSprints(p)
      BY DEF BeginSync, CheckLocation, ReadRows, CompareFiles, CheckListing, CheckSummary,
         ReadDocuments, CompareSprints
    <3>2. \A i : ~(FixRow(p, i) \/ FixLocation(p, i) \/ FixListing(p, i)
                   \/ FixSprint(p, i) \/ FixMetadata(p, i) \/ SkipFix(p, i))
      BY RepairGoesOn
    <3>3. ~(ClearSprint(p) \/ RereadSprint(p) \/ SaveSprint(p) \/ EndSync(p))
      BY LaterGoesOn DEF Looking
    <3> QED
      BY <3>1, <3>2, <3>3, <2>1, <2>2 DEF Step
  <2>4. PICK k : k = job'[p] /\ (Clean(k) => Clean(job[p]) /\ OrphansFound(p) = {})
    BY <2>3, OrphansAre DEF Reported
  <2>5. PICK j, w : j = job[p] /\ w = Tree[p]
    OBVIOUS
  <2>6. Clean(j) /\ OrphansFound(p) = {}
    BY <2>4, <2>5 DEF Clean
  <2>7. Finds("orphans", j, w)
    BY <2>5 DEF AloneInv
  <2>8. /\ j.seen = {e \in Task \X Loc : Here(w, e[1], e[2])} /\ LinesAgree(w)
        /\ \A t \in Task : PlacesAgree(w, t) /\ RowAgrees(w, t)
        /\ \A s \in Sprint : SprintAgrees(w, s)
    BY <2>6, <2>7 DEF Finds, Looking
  <2>9. \A t \in Task : TaskAgrees(w, t)
    BY <2>5, <2>6, <2>8, FoundTaskAgrees
  <2> QED
    BY <2>5, <2>8, <2>9
<1> QED
  BY <1>1, <1>2, <1>3, PTL DEF Spec, CleanMeansAgree

-----------------------------------------------------------------------------
(* A sync alone, again and again: after one sync no row lacks or is behind  *)
(* its file, after two nothing is amiss.                                     *)

Subject == Task \cup Sprint \cup {Nothing}
\* SPRINT.md says a title, BACKLOG.md counts below the heading that is rewritten.
Suited(w) ==
    /\ backlog[w].heading # "remaining"
    /\ \A s \in Sprint, l \in SprintPlace : docs[w][s][l] # "untitled"
    /\ \A s \in Sprint : \A l, m \in SprintPlace :
          docs[w][s][l] # "absent" /\ docs[w][s][m] # "absent" => l = m

WantedSprint(w, t, l) ==
    IF l = "tasks" THEN "" ELSE NormalizeSprintField(files[w][t][l].fm.sprint)
Afar(t) == /\ tasks[t].path # "stale"
                /\ \E v \in Worktree : Here(v, t, tasks[t].path)

\* What a row disagrees in with the file of its Task.
RowAmiss(k, w, t, l) ==
    \/ k = "db_missing_task" /\ ~tasks[t].is
    \/ /\ k = "db_status_mismatch" /\ tasks[t].is /\ l # "completed"
       /\ taskStatusRank(tasks[t].status) < taskStatusRank(Said(w, t, l))
    \/ /\ k = "completed_anomaly" /\ tasks[t].is /\ l = "completed"
       /\ tasks[t].status # "done" /\ Said(w, t, l) = "done"
    \/ /\ k = "db_sprint_mismatch" /\ tasks[t].is
       /\ NormalizeSprintField(tasks[t].sprint) # WantedSprint(w, t, l)
    \/ k = "db_file_path_mismatch" /\ tasks[t].is /\ tasks[t].path # l
TaskAmiss(k, w, t) ==
    \/ /\ k = "location_frontmatter_mismatch" /\ files[w][t]["tasks"].is = "read"
       /\ NormalizeSprintField(files[w][t]["tasks"].fm.sprint) # ""
    \/ \E l \in Loc : /\ Last(w, t, l) /\ files[w][t][l].is = "read"
                      /\ RowAmiss(k, w, t, l)
    \/ /\ k = "backlog_md_stale_completed"
       /\ t \in backlog[w].listed /\ ~Here(w, t, "tasks")
       /\ Here(w, t, "archive") \/ Here(w, t, "completed")
       /\ tasks[t].is /\ tasks[t].status = "done"
    \/ /\ k = "backlog_md_missing_entry" /\ t \notin backlog[w].listed
       /\ files[w][t]["tasks"].is = "read" /\ files[w][t]["tasks"].fm = Plain
    \/ /\ k = "db_orphan_task" /\ tasks[t].is /\ t \notin backlog[w].listed
       /\ (\A l \in Loc : ~Here(w, t, l)) /\ ~Afar(t)
\* The date is a matter of its own, see Dated below.
Stamp == "backlog_summary_stale_timestamp"
SummaryAmiss(k, w) ==
    \/ /\ k = "backlog_summary_count_mismatch" /\ backlog[w].heading = "remaining"
    \/ /\ k = "backlog_summary_sprint_table_stale" /\ backlog[w].section
       /\ \E s \in Sprint \ backlog[w].table :
             sprints[s].is /\ sprints[s].status \in {"active", "backlog"}
DocAmiss(k, w, s, l) ==
    \/ k = "db_missing_sprint" /\ ~sprints[s].is
    \/ k = "db_sprint_title_mismatch" /\ sprints[s].is /\ sprints[s].title = "old"
    \/ k = "db_sprint_folder_path_mismatch" /\ sprints[s].is /\ sprints[s].folder # l
    \/ /\ k = "db_sprint_status_file_absent" /\ sprints[s].is /\ sprints[s].status # l
       /\ ~isSprintStatusRegression(sprints[s].status, l)
    \/ /\ k = "db_sprint_metadata_stale" /\ sprints[s].is
       /\ \/ sprints[s].title = "id" \/ ~sprints[s].started
          \/ l = "completed" /\ ~sprints[s].completed
SprintAmiss(k, w, s) ==
    \E l \in SprintPlace : docs[w][s][l] # "absent" /\ DocAmiss(k, w, s, l)

\* A repair of kind k is due to o: a Task, BACKLOG.md or a Sprint.
Amiss(k, w, o) ==
    \/ k \in TaskKind /\ o \in Task /\ TaskAmiss(k, w, o)
    \/ k \in SummaryKind /\ o = Nothing /\ SummaryAmiss(k, w)
    \/ k \in SprintKind /\ o \in Sprint /\ SprintAmiss(k, w, o)

\* What a repair writes is what sync would write now.
TaskRight(w, i) ==
    LET t == i.on IN
    /\ i.kind = "location_frontmatter_mismatch" => i.at = "tasks"
    /\ i.kind \in {"db_missing_task", "db_status_mismatch"} =>
          \A l \in Loc : Last(w, t, l) => i.fm.status = Said(w, t, l)
    /\ i.kind = "completed_anomaly" =>
          \A l \in Loc : Last(w, t, l) => l = "completed"
    /\ i.kind = "db_sprint_mismatch" =>
          \A l \in Loc : Last(w, t, l) => i.fm.sprint = WantedSprint(w, t, l)
    /\ i.kind = "db_file_path_mismatch" => Last(w, t, i.at)
    /\ i.kind = "backlog_md_stale_completed" =>
          ~Here(w, t, "tasks") /\ \E l \in Loc : Here(w, t, l)
    /\ i.kind = "backlog_md_missing_entry" => Here(w, t, "tasks")
    /\ i.kind = "db_orphan_task" => \A l \in Loc : ~Here(w, t, l)
Right(w, i) ==
    /\ i.kind \in TaskKind => TaskRight(w, i)
    /\ i.kind # "backlog_summary_count_mismatch"
    /\ i.kind \in SprintKind => docs[w][i.on][i.at] = "titled"

\* The kinds that the checks before label c look for; after how many syncs none
\* of a kind is due any more.
Checked(c) ==
    {k \in Kind :
       \/ k = "location_frontmatter_mismatch" /\ c \notin {"idle", "location"}
       \/ k \in FileKind /\ c \notin {"idle", "location", "rows", "compare"}
       \/ /\ k \in {"backlog_md_stale_completed", "backlog_md_missing_entry"}
          /\ c \notin {"idle", "location", "rows", "compare", "listing"}
       \/ k \in SummaryKind
          /\ c \notin {"idle", "location", "rows", "compare", "listing", "summary"}
       \/ k \in SprintKind /\ c \in {"orphans", "fix", "clear", "reread", "save"}
       \/ k = "db_orphan_task" /\ c \in {"fix", "clear", "reread", "save"}}
Early == {"location_frontmatter_mismatch", "db_missing_task", "db_status_mismatch",
          "completed_anomaly", "db_missing_sprint", "db_sprint_status_file_absent"}
Over(n) == {k \in Kind : n >= 2 \/ (n = 1 /\ k \in Early)}

Pending(c, j, k, o) ==
    \/ \E i \in j.issues : i.kind = k /\ i.on = o
    \/ c \in {"reread", "save"} /\ k = "db_sprint_metadata_stale" /\ o = j.on

NoneDue(w, r) == \A k \in Over(r), o \in Subject : ~Amiss(k, w, o)
Covered(c, j, w, r) ==
    \A k \in Checked(c) \cap Over(r + 1), o \in Subject : Amiss(k, w, o) => Pending(c, j, k, o)
Sound(j, w, r) == \A i \in j.issues : Right(w, i) /\ i.kind \notin Over(r)
Kept(c, j, w, r) ==
    /\ c = "idle" => j.issues = {}
    /\ c \in {"sprints", "orphans", "fix", "clear", "reread", "save"} => j.found = docs[w]
    /\ r = 1 /\ c \in {"documents", "sprints", "orphans", "fix", "reread", "save"} =>
          j.table = TableOf
    /\ c = "clear" => r = 0
    /\ c \in {"reread", "save"} =>
          /\ r < 2 /\ docs[w][j.on][j.at] = "titled"
          /\ sprints[j.on].is => sprints[j.on].title # "id"
    /\ c = "save" => j.row = [sprints[j.on] EXCEPT !.started = TRUE,
                                !.completed = @ \/ j.at = "completed"]

\* What a sync of w, the only one, has settled at label c, after r of them.
Settling(c, j, w, r) ==
    NoneDue(w, r) /\ Covered(c, j, w, r) /\ Sound(j, w, r) /\ Kept(c, j, w, r)

LEMMA AmissKept ==
    ASSUME UNCHANGED project, NEW k, NEW w, NEW o PROVE Amiss(k, w, o)' <=> Amiss(k, w, o)
<1>1. UNCHANGED <<tasks, files, backlog, sprints, docs>>
  BY DEF project
<1>2. TaskAmiss(k, w, o)' <=> TaskAmiss(k, w, o)
  BY <1>1 DEF TaskAmiss, RowAmiss, Last, Here, Said, WantedSprint, Afar
<1>3. SummaryAmiss(k, w)' <=> SummaryAmiss(k, w)
  BY <1>1 DEF SummaryAmiss
<1>4. SprintAmiss(k, w, o)' <=> SprintAmiss(k, w, o)
  BY <1>1 DEF SprintAmiss, DocAmiss
<1> QED
  BY <1>2, <1>3, <1>4 DEF Amiss

\* What no sync changes: where files are, their status, the documents.
Steady(w) ==
    /\ \A t \in Task, l \in Loc :
          /\ files'[w][t][l].is = files[w][t][l].is
          /\ files'[w][t][l].fm.status = files[w][t][l].fm.status
          /\ l # "tasks" => files'[w][t][l] = files[w][t][l]
    /\ docs' = docs

LEMMA SteadyPlaces ==
    ASSUME NEW w, Steady(w), NEW t \in Task, NEW l \in Loc
    PROVE  /\ Here(w, t, l)' <=> Here(w, t, l)
           /\ Last(w, t, l)' <=> Last(w, t, l)
           /\ Said(w, t, l)' = Said(w, t, l)
           /\ WantedSprint(w, t, l)' = WantedSprint(w, t, l)
<1>1. \A m \in Loc : Here(w, t, m)' <=> Here(w, t, m)
  BY DEF Steady, Here
<1>2. Last(w, t, l)' <=> Last(w, t, l)
  BY <1>1 DEF Last
<1>3. Said(w, t, l)' = Said(w, t, l)
  BY DEF Steady, Said
<1>4. WantedSprint(w, t, l)' = WantedSprint(w, t, l)
  BY DEF Steady, WantedSprint
<1> QED
  BY <1>1, <1>2, <1>3, <1>4

LEMMA RightKept ==
    ASSUME NEW w, Steady(w), NEW i \in Proper, Right(w, i) PROVE Right(w, i)'
<1>1. ASSUME i.kind \in TaskKind PROVE TaskRight(w, i)'
  <2>1. i.on \in Task /\ TaskRight(w, i)
    BY <1>1 DEF Proper, Right
  <2>2. PICK t \in Task : t = i.on
    BY <2>1
  <2>3. \A l \in Loc : /\ Here(w, t, l)' <=> Here(w, t, l)
                       /\ Last(w, t, l)' <=> Last(w, t, l)
                       /\ Said(w, t, l)' = Said(w, t, l)
                       /\ WantedSprint(w, t, l)' = WantedSprint(w, t, l)
    BY SteadyPlaces
  <2>4. "tasks" \in Loc /\ (i.kind = "db_file_path_mismatch" => i.at \in Loc)
    BY DEF Loc, Proper, FileKind
  <2> QED
    BY <2>1, <2>2, <2>3, <2>4 DEF TaskRight
<1>2. (docs[w])' = docs[w]
  BY DEF Steady
<1> QED
  BY <1>1, <1>2 DEF Right

\* A check adds the repairs I: each is due and right, and all that is due is there.
LEMMA CheckSettles ==
    ASSUME UNCHANGED project, NEW w, NEW r, NEW c, NEW j, NEW d, NEW k, NEW I,
           Settling(c, j, w, r), j.issues \subseteq Proper,
           c \notin {"clear", "reread", "save"}, d \notin {"clear", "reread", "save"},
           k.issues = j.issues \cup I, Kept(d, k, w, r),
           \A i \in I : Right(w, i) /\ (Amiss(i.kind, w, i.on) \/ i.kind \notin Over(r))
                        /\ i.on \in Subject,
           \A x \in Checked(d) \ Checked(c), o \in Subject :
              Amiss(x, w, o) => \E i \in I : i.kind = x /\ i.on = o
    PROVE  Settling(d, k, w, r)'
<1>1. \A x, o : Amiss(x, w, o)' <=> Amiss(x, w, o)
  BY AmissKept
<1>2. UNCHANGED <<tasks, files, backlog, sprints, docs>>
  BY DEF project
<1>3. NoneDue(w, r)'
  BY <1>1 DEF Settling, NoneDue
<1>4. Sound(k, w, r)'
  <2> SUFFICES ASSUME NEW i \in k.issues PROVE Right(w, i)' /\ i.kind \notin Over(r)
    BY DEF Sound
  <2>1. Right(w, i)
    BY DEF Settling, Sound
  <2>2. Right(w, i)'
    BY <2>1, <1>2 DEF Right, TaskRight, Last, Here, Said, WantedSprint
  <2>3. i.kind \notin Over(r)
    BY DEF Settling, Sound, NoneDue
  <2> QED
    BY <2>2, <2>3
<1>5. Covered(d, k, w, r)'
  <2> SUFFICES ASSUME NEW x \in Checked(d), x \in Over(r + 1), NEW o \in Subject, Amiss(x, w, o)
               PROVE  Pending(d, k, x, o)
    BY <1>1 DEF Covered, Subject
  <2>1. CASE x \in Checked(c)
    BY <2>1 DEF Settling, Covered, Pending
  <2>2. CASE x \notin Checked(c)
    BY <2>2 DEF Pending
  <2> QED
    BY <2>1, <2>2
<1>6. Kept(d, k, w, r)'
  BY <1>2 DEF Kept, TableOf
<1> QED
  BY <1>3, <1>4, <1>5, <1>6 DEF Settling

\* What the checks find is due and right, and all that is due of their kinds.
FindsDue(w, I, K) ==
    /\ \A i \in I : Right(w, i) /\ Amiss(i.kind, w, i.on) /\ i.on \in Subject
    /\ \A x \in K, o \in Subject : Amiss(x, w, o) => \E i \in I : i.kind = x /\ i.on = o

LEMMA LocationDue ==
    ASSUME StartsTyped, TypeInv, NEW p \in Proc, NEW w, w = Tree[p],
           job[p].seen = {e \in Task \X Loc : Here(w, e[1], e[2])}
    PROVE  FindsDue(w, LocationFinds(p), {"location_frontmatter_mismatch"})
<1> DEFINE K == "location_frontmatter_mismatch"
<1>1. ASSUME NEW i \in LocationFinds(p)
      PROVE  Right(w, i) /\ Amiss(i.kind, w, i.on) /\ i.on \in Subject
  <2>1. PICK e \in ReadOf(p) : Sprinted(p, e) /\ i = Issue(K, e[1], e[2], Plain)
    BY <1>1 DEF LocationFinds
  <2>2. e \in Task \X Loc /\ e[1] \in Task /\ e[2] = "tasks"
    BY <2>1 DEF ReadOf, Sprinted
  <2>3. i.kind = K /\ i.on = e[1] /\ i.at = "tasks"
    BY <2>1, <2>2 DEF Issue
  <2>4. K \in TaskKind /\ K \notin SprintKind
    BY DEF TaskKind, FileKind, SprintKind
  <2>5. TaskAmiss(K, w, e[1])
    BY <2>1, <2>2 DEF TaskAmiss, ReadOf, Sprinted, TaskFile
  <2>6. TaskRight(w, i)
    BY <2>3 DEF TaskRight
  <2> QED
    BY <2>2, <2>3, <2>4, <2>5, <2>6 DEF Right, Amiss, Subject
<1>2. ASSUME NEW t \in Subject, Amiss(K, w, t)
      PROVE  \E i \in LocationFinds(p) : i.kind = K /\ i.on = t
  <2>1. K \notin SummaryKind /\ K \notin SprintKind
    BY DEF SummaryKind, SprintKind
  <2>2. t \in Task /\ TaskAmiss(K, w, t)
    BY <1>2, <2>1 DEF Amiss
  <2>3. files[w][t]["tasks"].is = "read"
        /\ NormalizeSprintField(files[w][t]["tasks"].fm.sprint) # ""
    BY <2>2 DEF TaskAmiss, RowAmiss
  <2>4. "tasks" \in Loc /\ Here(w, t, "tasks")
    BY <2>3 DEF Loc, Here
  <2>5. PICK e : e = <<t, "tasks">>
    OBVIOUS
  <2>6. e \in job[p].seen /\ e[1] = t /\ e[2] = "tasks"
    BY <2>2, <2>4, <2>5, SeenIs
  <2>7. e \in ReadOf(p) /\ Sprinted(p, e)
    BY <2>3, <2>6 DEF ReadOf, Sprinted, TaskFile
  <2>8. Issue(K, e[1], e[2], Plain) \in LocationFinds(p)
    BY <2>7 DEF LocationFinds
  <2> QED
    BY <2>6, <2>8 DEF Issue
<1> QED
  BY <1>1, <1>2 DEF FindsDue

\* What sync compares with is the last file of a Task.
LEMMA LastOfIs ==
    ASSUME StartsTyped, TypeInv, NEW p \in Proc, NEW w, w = Tree[p],
           job[p].seen = {e \in Task \X Loc : Here(w, e[1], e[2])},
           NEW t \in Task, NEW l \in Loc
    PROVE  <<t, l>> \in LastOf(p) <=> Last(w, t, l) /\ files[w][t][l].is = "read"
<1>1. PICK e : e = <<t, l>>
  OBVIOUS
<1>2. /\ e \in job[p].seen <=> Here(w, t, l)
      /\ e[1] = t /\ e[2] = l /\ TaskFile(p, t, l) = files[w][t][l]
  BY <1>1, SeenIs
<1>3. \A m \in Loc : <<t, m>> \in job[p].seen <=> Here(w, t, m)
  BY SeenIs
<1>4. LastSeen(p, t, l) <=> Last(w, t, l)
  BY <1>1, <1>2, <1>3 DEF LastSeen, Last
<1>5. e \in LastOf(p) <=> e \in job[p].seen /\ LastSeen(p, t, l) /\ files[w][t][l].is = "read"
  BY <1>2 DEF LastOf
<1> QED
  BY <1>1, <1>2, <1>4, <1>5 DEF Last

RowKind == {"db_status_mismatch", "completed_anomaly", "db_sprint_mismatch",
            "db_file_path_mismatch"}

LEMMA RowKindsApart ==
    /\ RowKind \subseteq FileKind /\ "db_missing_task" \in FileKind
    /\ \A k \in RowKind \cup {"db_missing_task"} :
          k \in TaskKind /\ k \in FileKind /\ k \notin SprintKind /\ k \notin SummaryKind
BY DEF RowKind, FileKind, TaskKind, SprintKind, SummaryKind

\* A repair of the row of t by its last file is right when it takes its values.
LEMMA RowRight ==
    ASSUME NEW w, NEW t \in Task, NEW l \in Loc, Last(w, t, l), NEW i,
           i.kind \in RowKind \cup {"db_missing_task"}, i.on = t,
           i.kind \in {"db_missing_task", "db_status_mismatch"} => i.fm.status = Said(w, t, l),
           i.kind = "completed_anomaly" => l = "completed",
           i.kind = "db_sprint_mismatch" => i.fm.sprint = WantedSprint(w, t, l),
           i.kind = "db_file_path_mismatch" => i.at = l
    PROVE  Right(w, i)
<1>1. \A m \in Loc : Last(w, t, m) => m = l
  BY LastUnique
<1>2. i.kind \notin {"location_frontmatter_mismatch", "backlog_md_stale_completed",
                     "backlog_md_missing_entry", "db_orphan_task",
                     "backlog_summary_count_mismatch"}
  BY DEF RowKind
<1>3. TaskRight(w, i)
  BY <1>1, <1>2 DEF TaskRight
<1> QED
  BY <1>2, <1>3, RowKindsApart DEF Right

RowFinds(row, t, l, fm) ==
    StatusIssue(row, t, l, fm) \cup SprintIssue(row, t, l, fm) \cup PathIssue(row, t, l, fm)

LEMMA RowDue ==
    ASSUME NEW w, NEW t \in Task, NEW l \in Loc, Last(w, t, l),
           files[w][t][l].is = "read", NEW fm \in FM, fm = files[w][t][l].fm,
           NEW row \in Row, row = tasks[t], row.is
    PROVE  /\ \A i \in RowFinds(row, t, l, fm) :
                 Right(w, i) /\ i.kind \in RowKind /\ i.on = t /\ RowAmiss(i.kind, w, t, l)
           /\ \A k \in RowKind : RowAmiss(k, w, t, l) =>
                 \E i \in RowFinds(row, t, l, fm) : i.kind = k /\ i.on = t
<1> DEFINE I == RowFinds(row, t, l, fm)
<1> USE DEF RowFinds
<1>1. fm.status \in Status /\ row.status \in Status /\ fm.status = Said(w, t, l)
  BY DEF FM, Row, Said
<1>2. row.status # fm.status /\ ~isTaskStatusRegression(row.status, fm.status)
      <=> taskStatusRank(row.status) < taskStatusRank(fm.status)
  BY <1>1, TaskRanks, TaskRankInjective DEF isTaskStatusRegression
<1>3. ASSUME NEW i \in StatusIssue(row, t, l, fm)
      PROVE  Right(w, i) /\ i.kind \in RowKind /\ i.on = t /\ RowAmiss(i.kind, w, t, l)
  <2>1. CASE /\ i = Issue("completed_anomaly", t, l, fm) /\ l = "completed"
             /\ row.status # "done" /\ fm.status = "done"
    <3>1. i.kind = "completed_anomaly" /\ i.on = t
      BY <2>1 DEF Issue
    <3>2. RowAmiss(i.kind, w, t, l)
      BY <2>1, <3>1, <1>1 DEF RowAmiss
    <3> QED
      BY <2>1, <3>1, <3>2, RowRight DEF RowKind
  <2>2. CASE /\ i = Issue("db_status_mismatch", t, l, fm) /\ l # "completed"
             /\ row.status # fm.status /\ ~isTaskStatusRegression(row.status, fm.status)
    <3>1. i.kind = "db_status_mismatch" /\ i.on = t /\ i.fm = fm
      BY <2>2 DEF Issue
    <3>2. RowAmiss(i.kind, w, t, l)
      BY <2>2, <3>1, <1>1, <1>2 DEF RowAmiss
    <3> QED
      BY <1>1, <3>1, <3>2, RowRight DEF RowKind
  <2> QED
    BY <1>3, <2>1, <2>2 DEF StatusIssue
<1>4. ASSUME NEW i \in SprintIssue(row, t, l, fm)
      PROVE  Right(w, i) /\ i.kind \in RowKind /\ i.on = t /\ RowAmiss(i.kind, w, t, l)
  <2>1. /\ i = Issue("db_sprint_mismatch", t, l, [fm EXCEPT !.sprint = WantedSprint(w, t, l)])
        /\ NormalizeSprintField(row.sprint) # WantedSprint(w, t, l)
    BY DEF SprintIssue, WantedSprint
  <2>2. i.kind = "db_sprint_mismatch" /\ i.on = t /\ i.fm.sprint = WantedSprint(w, t, l)
    BY <2>1 DEF Issue, FM
  <2>3. RowAmiss(i.kind, w, t, l)
    BY <2>1, <2>2 DEF RowAmiss
  <2> QED
    BY <2>2, <2>3, RowRight DEF RowKind
<1>5. ASSUME NEW i \in PathIssue(row, t, l, fm)
      PROVE  Right(w, i) /\ i.kind \in RowKind /\ i.on = t /\ RowAmiss(i.kind, w, t, l)
  <2>1. i = Issue("db_file_path_mismatch", t, l, fm) /\ row.path # l
    BY DEF PathIssue
  <2>2. i.kind = "db_file_path_mismatch" /\ i.on = t /\ i.at = l
    BY <2>1 DEF Issue
  <2>3. RowAmiss(i.kind, w, t, l)
    BY <2>1, <2>2 DEF RowAmiss
  <2> QED
    BY <2>2, <2>3, RowRight DEF RowKind
<1>6. ASSUME RowAmiss("db_status_mismatch", w, t, l)
      PROVE  \E i \in I : i.kind = "db_status_mismatch" /\ i.on = t
  <2>1. l # "completed" /\ taskStatusRank(row.status) < taskStatusRank(fm.status)
    BY <1>6, <1>1 DEF RowAmiss
  <2>2. Issue("db_status_mismatch", t, l, fm) \in I
    BY <2>1, <1>2 DEF StatusIssue
  <2> QED
    BY <2>2 DEF Issue
<1>7. ASSUME RowAmiss("completed_anomaly", w, t, l)
      PROVE  \E i \in I : i.kind = "completed_anomaly" /\ i.on = t
  <2>1. l = "completed" /\ row.status # "done" /\ fm.status = "done"
    BY <1>7, <1>1 DEF RowAmiss
  <2>2. Issue("completed_anomaly", t, l, fm) \in I
    BY <2>1 DEF StatusIssue
  <2> QED
    BY <2>2 DEF Issue
<1>8. ASSUME RowAmiss("db_sprint_mismatch", w, t, l)
      PROVE  \E i \in I : i.kind = "db_sprint_mismatch" /\ i.on = t
  <2>1. NormalizeSprintField(row.sprint) # WantedSprint(w, t, l)
    BY <1>8 DEF RowAmiss
  <2>2. Issue("db_sprint_mismatch", t, l, [fm EXCEPT !.sprint = WantedSprint(w, t, l)]) \in I
    BY <2>1 DEF SprintIssue, WantedSprint
  <2> QED
    BY <2>2 DEF Issue
<1>9. ASSUME RowAmiss("db_file_path_mismatch", w, t, l)
      PROVE  \E i \in I : i.kind = "db_file_path_mismatch" /\ i.on = t
  <2>1. Issue("db_file_path_mismatch", t, l, fm) \in I
    BY <1>9 DEF RowAmiss, PathIssue
  <2> QED
    BY <2>1 DEF Issue
<1> QED
  BY <1>3, <1>4, <1>5, <1>6, <1>7, <1>8, <1>9 DEF RowKind

LEMMA CompareDue ==
    ASSUME StartsTyped, TypeInv, NEW p \in Proc, NEW w, w = Tree[p],
           job[p].seen = {e \in Task \X Loc : Here(w, e[1], e[2])}, job[p].rows = tasks
    PROVE  FindsDue(w, CompareFinds(p), RowKind \cup {"db_missing_task"})
<1>1. ASSUME NEW e \in LastOf(p)
      PROVE  /\ e[1] \in Task /\ e[2] \in Loc /\ Last(w, e[1], e[2])
             /\ files[w][e[1]][e[2]].is = "read"
             /\ TaskFile(p, e[1], e[2]).fm = files[w][e[1]][e[2]].fm
             /\ files[w][e[1]][e[2]].fm \in FM /\ tasks[e[1]] \in Row
  <2>1. /\ e \in Task \X Loc /\ e[1] \in Task /\ e[2] \in Loc
        /\ TaskFile(p, e[1], e[2]).fm \in FM /\ job[p].rows[e[1]] \in Row
    BY LastTyped
  <2>2. e = <<e[1], e[2]>>
    BY <2>1
  <2>3. Last(w, e[1], e[2]) /\ files[w][e[1]][e[2]].is = "read"
    BY <2>1, <2>2, LastOfIs
  <2> QED
    BY <2>1, <2>3 DEF TaskFile
<1>2. ASSUME NEW e \in LastOf(p), ~tasks[e[1]].is
      PROVE  /\ Right(w, NewRow(p, e)) /\ NewRow(p, e).kind = "db_missing_task"
             /\ NewRow(p, e).on = e[1] /\ RowAmiss("db_missing_task", w, e[1], e[2])
  <2>1. /\ NewRow(p, e).kind = "db_missing_task" /\ NewRow(p, e).on = e[1]
        /\ NewRow(p, e).fm.status = Said(w, e[1], e[2])
    BY <1>1 DEF NewRow, Issue, FM, Said
  <2>2. Right(w, NewRow(p, e))
    BY <2>1, <1>1, RowRight DEF RowKind
  <2>3. RowAmiss("db_missing_task", w, e[1], e[2])
    BY <1>2 DEF RowAmiss
  <2> QED
    BY <2>1, <2>2, <2>3
<1>3. ASSUME NEW e \in LastOf(p), tasks[e[1]].is
      PROVE  /\ \A i \in FileFinds(p, e) : /\ Right(w, i) /\ i.kind \in RowKind /\ i.on = e[1]
                                           /\ RowAmiss(i.kind, w, e[1], e[2])
             /\ \A k \in RowKind : RowAmiss(k, w, e[1], e[2]) =>
                   \E i \in FileFinds(p, e) : i.kind = k /\ i.on = e[1]
  <2>1. PICK t \in Task, l \in Loc, row \in Row, fm \in FM :
           t = e[1] /\ l = e[2] /\ row = tasks[t] /\ fm = TaskFile(p, e[1], e[2]).fm
    BY <1>1
  <2>2. FileFinds(p, e) = RowFinds(row, t, l, fm)
    BY <2>1 DEF FileFinds, RowFinds
  <2>3. Last(w, t, l) /\ files[w][t][l].is = "read" /\ fm = files[w][t][l].fm /\ row.is
    BY <2>1, <1>1, <1>3
  <2>4. /\ \A i \in RowFinds(row, t, l, fm) :
              Right(w, i) /\ i.kind \in RowKind /\ i.on = t /\ RowAmiss(i.kind, w, t, l)
        /\ \A k \in RowKind : RowAmiss(k, w, t, l) =>
              \E i \in RowFinds(row, t, l, fm) : i.kind = k /\ i.on = t
    BY <2>1, <2>3, RowDue
  <2> QED
    BY <2>1, <2>2, <2>4
<1>4. ASSUME NEW i \in CompareFinds(p)
      PROVE  Right(w, i) /\ Amiss(i.kind, w, i.on) /\ i.on \in Subject
  <2>1. PICK e \in LastOf(p) : /\ Right(w, i) /\ i.kind \in RowKind \cup {"db_missing_task"}
                               /\ i.on = e[1] /\ RowAmiss(i.kind, w, e[1], e[2])
    BY <1>4, <1>2, <1>3 DEF CompareFinds, KnownOf
  <2>2. TaskAmiss(i.kind, w, e[1])
    BY <2>1, <1>1 DEF TaskAmiss
  <2> QED
    BY <2>1, <2>2, <1>1, RowKindsApart DEF Amiss, Subject
<1>5. ASSUME NEW k \in RowKind \cup {"db_missing_task"}, NEW t \in Subject, Amiss(k, w, t)
      PROVE  \E i \in CompareFinds(p) : i.kind = k /\ i.on = t
  <2>1. t \in Task /\ TaskAmiss(k, w, t)
    BY <1>5, RowKindsApart DEF Amiss
  <2>2. PICK l \in Loc : Last(w, t, l) /\ files[w][t][l].is = "read" /\ RowAmiss(k, w, t, l)
    BY <2>1 DEF TaskAmiss, RowKind
  <2>3. PICK e : e = <<t, l>>
    OBVIOUS
  <2>4. e \in LastOf(p) /\ e[1] = t /\ e[2] = l
    BY <2>1, <2>2, <2>3, LastOfIs
  <2>5. CASE tasks[t].is
    <3>1. k \in RowKind
      BY <2>2, <2>5 DEF RowAmiss
    <3>2. PICK i \in FileFinds(p, e) : i.kind = k /\ i.on = t
      BY <2>2, <2>4, <2>5, <3>1, <1>3
    <3>3. e \in KnownOf(p)
      BY <2>4, <2>5 DEF KnownOf
    <3> QED
      BY <3>2, <3>3 DEF CompareFinds
  <2>6. CASE ~tasks[t].is
    <3>1. k = "db_missing_task"
      BY <2>2, <2>6 DEF RowAmiss
    <3>2. e \in LastOf(p) \ KnownOf(p)
      BY <2>4, <2>6 DEF KnownOf
    <3>3. NewRow(p, e) \in CompareFinds(p)
      BY <3>2 DEF CompareFinds
    <3> QED
      BY <3>1, <3>3, <2>4, <2>6, <1>2
  <2> QED
    BY <2>5, <2>6
<1> QED
  BY <1>4, <1>5 DEF FindsDue

LEMMA ListingDue ==
    ASSUME StartsTyped, TypeInv, NEW p \in Proc, NEW w, w = Tree[p],
           job[p].seen = {e \in Task \X Loc : Here(w, e[1], e[2])}
    PROVE  FindsDue(w, ListingFinds(p), {"backlog_md_stale_completed", "backlog_md_missing_entry"})
<1> DEFINE Stale == "backlog_md_stale_completed"
           Missed == "backlog_md_missing_entry"
<1>1. Listed(p) = backlog[w].listed /\ Listed(p) \subseteq Task
  BY StateTyped DEF Listed, Listing
<1>2. {Stale, Missed} \subseteq TaskKind
  BY DEF TaskKind
<1>3. {Stale, Missed} \cap (SprintKind \cup SummaryKind) = {}
  BY DEF SprintKind, SummaryKind
<1>4. "tasks" \in Loc /\ "archive" \in Loc /\ "completed" \in Loc
  BY DEF Loc
<1>5. ASSUME NEW t \in Task
      PROVE  /\ <<t, "tasks">> \in job[p].seen <=> Here(w, t, "tasks")
             /\ <<t, "archive">> \in job[p].seen <=> Here(w, t, "archive")
             /\ <<t, "completed">> \in job[p].seen <=> Here(w, t, "completed")
             /\ TaskFile(p, t, "tasks") = files[w][t]["tasks"]
  BY <1>4, SeenIs
<1>6. ASSUME NEW t \in Task, t \in GoneOf(p), Finished(p, t)
      PROVE  /\ Right(w, Issue(Stale, t, "stale", Plain)) /\ Amiss(Stale, w, t)
  <2>1. ~Here(w, t, "tasks") /\ (Here(w, t, "archive") \/ Here(w, t, "completed"))
    BY <1>5, <1>6 DEF GoneOf, Finished
  <2>2. TaskAmiss(Stale, w, t)
    BY <2>1, <1>1, <1>6 DEF TaskAmiss, GoneOf, Finished
  <2>3. PICK i : i = Issue(Stale, t, "stale", Plain)
    OBVIOUS
  <2>30. i.kind = Stale /\ i.on = t
    BY <2>3 DEF Issue
  <2>4. TaskRight(w, i)
    BY <2>1, <2>30, <1>4 DEF TaskRight
  <2> QED
    BY <2>2, <2>3, <2>30, <2>4, <1>2, <1>3 DEF Right, Amiss
<1>7. ASSUME NEW t \in UnlistedOf(p)
      PROVE  /\ Right(w, Issue(Missed, t, "tasks", Plain)) /\ Amiss(Missed, w, t) /\ t \in Task
  <2>1. /\ t \in Task /\ Here(w, t, "tasks") /\ t \notin backlog[w].listed
        /\ files[w][t]["tasks"].is = "read" /\ files[w][t]["tasks"].fm = Plain
    BY <1>1, <1>5, <1>7 DEF UnlistedOf
  <2>2. TaskAmiss(Missed, w, t)
    BY <2>1 DEF TaskAmiss
  <2>3. PICK i : i = Issue(Missed, t, "tasks", Plain)
    OBVIOUS
  <2>30. i.kind = Missed /\ i.on = t
    BY <2>3 DEF Issue
  <2>4. TaskRight(w, i)
    BY <2>1, <2>30 DEF TaskRight
  <2> QED
    BY <2>1, <2>2, <2>3, <2>30, <2>4, <1>2, <1>3 DEF Right, Amiss
<1>8. ASSUME NEW i \in ListingFinds(p)
      PROVE  Right(w, i) /\ Amiss(i.kind, w, i.on) /\ i.on \in Subject
  <2>1. CASE \E t \in GoneOf(p) : Finished(p, t) /\ i = Issue(Stale, t, "stale", Plain)
    <3>1. PICK t \in Task : /\ t \in GoneOf(p) /\ Finished(p, t)
                            /\ i = Issue(Stale, t, "stale", Plain)
      BY <2>1, <1>1 DEF GoneOf
    <3>2. i.kind = Stale /\ i.on = t
      BY <3>1 DEF Issue
    <3> QED
      BY <3>1, <3>2, <1>6 DEF Subject
  <2>2. CASE \E t \in UnlistedOf(p) : i = Issue(Missed, t, "tasks", Plain)
    <3>1. PICK t \in UnlistedOf(p) : i = Issue(Missed, t, "tasks", Plain)
      BY <2>2
    <3>2. i.kind = Missed /\ i.on = t
      BY <3>1 DEF Issue
    <3> QED
      BY <3>1, <3>2, <1>7 DEF Subject
  <2> QED
    BY <1>8, <2>1, <2>2 DEF ListingFinds
<1>9. ASSUME NEW t \in Subject, Amiss(Stale, w, t)
      PROVE  \E i \in ListingFinds(p) : i.kind = Stale /\ i.on = t
  <2>1. t \in Task /\ TaskAmiss(Stale, w, t)
    BY <1>9, <1>3 DEF Amiss
  <2>2. /\ t \in backlog[w].listed /\ ~Here(w, t, "tasks")
        /\ Here(w, t, "archive") \/ Here(w, t, "completed")
        /\ tasks[t].is /\ tasks[t].status = "done"
    BY <2>1 DEF TaskAmiss, RowAmiss
  <2>3. t \in GoneOf(p) /\ Finished(p, t)
    BY <2>1, <2>2, <1>1, <1>5 DEF GoneOf, Finished
  <2>4. Issue(Stale, t, "stale", Plain) \in ListingFinds(p)
    BY <2>3 DEF ListingFinds
  <2> QED
    BY <2>4 DEF Issue
<1>10. ASSUME NEW t \in Subject, Amiss(Missed, w, t)
       PROVE  \E i \in ListingFinds(p) : i.kind = Missed /\ i.on = t
  <2>1. t \in Task /\ TaskAmiss(Missed, w, t)
    BY <1>10, <1>3 DEF Amiss
  <2>2. /\ t \notin backlog[w].listed
        /\ files[w][t]["tasks"].is = "read" /\ files[w][t]["tasks"].fm = Plain
    BY <2>1 DEF TaskAmiss, RowAmiss
  <2>3. t \in UnlistedOf(p)
    BY <2>1, <2>2, <1>1, <1>5 DEF UnlistedOf, Here
  <2>4. Issue(Missed, t, "tasks", Plain) \in ListingFinds(p)
    BY <2>3 DEF ListingFinds
  <2> QED
    BY <2>4 DEF Issue
<1> QED
  BY <1>8, <1>9, <1>10 DEF FindsDue

LEMMA SummaryDue ==
    ASSUME NEW p \in Proc, NEW w, w = Tree[p], Suited(w)
    PROVE  /\ \A i \in SummaryFinds(p) : /\ Right(w, i) /\ i.on \in Subject
                                         /\ \/ Amiss(i.kind, w, i.on)
                                            \/ i.kind = Stamp /\ ~backlog[w].dated
           /\ \A x \in SummaryKind, o \in Subject :
                 Amiss(x, w, o) => \E i \in SummaryFinds(p) : i.kind = x /\ i.on = o
<1> DEFINE Count == "backlog_summary_count_mismatch"
           Tables == "backlog_summary_sprint_table_stale"
           H == Issue(Stamp, Nothing, "stale", Plain)
           I == Issue(Tables, Nothing, "stale", Plain)
           due == backlog[w].section /\ \E s \in Sprint \ backlog[w].table :
                     sprints[s].is /\ sprints[s].status \in {"active", "backlog"}
<1>1. SummaryFinds(p) = (IF ~backlog[w].dated THEN {H} ELSE {}) \cup (IF due THEN {I} ELSE {})
  <2>1. backlog[w].heading # "remaining"
    BY DEF Suited
  <2> DEFINE missing == {s \in {u \in Sprint : sprints[u].is} \ backlog[w].table :
                           sprints[s].status \in {"active", "backlog"}}
  <2>2. due <=> backlog[w].section /\ missing # {}
    OBVIOUS
  <2>3. SummaryFinds(p) = (IF ~backlog[w].dated THEN {H} ELSE {})
                          \cup (IF backlog[w].section /\ missing # {} THEN {I} ELSE {})
    BY <2>1 DEF SummaryFinds, Stamp
  <2> QED
    BY <2>2, <2>3
<1>2. I.kind = Tables /\ I.on = Nothing /\ H.kind = Stamp /\ H.on = Nothing
  BY DEF Issue
<1>3. Tables \in SummaryKind /\ Tables \notin TaskKind /\ Tables \notin SprintKind
      /\ Count \notin TaskKind /\ Count \notin SprintKind
      /\ Stamp \notin TaskKind /\ Stamp \notin SprintKind /\ Stamp # Count
      /\ SummaryKind = {Stamp, Count, Tables}
  BY DEF Stamp, SummaryKind, TaskKind, FileKind, SprintKind
<1>4. SummaryAmiss(Tables, w) <=> due
  BY DEF SummaryAmiss
<1>5. ~SummaryAmiss(Count, w) /\ ~SummaryAmiss(Stamp, w)
  BY DEF SummaryAmiss, Suited, Stamp
<1>6. Right(w, I) /\ Right(w, H)
  BY <1>2, <1>3 DEF Right
<1>7. \A o : Amiss(Tables, w, o) <=> o = Nothing /\ due
  BY <1>3, <1>4 DEF Amiss
<1>8. \A o : ~Amiss(Count, w, o) /\ ~Amiss(Stamp, w, o)
  BY <1>3, <1>5 DEF Amiss
<1> HIDE DEF due, H, I
<1> QED
  BY <1>1, <1>2, <1>3, <1>6, <1>7, <1>8 DEF Subject

LEMMA DocDue ==
    ASSUME TypeInv, NEW w, Suited(w), NEW s \in Sprint, NEW l \in SprintPlace,
           docs[w][s][l] = "titled", NEW k \in SprintKind
    PROVE  DocAmiss(k, w, s, l) <=> Issue(k, s, l, Plain) \in SprintIssues(s, l, "titled")
<1> DEFINE r == sprints[s]
           due(x) == 
             \/ x = "db_missing_sprint" /\ ~r.is
             \/ x = "db_sprint_title_mismatch" /\ r.is /\ "titled" = "titled" /\ r.title = "old"
             \/ x = "db_sprint_folder_path_mismatch" /\ r.is /\ r.folder # l
             \/ /\ x = "db_sprint_status_file_absent" /\ r.is /\ r.status # l
                /\ ~isSprintStatusRegression(r.status, l)
             \/ /\ x = "db_sprint_metadata_stale" /\ r.is
                /\ r.title = "id" \/ ~r.started \/ (l = "completed" /\ ~r.completed)
<1>1. SprintIssues(s, l, "titled") = {Issue(x, s, l, Plain) : x \in {y \in Kind : due(y)}}
  BY DEF SprintIssues
<1>2. DocAmiss(k, w, s, l) <=> due(k)
  BY DEF DocAmiss
<1> HIDE DEF due
<1>3. k \in Kind
  BY Kinds
<1>4. \A x : Issue(x, s, l, Plain).kind = x
  BY DEF Issue
<1> QED
  BY <1>1, <1>2, <1>3, <1>4

LEMMA SprintsDue ==
    ASSUME StartsTyped, TypeInv, NEW p \in Proc, NEW w, w = Tree[p], Suited(w),
           job[p].found = docs[w]
    PROVE  FindsDue(w, SprintsFind(p), SprintKind)
<1>1. \A s \in Sprint, l \in SprintPlace : docs[w][s][l] # "absent" => docs[w][s][l] = "titled"
  <2>1. w \in Worktree /\ docs \in [Worktree -> [Sprint -> [SprintPlace -> Doc]]]
    BY StateTyped DEF TypeInv, TypeOK
  <2> QED
    BY <2>1 DEF Suited, Doc
<1>2. ASSUME NEW i \in SprintsFind(p)
      PROVE  Right(w, i) /\ Amiss(i.kind, w, i.on) /\ i.on \in Subject
  <2>1. PICK e \in DocumentsOf(p) : i \in SprintIssues(e[1], e[2], job[p].found[e[1]][e[2]])
    BY <1>2 DEF SprintsFind
  <2>2. PICK s \in Sprint, l \in SprintPlace :
           s = e[1] /\ l = e[2] /\ docs[w][s][l] # "absent"
    BY <2>1 DEF DocumentsOf
  <2>3. i \in SprintIssues(s, l, "titled") /\ docs[w][s][l] = "titled"
    BY <2>1, <2>2, <1>1
  <2>4. PICK k \in SprintKind : i = Issue(k, s, l, Plain)
    BY <2>3, Zenon DEF SprintIssues, SprintKind
  <2>5. i.kind = k /\ i.on = s /\ i.at = l
    BY <2>4 DEF Issue
  <2>6. DocAmiss(k, w, s, l)
    BY <2>3, <2>4, DocDue
  <2>7. SprintAmiss(k, w, s)
    BY <2>3, <2>6 DEF SprintAmiss
  <2>8. k \notin TaskKind /\ k # "backlog_summary_count_mismatch"
    BY DEF SprintKind, TaskKind, FileKind
  <2> QED
    BY <2>3, <2>5, <2>7, <2>8 DEF Right, Amiss, Subject
<1>3. ASSUME NEW k \in SprintKind, NEW s \in Subject, Amiss(k, w, s)
      PROVE  \E i \in SprintsFind(p) : i.kind = k /\ i.on = s
  <2>1. s \in Sprint /\ SprintAmiss(k, w, s)
    BY <1>3, Kinds DEF Amiss
  <2>2. PICK l \in SprintPlace : docs[w][s][l] # "absent" /\ DocAmiss(k, w, s, l)
    BY <2>1 DEF SprintAmiss
  <2>3. docs[w][s][l] = "titled"
    BY <2>1, <2>2, <1>1
  <2>4. Issue(k, s, l, Plain) \in SprintIssues(s, l, "titled")
    BY <2>1, <2>2, <2>3, DocDue
  <2>5. PICK e : e = <<s, l>>
    OBVIOUS
  <2>6. e \in DocumentsOf(p) /\ e[1] = s /\ e[2] = l
    BY <2>1, <2>2, <2>5 DEF DocumentsOf
  <2>7. Issue(k, s, l, Plain) \in SprintIssues(e[1], e[2], job[p].found[e[1]][e[2]])
    BY <2>3, <2>4, <2>6
  <2>8. Issue(k, s, l, Plain) \in SprintsFind(p)
    BY <2>6, <2>7 DEF SprintsFind
  <2> QED
    BY <2>8 DEF Issue
<1> QED
  BY <1>2, <1>3 DEF FindsDue

LEMMA OrphansDue ==
    ASSUME StartsTyped, TypeInv, NEW p \in Proc, NEW w, w = Tree[p],
           job[p].seen = {e \in Task \X Loc : Here(w, e[1], e[2])}
    PROVE  FindsDue(w, OrphansFound(p), {"db_orphan_task"})
<1> DEFINE K == "db_orphan_task"
           orphan(t) == /\ tasks[t].is /\ t \notin Listed(p)
                        /\ \A l \in Loc : <<t, l>> \notin job[p].seen
                        /\ ~\E v \in Worktree : /\ tasks[t].path # "stale"
                                                /\ files[v][t][tasks[t].path].is # "absent"
<1>1. OrphansFound(p) = {Issue(K, t, "stale", Plain) : t \in {u \in Task : orphan(u)}}
  BY DEF OrphansFound
<1>2. Listed(p) = backlog[w].listed
  BY DEF Listed
<1>3. K \in TaskKind /\ K \notin SprintKind /\ K \notin SummaryKind
  BY DEF TaskKind, SprintKind, SummaryKind
<1>4. ASSUME NEW t \in Task
      PROVE  /\ orphan(t) <=> TaskAmiss(K, w, t)
             /\ orphan(t) => \A l \in Loc : ~Here(w, t, l)
  <2>1. \A l \in Loc : <<t, l>> \in job[p].seen <=> Here(w, t, l)
    BY SeenIs
  <2>2. TaskAmiss(K, w, t) <=>
          /\ tasks[t].is /\ t \notin backlog[w].listed
          /\ (\A l \in Loc : ~Here(w, t, l)) /\ ~Afar(t)
    BY DEF TaskAmiss, RowAmiss
  <2>3. Afar(t) <=> \E v \in Worktree : /\ tasks[t].path # "stale"
                                        /\ files[v][t][tasks[t].path].is # "absent"
    BY DEF Afar, Here
  <2> QED
    BY <2>1, <2>2, <2>3, <1>2
<1> HIDE DEF orphan
<1>5. ASSUME NEW t \in Task, orphan(t) PROVE Right(w, Issue(K, t, "stale", Plain))
  <2>1. PICK i : i = Issue(K, t, "stale", Plain)
    OBVIOUS
  <2>10. i.kind = K /\ i.on = t
    BY <2>1 DEF Issue
  <2>2. TaskRight(w, i)
    BY <2>10, <1>4, <1>5 DEF TaskRight
  <2> QED
    BY <2>1, <2>10, <2>2, <1>3 DEF Right
<1>6. \A t : Issue(K, t, "stale", Plain).kind = K /\ Issue(K, t, "stale", Plain).on = t
  BY DEF Issue
<1>7. \A t : Amiss(K, w, t) <=> t \in Task /\ TaskAmiss(K, w, t)
  BY <1>3 DEF Amiss
<1> QED
  BY <1>1, <1>4, <1>5, <1>6, <1>7 DEF FindsDue, Subject

LEMMA NewlyChecked ==
    /\ Checked("idle") = {} /\ Checked("location") = {} /\ Checked("compare") = Checked("rows")
    /\ Checked("rows") \subseteq {"location_frontmatter_mismatch"}
    /\ Checked("listing") \ Checked("compare") \subseteq RowKind \cup {"db_missing_task"}
    /\ Checked("summary") \ Checked("listing")
          \subseteq {"backlog_md_stale_completed", "backlog_md_missing_entry"}
    /\ Checked("documents") \ Checked("summary") \subseteq SummaryKind
    /\ Checked("sprints") = Checked("documents")
    /\ Checked("orphans") \ Checked("sprints") \subseteq SprintKind
    /\ Checked("fix") \ Checked("orphans") \subseteq {"db_orphan_task"}
<1>1. \A k \in FileKind : /\ k \notin SummaryKind \cup SprintKind \cup {"db_orphan_task"}
                          /\ k # "backlog_md_stale_completed" /\ k # "backlog_md_missing_entry"
                          /\ k \in RowKind \cup {"db_missing_task", "location_frontmatter_mismatch"}
  BY DEF FileKind, RowKind, SummaryKind, SprintKind
<1>2. Checked("idle") = {} /\ Checked("location") = {} /\ Checked("compare") = Checked("rows")
      /\ Checked("rows") \subseteq {"location_frontmatter_mismatch"}
  BY DEF Checked
<1>3. Checked("listing") \ Checked("compare") \subseteq RowKind \cup {"db_missing_task"}
  BY <1>1 DEF Checked
<1>4. Checked("summary") \ Checked("listing")
          \subseteq {"backlog_md_stale_completed", "backlog_md_missing_entry"}
  BY DEF Checked
<1>5. Checked("documents") \ Checked("summary") \subseteq SummaryKind
  BY DEF Checked
<1>6. Checked("sprints") = Checked("documents")
  BY DEF Checked
<1>7. Checked("orphans") \ Checked("sprints") \subseteq SprintKind
  BY DEF Checked
<1>8. Checked("fix") \ Checked("orphans") \subseteq {"db_orphan_task"}
  BY DEF Checked
<1> QED
  BY <1>2, <1>3, <1>4, <1>5, <1>6, <1>7, <1>8

\* Process p goes on to d with the repairs I added to what it has.
Added(p, d, I) ==
    \E k : /\ pc'[p] = d /\ job'[p] = k /\ k.issues = job[p].issues \cup I
           /\ k.found = job[p].found /\ k.table = job[p].table

LEMMA ReportAdds ==
    ASSUME TypeInv, NEW p \in Proc, NEW d, NEW I, NEW b \in BOOLEAN, Report(p, d, I, b)
    PROVE  Added(p, d, I)
<1>1. PICK j : j = job[p]
  OBVIOUS
<1>2. j \in Job
  BY <1>1 DEF TypeInv, TypeOK
<1> DEFINE k == [j EXCEPT !.issues = @ \cup I, !.manual = @ \/ b]
<1>3. pc'[p] = d /\ job'[p] = k
  BY <1>1 DEF Report, Continue, TypeInv, TypeOK
<1>4. k.issues = j.issues \cup I /\ k.found = j.found /\ k.table = j.table
  BY <1>2 DEF Job
<1> QED
  BY <1>1, <1>3, <1>4 DEF Added

LEMMA ReportSettles ==
    ASSUME TypeInv, NEW p \in Proc, NEW w, NEW r, NEW c, NEW j, c = pc[p], j = job[p],
           UNCHANGED project, Settling(c, j, w, r),
           c \notin {"clear", "reread", "save"}, NEW d, d \notin {"clear", "reread", "save"},
           NEW I, Added(p, d, I), NEW K, FindsDue(w, I, K),
           Checked(d) \ Checked(c) \subseteq K,
           \A k : k.found = j.found /\ k.table = j.table => Kept(d, k, w, r)
    PROVE  \E e, k : pc'[p] = e /\ job'[p] = k /\ Settling(e, k, w, r)'
<1>1. PICK k : /\ pc'[p] = d /\ job'[p] = k /\ k.issues = j.issues \cup I
               /\ k.found = j.found /\ k.table = j.table
  BY DEF Added
<1>2. j.issues \subseteq Proper
  BY DEF TypeInv, Shape
<1>3. Kept(d, k, w, r)
  BY <1>1
<1>4. /\ \A i \in I : Right(w, i) /\ Amiss(i.kind, w, i.on) /\ i.on \in Subject
      /\ \A x \in Checked(d) \ Checked(c), o \in Subject :
            Amiss(x, w, o) => \E i \in I : i.kind = x /\ i.on = o
  BY DEF FindsDue
<1>5. Settling(d, k, w, r)'
  BY <1>1, <1>2, <1>3, <1>4, CheckSettles
<1> QED
  BY <1>1, <1>5

LEMMA LocationSettles ==
    ASSUME StartsTyped, TypeInv, NEW p \in Proc, NEW w, w = Tree[p], NEW r, NEW c, NEW j,
           c = pc[p], j = job[p], Finds(c, j, w), Settling(c, j, w, r), CheckLocation(p)
    PROVE  \E e, k : pc'[p] = e /\ job'[p] = k /\ Settling(e, k, w, r)'
<1>1. /\ c = "location" /\ UNCHANGED project
  BY LocationReports
<1>2. j.seen = {e \in Task \X Loc : Here(w, e[1], e[2])}
  BY <1>1 DEF Finds, Looking
<1>3. FindsDue(w, LocationFinds(p), {"location_frontmatter_mismatch"})
  BY <1>2, LocationDue
<1>4. \A k : k.found = j.found /\ k.table = j.table => Kept("rows", k, w, r)
  BY DEF Kept
<1>5. Added(p, "rows", LocationFinds(p))
  BY LocationReports, LocationFindsProper, ReportAdds, Zenon
<1>6. Checked("rows") \ Checked(c) \subseteq {"location_frontmatter_mismatch"}
  BY <1>1, NewlyChecked
<1>7. c \notin {"clear", "reread", "save"} /\ "rows" \notin {"clear", "reread", "save"}
  BY <1>1
<1> QED
  BY <1>1, <1>3, <1>4, <1>5, <1>6, <1>7, ReportSettles, ZenonT(60)

LEMMA CompareSettles ==
    ASSUME StartsTyped, TypeInv, NEW p \in Proc, NEW w, w = Tree[p], NEW r, NEW c, NEW j,
           c = pc[p], j = job[p], Finds(c, j, w), Settling(c, j, w, r), CompareFiles(p)
    PROVE  \E e, k : pc'[p] = e /\ job'[p] = k /\ Settling(e, k, w, r)'
<1>1. /\ c = "compare" /\ UNCHANGED project
  BY CompareReports
<1>2. j.seen = {e \in Task \X Loc : Here(w, e[1], e[2])} /\ j.rows = tasks
  BY <1>1 DEF Finds, Looking
<1>3. FindsDue(w, CompareFinds(p), RowKind \cup {"db_missing_task"})
  BY <1>2, CompareDue
<1>4. \A k : k.found = j.found /\ k.table = j.table => Kept("listing", k, w, r)
  BY DEF Kept
<1>5. Added(p, "listing", CompareFinds(p))
  BY CompareReports, CompareFindsProper, ReportAdds, Zenon
<1>6. Checked("listing") \ Checked(c) \subseteq RowKind \cup {"db_missing_task"}
  BY <1>1, NewlyChecked
<1>7. c \notin {"clear", "reread", "save"} /\ "listing" \notin {"clear", "reread", "save"}
  BY <1>1
<1> QED
  BY <1>1, <1>3, <1>4, <1>5, <1>6, <1>7, ReportSettles, Zenon

LEMMA ListingSettles ==
    ASSUME StartsTyped, TypeInv, NEW p \in Proc, NEW w, w = Tree[p], NEW r, NEW c, NEW j,
           c = pc[p], j = job[p], Finds(c, j, w), Settling(c, j, w, r), CheckListing(p)
    PROVE  \E e, k : pc'[p] = e /\ job'[p] = k /\ Settling(e, k, w, r)'
<1>1. /\ c = "listing" /\ UNCHANGED project
  BY ListingReports
<1>2. j.seen = {e \in Task \X Loc : Here(w, e[1], e[2])}
  BY <1>1 DEF Finds, Looking
<1>3. FindsDue(w, ListingFinds(p), {"backlog_md_stale_completed", "backlog_md_missing_entry"})
  BY <1>2, ListingDue
<1>4. \A k : k.found = j.found /\ k.table = j.table => Kept("summary", k, w, r)
  BY DEF Kept
<1>5. Added(p, "summary", ListingFinds(p))
  BY ListingReports, ListingFindsProper, ReportAdds, Zenon
<1>6. Checked("summary") \ Checked(c)
         \subseteq {"backlog_md_stale_completed", "backlog_md_missing_entry"}
  BY <1>1, NewlyChecked
<1>7. c \notin {"clear", "reread", "save"} /\ "summary" \notin {"clear", "reread", "save"}
  BY <1>1
<1> QED
  BY <1>1, <1>3, <1>4, <1>5, <1>6, <1>7, ReportSettles, ZenonT(60)

LEMMA SprintsSettle ==
    ASSUME StartsTyped, TypeInv, NEW p \in Proc, NEW w, w = Tree[p], NEW r, NEW c, NEW j,
           c = pc[p], j = job[p], Suited(w), Settling(c, j, w, r), CompareSprints(p)
    PROVE  \E e, k : pc'[p] = e /\ job'[p] = k /\ Settling(e, k, w, r)'
<1>1. /\ c = "sprints" /\ UNCHANGED project
  BY SprintsReport
<1>2. j.found = docs[w] /\ (r = 1 => j.table = TableOf)
  BY <1>1 DEF Settling, Kept
<1>3. FindsDue(w, SprintsFind(p), SprintKind)
  BY <1>2, SprintsDue
<1>4. \A k : k.found = j.found /\ k.table = j.table => Kept("orphans", k, w, r)
  BY <1>2 DEF Kept
<1>5. Added(p, "orphans", SprintsFind(p))
  BY SprintsReport, SprintsFindProper, ReportAdds, Zenon
<1>6. Checked("orphans") \ Checked(c) \subseteq SprintKind
  BY <1>1, NewlyChecked
<1>7. c \notin {"clear", "reread", "save"} /\ "orphans" \notin {"clear", "reread", "save"}
  BY <1>1
<1> QED
  BY <1>1, <1>3, <1>4, <1>5, <1>6, <1>7, ReportSettles, ZenonT(60)

LEMMA OrphansSettle ==
    ASSUME StartsTyped, TypeInv, NEW p \in Proc, NEW w, w = Tree[p], NEW r, NEW c, NEW j,
           c = pc[p], j = job[p], Finds(c, j, w), Settling(c, j, w, r), CheckOrphans(p)
    PROVE  \E e, k : pc'[p] = e /\ job'[p] = k /\ Settling(e, k, w, r)'
<1>1. /\ c = "orphans" /\ UNCHANGED project
      /\ Report(p, "fix", OrphansFound(p), FALSE)
  BY OrphansReport
<1>2. /\ j.seen = {e \in Task \X Loc : Here(w, e[1], e[2])}
      /\ j.found = docs[w] /\ (r = 1 => j.table = TableOf)
  BY <1>1 DEF Finds, Looking, Settling, Kept
<1>3. FindsDue(w, OrphansFound(p), {"db_orphan_task"})
  BY <1>2, OrphansDue
<1>4. \A k : k.found = j.found /\ k.table = j.table => Kept("fix", k, w, r)
  BY <1>2 DEF Kept
<1>6. Added(p, "fix", OrphansFound(p))
  BY <1>1, ReportAdds
<1>5. Checked("fix") \ Checked(c) \subseteq {"db_orphan_task"}
  BY <1>1, NewlyChecked
<1>7. c \notin {"clear", "reread", "save"} /\ "fix" \notin {"clear", "reread", "save"}
  BY <1>1
<1> QED
  BY <1>1, <1>3, <1>4, <1>5, <1>6, <1>7, ReportSettles, ZenonT(60)

LEMMA SummarySettles ==
    ASSUME StartsTyped, TypeInv, NEW p \in Proc, NEW w, w = Tree[p], NEW r, NEW c, NEW j,
           c = pc[p], j = job[p], Suited(w), Settling(c, j, w, r), CheckSummary(p),
           r \in Nat, r >= 1 => backlog[w].dated
    PROVE  \E e, k : pc'[p] = e /\ job'[p] = k /\ Settling(e, k, w, r)'
<1>0. PICK k : k = [j EXCEPT !.table = TableOf, !.issues = @ \cup SummaryFinds(p)]
  OBVIOUS
<1>1. c = "summary" /\ UNCHANGED project /\ pc'[p] = "documents" /\ job'[p] = k
  BY <1>0, SummaryReports, ZenonT(60) DEF Continue, TypeInv, TypeOK
<1>2. k.issues = j.issues \cup SummaryFinds(p) /\ k.table = TableOf
  BY <1>0, StateTyped DEF Job
<1>3. r = 0 => Over(r) = {}
  BY DEF Over
<1>4. Checked("documents") \ Checked(c) \subseteq SummaryKind
  BY <1>1, NewlyChecked
<1>5. /\ \A i \in SummaryFinds(p) : /\ Right(w, i) /\ i.on \in Subject
                                    /\ Amiss(i.kind, w, i.on) \/ i.kind \notin Over(r)
      /\ \A x \in Checked("documents") \ Checked(c), o \in Subject :
            Amiss(x, w, o) => \E i \in SummaryFinds(p) : i.kind = x /\ i.on = o
  BY <1>3, <1>4, SummaryDue
<1>6. Kept("documents", k, w, r)
  BY <1>2 DEF Kept
<1>7. j.issues \subseteq Proper
  BY DEF TypeInv, Shape
<1>8. Settling("documents", k, w, r)'
  BY <1>1, <1>2, <1>5, <1>6, <1>7, CheckSettles
<1> QED
  BY <1>1, <1>8

\* The steps between checks find nothing.
LEMMA LookSettles ==
    ASSUME UNCHANGED project, NEW w, NEW r, NEW c, NEW j, NEW d, NEW k,
           Settling(c, j, w, r), j.issues \subseteq Proper, k.issues = j.issues,
           c \notin {"clear", "reread", "save"}, d \notin {"clear", "reread", "save"},
           Checked(d) \subseteq Checked(c), Kept(d, k, w, r)
    PROVE  Settling(d, k, w, r)'
<1>1. PICK I : I = {}
  OBVIOUS
<1>2. /\ k.issues = j.issues \cup I
      /\ \A i \in I : Right(w, i) /\ Amiss(i.kind, w, i.on) /\ i.on \in Subject
      /\ \A x \in Checked(d) \ Checked(c), o \in Subject :
            Amiss(x, w, o) => \E i \in I : i.kind = x /\ i.on = o
  BY <1>1
<1> QED
  BY <1>2, CheckSettles, Zenon

LEMMA ReadRowsSettles ==
    ASSUME StartsTyped, TypeInv, NEW p \in Proc, NEW w, NEW r, NEW c, NEW j,
           c = pc[p], j = job[p], Settling(c, j, w, r), ReadRows(p)
    PROVE  \E e, k : pc'[p] = e /\ job'[p] = k /\ Settling(e, k, w, r)'
<1>0. PICK k : k = [j EXCEPT !.rows = tasks]
  OBVIOUS
<1>1. c = "rows" /\ UNCHANGED project /\ pc'[p] = "compare" /\ job'[p] = k
  BY <1>0 DEF ReadRows, Continue, TypeInv, TypeOK
<1>2. k.issues = j.issues
  BY <1>0, StateTyped DEF Job
<1>3. Kept("compare", k, w, r)
  BY DEF Kept
<1>4. j.issues \subseteq Proper /\ Checked("compare") \subseteq Checked(c)
  BY <1>1, NewlyChecked DEF TypeInv, Shape
<1>5. Settling("compare", k, w, r)'
  BY <1>1, <1>2, <1>3, <1>4, LookSettles
<1> QED
  BY <1>1, <1>5

LEMMA DocumentsSettle ==
    ASSUME StartsTyped, TypeInv, NEW p \in Proc, NEW w, w = Tree[p], NEW r, NEW c, NEW j,
           c = pc[p], j = job[p], Settling(c, j, w, r), ReadDocuments(p)
    PROVE  \E e, k : pc'[p] = e /\ job'[p] = k /\ Settling(e, k, w, r)'
<1>0. PICK k : k = [j EXCEPT !.found = docs[w]]
  OBVIOUS
<1>1. c = "documents" /\ UNCHANGED project /\ pc'[p] = "sprints" /\ job'[p] = k
  BY <1>0 DEF ReadDocuments, Continue, TypeInv, TypeOK
<1>2. k.issues = j.issues /\ k.found = docs[w] /\ k.table = j.table
  BY <1>0, StateTyped DEF Job
<1>3. Kept("sprints", k, w, r)
  BY <1>1, <1>2 DEF Kept, Settling
<1>4. j.issues \subseteq Proper /\ Checked("sprints") \subseteq Checked(c)
  BY <1>1, NewlyChecked DEF TypeInv, Shape
<1>5. Settling("sprints", k, w, r)'
  BY <1>1, <1>2, <1>3, <1>4, LookSettles
<1> QED
  BY <1>1, <1>5

LEMMA BeginSettles ==
    ASSUME StartsTyped, TypeInv, NEW p \in Proc, NEW w, NEW r, NEW c, NEW j,
           c = pc[p], j = job[p], Settling(c, j, w, r), BeginSync(p)
    PROVE  \E e, k : pc'[p] = e /\ job'[p] = k /\ Settling(e, k, w, r)'
<1>0. PICK k : k = [NoJob EXCEPT !.seen =
                   {e \in Task \X Loc : TaskFile(p, e[1], e[2]).is # "absent"}]
  OBVIOUS
<1>1. c = "idle" /\ UNCHANGED project /\ pc'[p] = "location" /\ job'[p] = k
  BY <1>0 DEF BeginSync, Continue, TypeInv, TypeOK
<1>2. k.issues = j.issues
  BY <1>0, <1>1 DEF NoJob, Settling, Kept
<1>3. Kept("location", k, w, r)
  BY DEF Kept
<1>4. j.issues \subseteq Proper /\ Checked("location") \subseteq Checked(c)
  BY <1>1, NewlyChecked DEF TypeInv, Shape
<1>5. Settling("location", k, w, r)'
  BY <1>1, <1>2, <1>3, <1>4, LookSettles
<1> QED
  BY <1>1, <1>5

-----------------------------------------------------------------------------
(* The repairs make nothing of these kinds due that was not.               *)

NoWorse(K, w) == \A k \in K, o \in Subject : Amiss(k, w, o)' => Amiss(k, w, o)

Fixing == {"fix", "clear", "reread", "save"}

LEMMA RepairSettles ==
    ASSUME NEW w, NEW r \in Nat, NEW c \in Fixing, NEW j, Settling(c, j, w, r),
           j.issues \subseteq Proper, NEW d \in Fixing, NEW k, k.issues \subseteq j.issues,
           Steady(w), NoWorse(Over(r + 1), w), Kept(d, k, w, r)',
           \A x \in Over(r + 1), o \in Subject :
              Pending(c, j, x, o) /\ Amiss(x, w, o)' => Pending(d, k, x, o)
    PROVE  Settling(d, k, w, r)'
<1>1. NoneDue(w, r)'
  <2> SUFFICES ASSUME NEW x \in Over(r), NEW o \in Subject, Amiss(x, w, o)' PROVE FALSE
    BY DEF NoneDue, Subject
  <2>1. x \in Over(r + 1)
    BY DEF Over
  <2>2. Amiss(x, w, o)
    BY <2>1 DEF NoWorse
  <2> QED
    BY <2>2 DEF Settling, NoneDue
<1>2. Sound(k, w, r)'
  <2> SUFFICES ASSUME NEW i \in k.issues PROVE Right(w, i)' /\ i.kind \notin Over(r)
    BY DEF Sound
  <2>1. i \in Proper /\ Right(w, i) /\ i.kind \notin Over(r)
    BY DEF Settling, Sound
  <2> QED
    BY <2>1, RightKept
<1>3. Covered(d, k, w, r)'
  <2> SUFFICES ASSUME NEW x \in Checked(d), x \in Over(r + 1), NEW o \in Subject, Amiss(x, w, o)'
               PROVE  Pending(d, k, x, o)
    BY DEF Covered, Subject
  <2>1. x \in Checked(c) /\ x \in Kind
    BY DEF Checked, Fixing
  <2>2. Amiss(x, w, o)
    BY DEF NoWorse
  <2>3. Pending(c, j, x, o)
    BY <2>1, <2>2 DEF Settling, Covered
  <2> QED
    BY <2>1, <2>3
<1> QED
  BY <1>1, <1>2, <1>3 DEF Settling

\* A repair is of the first or of the second sync.
LEMMA RepairRound ==
    ASSUME NEW w, NEW r \in Nat, NEW c, NEW j, Settling(c, j, w, r), NEW i \in j.issues,
           j.issues \subseteq Proper
    PROVE  i \in Proper /\ Right(w, i) /\ r \in {0, 1} /\ (r = 1 => i.kind \notin Early)
<1>1. i.kind \in Kind /\ i.kind \notin Over(r) /\ Right(w, i)
  BY DEF Settling, Sound, Proper, Issues
<1> QED
  BY <1>1 DEF Over

LEMMA NoWorseThen ==
    ASSUME NEW w, NEW r \in {0, 1}, NoWorse(Early, w), r = 1 => NoWorse(Kind, w)
    PROVE  NoWorse(Over(r + 1), w)
<1>1. CASE r = 0
  BY <1>1 DEF Over, NoWorse
<1>2. CASE r = 1
  BY <1>2 DEF Over, NoWorse
<1> QED
  BY <1>1, <1>2

\* One repair leaves the list, and what it was about is no longer amiss; only of
\* the kinds that a first sync may leave it can be.
LEMMA DoneSettles ==
    ASSUME NEW w, NEW r \in Nat, NEW j, Settling("fix", j, w, r),
           j.issues \subseteq Proper, NEW i \in j.issues, NEW d \in Fixing, NEW k,
           k.issues = j.issues \ {i}, Steady(w), NoWorse(Early, w),
           r = 1 => NoWorse(Kind, w), Kept(d, k, w, r)',
           \/ ~Amiss(i.kind, w, i.on)'
           \/ r = 0 /\ i.kind \notin Early
           \/ d = "reread" /\ i.kind = "db_sprint_metadata_stale" /\ k.on = i.on
    PROVE  Settling(d, k, w, r)'
<1>1. r \in {0, 1}
  BY RepairRound
<1>2. NoWorse(Over(r + 1), w)
  BY <1>1, NoWorseThen
<1>3. ASSUME NEW x \in Over(r + 1), NEW o \in Subject, Pending("fix", j, x, o), Amiss(x, w, o)'
      PROVE  Pending(d, k, x, o)
  <2>0. r = 0 => x \in Early
    BY DEF Over
  <2>1. PICK i2 \in j.issues : i2.kind = x /\ i2.on = o
    BY <1>3 DEF Pending
  <2>2. CASE i2 # i
    BY <2>1, <2>2 DEF Pending
  <2>3. CASE i2 = i
    BY <2>0, <2>1, <2>3, <1>3 DEF Pending
  <2> QED
    BY <2>2, <2>3
<1>4. "fix" \in Fixing
  BY DEF Fixing
<1> QED
  BY <1>2, <1>3, <1>4, RepairSettles

-----------------------------------------------------------------------------
(* Repairs of a row of the table tasks.                                    *)

LEMMA OneRow ==
    ASSUME UNCHANGED <<files, backlog, sprints, docs>>, NEW w, NEW t \in Task,
           \A u \in Task \ {t} : tasks'[u] = tasks[u], NEW k, NEW o, Amiss(k, w, o)'
    PROVE  Amiss(k, w, o) \/ (k \in TaskKind /\ o = t /\ TaskAmiss(k, w, t)')
<1>1. SummaryAmiss(k, w)' <=> SummaryAmiss(k, w)
  BY DEF SummaryAmiss
<1>2. SprintAmiss(k, w, o)' <=> SprintAmiss(k, w, o)
  BY DEF SprintAmiss, DocAmiss
<1>3. ASSUME o \in Task \ {t} PROVE TaskAmiss(k, w, o)' <=> TaskAmiss(k, w, o)
  <2>1. tasks'[o] = tasks[o]
    BY <1>3
  <2> QED
    BY <2>1 DEF TaskAmiss, RowAmiss, Last, Here, Said, WantedSprint, Afar
<1> QED
  BY <1>1, <1>2, <1>3 DEF Amiss

\* What can be amiss of t after its row has changed.
LEMMA RowChange ==
    ASSUME UNCHANGED <<files, backlog>>, NEW w, NEW t, NEW k, TaskAmiss(k, w, t)'
    PROVE  \/ TaskAmiss(k, w, t)
           \/ \E l \in Loc : /\ Last(w, t, l) /\ files[w][t][l].is = "read"
                             /\ RowAmiss(k, w, t, l)'
           \/ /\ k = "backlog_md_stale_completed" /\ tasks'[t].is /\ tasks'[t].status = "done"
              /\ ~(tasks[t].is /\ tasks[t].status = "done")
           \/ /\ k = "db_orphan_task" /\ tasks'[t].is /\ t \notin backlog[w].listed
              /\ (\A l \in Loc : ~Here(w, t, l)) /\ ~Afar(t)'
<1>1. \A l \in Loc : (Last(w, t, l)' <=> Last(w, t, l)) /\ (Here(w, t, l)' <=> Here(w, t, l))
  BY DEF Last, Here
<1>2. /\ Here(w, t, "tasks")' <=> Here(w, t, "tasks")
      /\ Here(w, t, "archive")' <=> Here(w, t, "archive")
      /\ Here(w, t, "completed")' <=> Here(w, t, "completed")
  BY DEF Here
<1> QED
  BY <1>1, <1>2 DEF TaskAmiss

LEMMA RowAmissNext ==
    ASSUME UNCHANGED files, NEW k, NEW w, NEW t, NEW l
    PROVE  RowAmiss(k, w, t, l)' <=>
             \/ k = "db_missing_task" /\ ~tasks'[t].is
             \/ /\ k = "db_status_mismatch" /\ tasks'[t].is /\ l # "completed"
                /\ taskStatusRank(tasks'[t].status) < taskStatusRank(Said(w, t, l))
             \/ /\ k = "completed_anomaly" /\ tasks'[t].is /\ l = "completed"
                /\ tasks'[t].status # "done" /\ Said(w, t, l) = "done"
             \/ /\ k = "db_sprint_mismatch" /\ tasks'[t].is
                /\ NormalizeSprintField(tasks'[t].sprint) # WantedSprint(w, t, l)
             \/ k = "db_file_path_mismatch" /\ tasks'[t].is /\ tasks'[t].path # l
BY DEF RowAmiss, Said, WantedSprint, taskStatusRank, NormalizeSprintField

\* The repair of kind h of a row of t: what it is about is no longer amiss, and a
\* repair of a later kind makes nothing amiss that was not.
Mends(h, w, t) ==
    /\ ~TaskAmiss(h, w, t)'
    /\ \A k \in TaskKind :
          TaskAmiss(k, w, t)' => TaskAmiss(k, w, t) \/ (h \in Early /\ k \notin Early)

LEMMA AsBefore ==
    ASSUME UNCHANGED <<tasks, files, backlog>>, NEW w, NEW t, NEW h, ~TaskAmiss(h, w, t)
    PROVE  Mends(h, w, t)
<1>1. \A k, l : RowAmiss(k, w, t, l)' <=> RowAmiss(k, w, t, l)
  BY DEF RowAmiss, Said, WantedSprint
<1>2. \A l : (Here(w, t, l)' <=> Here(w, t, l)) /\ (Last(w, t, l)' <=> Last(w, t, l))
  BY DEF Last, Here
<1>3. Afar(t)' <=> Afar(t)
  BY DEF Afar, Here
<1>4. ASSUME NEW k PROVE TaskAmiss(k, w, t)' <=> TaskAmiss(k, w, t)
  BY <1>1, <1>2, <1>3 DEF TaskAmiss
<1> QED
  BY <1>4 DEF Mends

\* A row that was not there, or is set to the status of the file.
LEMMA StatusMends ==
    ASSUME TypeInv, UNCHANGED <<files, backlog>>, NEW w \in Worktree, NEW t \in Task,
           tasks'[t].is,
           NEW h \in {"db_missing_task", "db_status_mismatch", "completed_anomaly"},
           \A l \in Loc : Last(w, t, l) =>
              \/ tasks'[t].status = Said(w, t, l)
              \/ tasks'[t].status = "done" /\ l = "completed"
    PROVE  Mends(h, w, t)
<1>1. ASSUME NEW l \in Loc, Last(w, t, l), NEW k, RowAmiss(k, w, t, l)'
      PROVE  k \in {"db_sprint_mismatch", "db_file_path_mismatch"}
  <2>1. k # "db_missing_task"
    BY <1>1, RowAmissNext
  <2>2. k # "db_status_mismatch"
    <3> SUFFICES ASSUME k = "db_status_mismatch" PROVE FALSE
      OBVIOUS
    <3>1. /\ l # "completed"
          /\ taskStatusRank(tasks'[t].status) < taskStatusRank(Said(w, t, l))
      BY <1>1, RowAmissNext
    <3>2. tasks'[t].status = Said(w, t, l)
      BY <1>1, <3>1, Zenon
    <3>3. Said(w, t, l) \in Status
      BY SaidTyped
    <3> QED
      BY <3>1, <3>2, <3>3, TaskRanks
  <2>3. k # "completed_anomaly"
    BY <1>1, RowAmissNext
  <2> QED
    BY <1>1, <2>1, <2>2, <2>3, RowAmissNext
<1>2. ASSUME NEW k, TaskAmiss(k, w, t)', ~TaskAmiss(k, w, t) PROVE k \notin Early /\ k # h
  <2>1. k \in {"db_sprint_mismatch", "db_file_path_mismatch", "backlog_md_stale_completed",
               "db_orphan_task"}
    BY <1>1, <1>2, RowChange
  <2> QED
    BY <2>1 DEF Early
<1>3. ~TaskAmiss(h, w, t)'
  <2> SUFFICES ASSUME TaskAmiss(h, w, t)' PROVE FALSE
    OBVIOUS
  <2>1. PICK l \in Loc : Last(w, t, l)' /\ RowAmiss(h, w, t, l)'
    BY DEF TaskAmiss
  <2>2. Last(w, t, l)
    BY <2>1 DEF Last, Here
  <2> QED
    BY <2>1, <2>2, <1>1
<1>4. h \in Early
  BY DEF Early
<1> QED
  BY <1>2, <1>3, <1>4 DEF Mends

LEMMA FieldMends ==
    ASSUME UNCHANGED <<files, backlog>>, NEW w, NEW t,
           tasks[t].is, tasks'[t].is, tasks'[t].status = tasks[t].status,
           NEW h \in {"db_sprint_mismatch", "db_file_path_mismatch"},
           h = "db_sprint_mismatch" =>
              /\ tasks'[t].path = tasks[t].path
              /\ \A l \in Loc : Last(w, t, l) =>
                    NormalizeSprintField(tasks'[t].sprint) = WantedSprint(w, t, l),
           h = "db_file_path_mismatch" =>
              /\ tasks'[t].sprint = tasks[t].sprint
              /\ tasks'[t].path \in Loc /\ Last(w, t, tasks'[t].path)
    PROVE  Mends(h, w, t)
<1>1. ASSUME NEW l \in Loc, Last(w, t, l), NEW k, RowAmiss(k, w, t, l)'
      PROVE  k # h /\ RowAmiss(k, w, t, l)
  <2>1. k = "db_sprint_mismatch" => h = "db_file_path_mismatch"
    BY <1>1, RowAmissNext
  <2>2. k = "db_file_path_mismatch" => h = "db_sprint_mismatch"
    BY <1>1, RowAmissNext, LastUnique
  <2>3. RowAmiss(k, w, t, l)
    <3>1. CASE k \in {"db_missing_task", "completed_anomaly"}
      BY <1>1, <3>1, RowAmissNext DEF RowAmiss
    <3>4. CASE k = "db_status_mismatch"
      <4>1. PICK x : x = tasks[t].status /\ x = tasks'[t].status
        OBVIOUS
      <4>2. l # "completed" /\ taskStatusRank(x) < taskStatusRank(Said(w, t, l))
        BY <1>1, <3>4, <4>1, RowAmissNext
      <4> QED
        BY <3>4, <4>1, <4>2 DEF RowAmiss
    <3>2. CASE k = "db_sprint_mismatch"
      BY <1>1, <2>1, <3>2, RowAmissNext DEF RowAmiss
    <3>3. CASE k = "db_file_path_mismatch"
      BY <1>1, <2>2, <3>3, RowAmissNext DEF RowAmiss
    <3> QED
      BY <1>1, <3>1, <3>2, <3>3, <3>4, RowAmissNext
  <2> QED
    BY <2>1, <2>2, <2>3
<1>2. ASSUME NEW k, TaskAmiss(k, w, t)' PROVE TaskAmiss(k, w, t)
  <2>1. CASE \E l \in Loc : /\ Last(w, t, l) /\ files[w][t][l].is = "read"
                            /\ RowAmiss(k, w, t, l)'
    BY <1>1, <2>1 DEF TaskAmiss
  <2>2. CASE /\ k = "db_orphan_task" /\ tasks'[t].is /\ t \notin backlog[w].listed
             /\ (\A l \in Loc : ~Here(w, t, l)) /\ ~Afar(t)'
    <3>1. h = "db_sprint_mismatch"
      BY <2>2 DEF Last
    <3>2. ~Afar(t)
      BY <2>2, <3>1 DEF Afar, Here
    <3> QED
      BY <2>2, <3>2 DEF TaskAmiss
  <2> QED
    BY <1>2, <2>1, <2>2, RowChange
<1>3. ~TaskAmiss(h, w, t)'
  <2> SUFFICES ASSUME TaskAmiss(h, w, t)' PROVE FALSE
    OBVIOUS
  <2>1. PICK l \in Loc : Last(w, t, l)' /\ RowAmiss(h, w, t, l)'
    BY DEF TaskAmiss
  <2>2. Last(w, t, l)
    BY <2>1 DEF Last, Here
  <2> QED
    BY <2>1, <2>2, <1>1
<1> QED
  BY <1>2, <1>3 DEF Mends

LEMMA OrphanMends ==
    ASSUME UNCHANGED <<files, backlog>>, NEW w, NEW t, ~tasks'[t].is,
           \A l \in Loc : ~Here(w, t, l)
    PROVE  Mends("db_orphan_task", w, t)
<1>1. \A l \in Loc : ~Last(w, t, l) /\ ~Last(w, t, l)'
  BY DEF Last, Here
<1>2. \A k : TaskAmiss(k, w, t)' => TaskAmiss(k, w, t)
  BY <1>1, RowChange
<1>3. ~TaskAmiss("db_orphan_task", w, t)'
  BY <1>1 DEF TaskAmiss
<1> QED
  BY <1>2, <1>3 DEF Mends

LEMMA DoneAlone ==
    ASSUME TypeInv, NEW p \in Proc, NEW w, NEW r \in Nat, NEW j, j = job[p],
           Settling("fix", j, w, r), NEW i \in j.issues, Done(p, i), Steady(w),
           NoWorse(Early, w), r = 1 => NoWorse(Kind, w) /\ TableOf' = TableOf,
           ~Amiss(i.kind, w, i.on)' \/ (r = 0 /\ i.kind \notin Early)
    PROVE  \E e, k : pc'[p] = e /\ job'[p] = k /\ Settling(e, k, w, r)'
<1>0. PICK k : k = [j EXCEPT !.issues = @ \ {i}]
  OBVIOUS
<1>1. pc'[p] = "fix" /\ job'[p] = k /\ k.issues = j.issues \ {i}
  BY <1>0, DoneIs
<1>2. k.found = j.found /\ k.table = j.table
  BY <1>0 DEF TypeInv, TypeOK, Job
<1>3. j.found = docs[w] /\ (r = 1 => j.table = TableOf)
  BY DEF Settling, Kept
<1>4. (docs[w])' = docs[w]
  BY DEF Steady
<1>5. Kept("fix", k, w, r)'
  BY <1>2, <1>3, <1>4 DEF Kept
<1>6. j.issues \subseteq Proper /\ "fix" \in Fixing
  BY DEF TypeInv, Shape, Fixing
<1>7. Settling("fix", k, w, r)'
  BY <1>1, <1>5, <1>6, DoneSettles
<1> QED
  BY <1>1, <1>7

LEMMA RowHeals ==
    ASSUME UNCHANGED <<files, backlog, sprints, docs>>, NEW w, NEW t \in Task,
           \A u \in Task \ {t} : tasks'[u] = tasks[u], NEW h \in TaskKind, Mends(h, w, t)
    PROVE  /\ Steady(w) /\ TableOf' = TableOf /\ ~Amiss(h, w, t)'
           /\ NoWorse(Early, w) /\ (h \notin Early => NoWorse(Kind, w))
<1>1. Steady(w) /\ TableOf' = TableOf
  BY DEF Steady, TableOf
<1>2. ~Amiss(h, w, t)'
  BY Kinds DEF Amiss, Mends
<1>3. ASSUME NEW k, NEW o, Amiss(k, w, o)', ~Amiss(k, w, o) PROVE h \in Early /\ k \notin Early
  <2>1. k \in TaskKind /\ o = t /\ TaskAmiss(k, w, t)'
    BY <1>3, OneRow
  <2>2. ~TaskAmiss(k, w, t)
    BY <1>3, <2>1 DEF Amiss
  <2> QED
    BY <2>1, <2>2 DEF Mends
<1>4. NoWorse(Early, w)
  BY <1>3 DEF NoWorse
<1>5. h \notin Early => NoWorse(Kind, w)
  BY <1>3 DEF NoWorse
<1> QED
  BY <1>1, <1>2, <1>4, <1>5

LEMMA SetRowIs ==
    ASSUME TypeInv, NEW t \in Task, NEW row, SetRow(t, row)
    PROVE  /\ tasks[t].is => tasks'[t] = row
           /\ ~tasks[t].is => tasks' = tasks
           /\ \A u \in Task \ {t} : tasks'[u] = tasks[u]
BY DEF SetRow, TypeInv, TypeOK

\* Without a row there is none to set.
LEMMA NoRowMends ==
    ASSUME UNCHANGED <<tasks, files, backlog>>, NEW w, NEW t, ~tasks[t].is,
           NEW h \in RowKind
    PROVE  Mends(h, w, t)
<1>1. ~TaskAmiss(h, w, t)
  BY DEF TaskAmiss, RowAmiss, RowKind
<1> QED
  BY <1>1, AsBefore

LEMMA FixRowMends ==
    ASSUME StartsTyped, TypeInv, NEW p \in Proc, NEW w \in Worktree, NEW i \in Proper,
           NEW t \in Task, i.on = t, TaskRight(w, i), FixRow(p, i)
    PROVE  Mends(i.kind, w, t) /\ \A u \in Task \ {t} : tasks'[u] = tasks[u]
<1>1. UNCHANGED <<files, backlog>>
  BY DEF FixRow
<1>2. tasks[t] \in Row /\ i.fm \in FM
  BY DEF TypeInv, TypeOK, Proper, Issues
<1>3. CASE i.kind = "db_missing_task"
  <2>1. PICK row : row = [is |-> TRUE, status |-> i.fm.status, sprint |-> i.fm.sprint, path |-> i.at]
    OBVIOUS
  <2>2. tasks' = IF tasks[t].is THEN tasks ELSE [tasks EXCEPT ![t] = row]
    BY <1>3, <2>1 DEF FixRow
  <2>3. \A u \in Task \ {t} : tasks'[u] = tasks[u]
    BY <2>2 DEF TypeInv, TypeOK
  <2>4. CASE tasks[t].is
    <3>1. ~TaskAmiss(i.kind, w, t)
      BY <1>3, <2>4 DEF TaskAmiss, RowAmiss
    <3> QED
      BY <1>1, <2>2, <2>3, <2>4, <3>1, AsBefore
  <2>5. CASE ~tasks[t].is
    <3>1. tasks'[t].is /\ tasks'[t].status = i.fm.status
      BY <2>1, <2>2, <2>5 DEF TypeInv, TypeOK
    <3>2. \A l \in Loc : Last(w, t, l) => tasks'[t].status = Said(w, t, l)
      BY <1>3, <3>1 DEF TaskRight
    <3> QED
      BY <1>1, <1>3, <2>3, <3>1, <3>2, StatusMends
  <2> QED
    BY <2>4, <2>5
<1>4. CASE i.kind = "db_status_mismatch"
  <2>1. PICK row : row = [tasks[t] EXCEPT !.status = i.fm.status]
    OBVIOUS
  <2>2. SetRow(t, row)
    BY <1>4, <2>1 DEF FixRow
  <2>3. CASE tasks[t].is
    <3>1. tasks'[t].is /\ tasks'[t].status = i.fm.status
      BY <1>2, <2>1, <2>2, <2>3, SetRowIs DEF Row
    <3>2. \A l \in Loc : Last(w, t, l) => tasks'[t].status = Said(w, t, l)
      BY <1>4, <3>1 DEF TaskRight
    <3> QED
      BY <1>1, <1>4, <2>2, <3>1, <3>2, SetRowIs, StatusMends
  <2>4. CASE ~tasks[t].is
    BY <1>1, <1>4, <2>2, <2>4, SetRowIs, NoRowMends DEF RowKind
  <2> QED
    BY <2>3, <2>4
<1>5. CASE i.kind = "completed_anomaly"
  <2>1. PICK row : row = [tasks[t] EXCEPT !.status = "done"]
    OBVIOUS
  <2>2. SetRow(t, row)
    BY <1>5, <2>1 DEF FixRow
  <2>3. CASE tasks[t].is
    <3>1. tasks'[t].is /\ tasks'[t].status = "done"
      BY <1>2, <2>1, <2>2, <2>3, SetRowIs DEF Row
    <3>2. \A l \in Loc : Last(w, t, l) => tasks'[t].status = "done" /\ l = "completed"
      BY <1>5, <3>1 DEF TaskRight
    <3> QED
      BY <1>1, <1>5, <2>2, <3>1, <3>2, SetRowIs, StatusMends
  <2>4. CASE ~tasks[t].is
    BY <1>1, <1>5, <2>2, <2>4, SetRowIs, NoRowMends DEF RowKind
  <2> QED
    BY <2>3, <2>4
<1>6. CASE i.kind = "db_sprint_mismatch"
  <2>1. PICK row : row = [tasks[t] EXCEPT !.sprint = i.fm.sprint]
    OBVIOUS
  <2>2. SetRow(t, row)
    BY <1>6, <2>1 DEF FixRow
  <2>3. CASE tasks[t].is
    <3>1. /\ tasks'[t].is /\ tasks'[t].status = tasks[t].status
          /\ tasks'[t].path = tasks[t].path /\ tasks'[t].sprint = i.fm.sprint
      BY <1>2, <2>1, <2>2, <2>3, SetRowIs DEF Row
    <3>2. ASSUME NEW l \in Loc, Last(w, t, l)
          PROVE  NormalizeSprintField(tasks'[t].sprint) = WantedSprint(w, t, l)
      <4>1. tasks'[t].sprint = WantedSprint(w, t, l)
        BY <1>6, <3>1, <3>2 DEF TaskRight
      <4> QED
        BY <4>1 DEF WantedSprint, NormalizeSprintField
    <3> QED
      BY <1>1, <1>6, <2>2, <2>3, <3>1, <3>2, SetRowIs, FieldMends
  <2>4. CASE ~tasks[t].is
    BY <1>1, <1>6, <2>2, <2>4, SetRowIs, NoRowMends DEF RowKind
  <2> QED
    BY <2>3, <2>4
<1>7. CASE i.kind = "db_file_path_mismatch"
  <2>1. PICK row : row = [tasks[t] EXCEPT !.path = i.at]
    OBVIOUS
  <2>2. SetRow(t, row)
    BY <1>7, <2>1 DEF FixRow
  <2>3. CASE tasks[t].is
    <3>1. /\ tasks'[t].is /\ tasks'[t].status = tasks[t].status
          /\ tasks'[t].sprint = tasks[t].sprint /\ tasks'[t].path = i.at
      BY <1>2, <2>1, <2>2, <2>3, SetRowIs DEF Row
    <3>2. i.at \in Loc /\ Last(w, t, i.at)
      BY <1>7 DEF TaskRight, Proper, FileKind
    <3> QED
      BY <1>1, <1>7, <2>2, <2>3, <3>1, <3>2, SetRowIs, FieldMends
  <2>4. CASE ~tasks[t].is
    BY <1>1, <1>7, <2>2, <2>4, SetRowIs, NoRowMends DEF RowKind
  <2> QED
    BY <2>3, <2>4
<1>8. CASE i.kind = "db_orphan_task"
  <2>1. SetRow(t, NoRow) /\ ~NoRow.is
    BY <1>8 DEF FixRow, NoRow
  <2>2. ~tasks'[t].is
    BY <2>1, SetRowIs
  <2>3. \A l \in Loc : ~Here(w, t, l)
    BY <1>8 DEF TaskRight
  <2> QED
    BY <1>1, <1>8, <2>1, <2>2, <2>3, SetRowIs, OrphanMends
<1> QED
  BY <1>3, <1>4, <1>5, <1>6, <1>7, <1>8 DEF FixRow

LEMMA FixRowSettles ==
    ASSUME StartsTyped, TypeInv, NEW p \in Proc, NEW w, w = Tree[p], NEW r \in Nat,
           NEW c, NEW j, c = pc[p], j = job[p], Settling(c, j, w, r),
           NEW i \in j.issues, FixRow(p, i)
    PROVE  \E e, k : pc'[p] = e /\ job'[p] = k /\ Settling(e, k, w, r)'
<1>1. c = "fix" /\ Done(p, i) /\ UNCHANGED <<files, backlog, sprints, docs>>
  BY DEF FixRow, Due
<1>2. j.issues \subseteq Proper /\ w \in Worktree
  BY StateTyped DEF TypeInv, Shape
<1>3. i \in Proper /\ Right(w, i) /\ r \in {0, 1} /\ (r = 1 => i.kind \notin Early)
  BY <1>2, RepairRound
<1>4. i.kind \in TaskKind
  BY DEF FixRow, TaskKind, FileKind
<1>5. PICK t \in Task : t = i.on
  BY <1>3, <1>4 DEF Proper
<1>6. TaskRight(w, i)
  BY <1>3, <1>4 DEF Right
<1>7. Mends(i.kind, w, t) /\ \A u \in Task \ {t} : tasks'[u] = tasks[u]
  BY <1>2, <1>3, <1>5, <1>6, FixRowMends
<1>8. /\ Steady(w) /\ TableOf' = TableOf /\ ~Amiss(i.kind, w, t)'
      /\ NoWorse(Early, w) /\ (i.kind \notin Early => NoWorse(Kind, w))
  BY <1>1, <1>4, <1>7, RowHeals
<1>9. ~Amiss(i.kind, w, i.on)'
  BY <1>5, <1>8
<1> QED
  BY <1>1, <1>3, <1>8, <1>9, DoneAlone

LEMMA NothingWorse ==
    ASSUME UNCHANGED project, NEW w, NEW K PROVE Steady(w) /\ NoWorse(K, w) /\ TableOf' = TableOf
<1>1. UNCHANGED <<files, sprints, docs>>
  BY DEF project
<1> QED
  BY <1>1, AmissKept DEF Steady, NoWorse, TableOf

\* The repairs of the first sync look at no field sprint but that of a file in tasks/.
LEMMA EarlyRow ==
    ASSUME NEW w \in Worktree, NEW t \in Task, Steady(w), tasks'[t].is = tasks[t].is,
           tasks'[t].status = tasks[t].status, NEW l \in Loc, NEW k \in Early, RowAmiss(k, w, t, l)'
    PROVE  RowAmiss(k, w, t, l)
<1>1. PICK x, y : /\ x = tasks[t].status /\ x = tasks'[t].status
                  /\ y = Said(w, t, l) /\ y = Said(w, t, l)'
  BY SteadyPlaces
<1>2. k \in {"db_missing_task", "db_status_mismatch", "completed_anomaly"}
  BY DEF RowAmiss, Early
<1>3. CASE k = "db_status_mismatch"
  <2>1. l # "completed" /\ tasks[t].is /\ taskStatusRank(x) < taskStatusRank(y)
    BY <1>1, <1>3 DEF RowAmiss, taskStatusRank
  <2> QED
    BY <1>1, <1>3, <2>1 DEF RowAmiss
<1>4. CASE k # "db_status_mismatch"
  BY <1>1, <1>2, <1>4 DEF RowAmiss
<1> QED
  BY <1>3, <1>4

Write(w, t, m, h) == files' = [files EXCEPT ![w][t][m] = h]

LEMMA OneFile ==
    ASSUME TypeInv, NEW w \in Worktree, NEW t \in Task, NEW m \in Loc, NEW h,
           Write(w, t, m, h)
    PROVE  \A u \in Task, l \in Loc :
              files'[w][u][l] = IF u = t /\ l = m THEN h ELSE files[w][u][l]
<1>1. files \in [Worktree -> [Task -> [Loc -> File]]]
  BY DEF TypeInv, TypeOK
<1> SUFFICES ASSUME NEW u \in Task, NEW l \in Loc
             PROVE  files'[w][u][l] = IF u = t /\ l = m THEN h ELSE files[w][u][l]
  OBVIOUS
<1> DEFINE F == [files[w][t] EXCEPT ![m] = h]
           G == [files[w] EXCEPT ![t] = F]
<1>2. files' = [files EXCEPT ![w] = G]
  BY DEF Write
<1>3. files[w] \in [Task -> [Loc -> File]] /\ files[w][t] \in [Loc -> File]
  BY <1>1
<1>4. F[l] = IF l = m THEN h ELSE files[w][t][l]
  BY <1>3
<1> HIDE DEF F
<1>5. G[u] = IF u = t THEN F ELSE files[w][u]
  BY <1>3
<1> HIDE DEF G
<1>6. files'[w] = G
  BY <1>1, <1>2
<1>7. CASE u # t
  BY <1>5, <1>6, <1>7
<1>8. CASE u = t
  BY <1>4, <1>5, <1>6, <1>8
<1> QED
  BY <1>7, <1>8

LEMMA LocationWritten ==
    ASSUME TypeInv, NEW w \in Worktree, NEW t \in Task, NEW m \in Loc,
           files' = [files EXCEPT ![w][t][m].fm.sprint = "backlog"]
    PROVE  \E h : /\ Write(w, t, m, h)
                  /\ h.is = files[w][t][m].is
                  /\ h.fm.status = files[w][t][m].fm.status /\ h.fm.sprint = "backlog"
<1>1. files[w][t][m] \in File
  BY DEF TypeInv, TypeOK
<1> DEFINE g == files[w][t][m]
           h == [g EXCEPT !.fm.sprint = "backlog"]
<1>2. h.is = g.is /\ h.fm.status = g.fm.status /\ h.fm.sprint = "backlog"
  BY <1>1 DEF File, FM
<1>3. Write(w, t, m, h)
  BY DEF Write
<1> HIDE DEF h
<1> QED
  BY <1>2, <1>3

LEMMA LocationHeals ==
    ASSUME TypeInv, NEW w \in Worktree, NEW t \in Task, NEW m \in Loc, m = "tasks",
           NEW h, Write(w, t, m, h), h.is = files[w][t][m].is,
           h.fm.status = files[w][t][m].fm.status, h.fm.sprint = "backlog",
           UNCHANGED <<tasks, backlog, sprints, docs>>
    PROVE  Steady(w) /\ NoWorse(Early, w) /\ ~Amiss("location_frontmatter_mismatch", w, t)'
<1> DEFINE K == "location_frontmatter_mismatch"
<1>0. \A u \in Task, l \in Loc :
         files'[w][u][l] = IF u = t /\ l = m THEN h ELSE files[w][u][l]
  BY OneFile
<1>1. Steady(w)
  BY <1>0 DEF Steady
<1>2. K \notin SprintKind /\ K \notin SummaryKind
  BY DEF SprintKind, SummaryKind
<1>3. ~TaskAmiss(K, w, t)'
  BY <1>0 DEF TaskAmiss, RowAmiss, NormalizeSprintField
<1>4. ~Amiss(K, w, t)'
  BY <1>2, <1>3 DEF Amiss
<1>5. ASSUME NEW k \in Early, NEW u \in Task, TaskAmiss(k, w, u)' PROVE TaskAmiss(k, w, u)
  <2>1. CASE \E l \in Loc : /\ Last(w, u, l)' /\ files'[w][u][l].is = "read"
                            /\ RowAmiss(k, w, u, l)'
    <3>1. PICK l \in Loc : /\ Last(w, u, l)' /\ files'[w][u][l].is = "read"
                           /\ RowAmiss(k, w, u, l)'
      BY <2>1
    <3>2. Last(w, u, l) /\ files[w][u][l].is = "read"
      BY <1>1, <3>1, SteadyPlaces DEF Steady
    <3>3. RowAmiss(k, w, u, l)
      BY <1>1, <3>1, EarlyRow
    <3> QED
      BY <3>2, <3>3 DEF TaskAmiss
  <2>2. CASE /\ k = K /\ files'[w][u]["tasks"].is = "read"
             /\ NormalizeSprintField(files'[w][u]["tasks"].fm.sprint) # ""
    <3>1. u # t
      BY <2>2, <1>0 DEF NormalizeSprintField
    <3>2. files'[w][u]["tasks"] = files[w][u]["tasks"]
      <4>1. files'[w][u][m] = files[w][u][m]
        BY <3>1, <1>0
      <4> QED
        BY <4>1
    <3> QED
      BY <2>2, <3>2 DEF TaskAmiss, NormalizeSprintField
  <2>3. k \notin {"backlog_md_stale_completed", "backlog_md_missing_entry", "db_orphan_task"}
    BY DEF Early
  <2> QED
    BY <1>5, <2>1, <2>2, <2>3 DEF TaskAmiss, NormalizeSprintField
<1>6. ASSUME NEW k PROVE SummaryAmiss(k, w)' <=> SummaryAmiss(k, w)
  BY DEF SummaryAmiss
<1>7. ASSUME NEW k, NEW o PROVE SprintAmiss(k, w, o)' <=> SprintAmiss(k, w, o)
  BY DEF SprintAmiss, DocAmiss
<1>8. NoWorse(Early, w)
  BY <1>5, <1>6, <1>7 DEF NoWorse, Amiss
<1> QED
  BY <1>1, <1>4, <1>8

LEMMA FixLocationSettles ==
    ASSUME StartsTyped, TypeInv, NEW p \in Proc, NEW w, w = Tree[p], NEW r \in Nat,
           NEW c, NEW j, c = pc[p], j = job[p], Settling(c, j, w, r),
           NEW i \in j.issues, FixLocation(p, i)
    PROVE  \E e, k : pc'[p] = e /\ job'[p] = k /\ Settling(e, k, w, r)'
<1>1. /\ c = "fix" /\ i.kind = "location_frontmatter_mismatch"
      /\ UNCHANGED <<tasks, backlog, sprints, docs>>
  BY DEF FixLocation, Due
<1>2. j.issues \subseteq Proper /\ w \in Worktree
  BY StateTyped DEF TypeInv, Shape
<1>3. i \in Proper /\ Right(w, i) /\ r \in {0, 1} /\ (r = 1 => i.kind \notin Early)
  BY <1>2, RepairRound
<1>4. r = 0 /\ i.kind \in TaskKind
  BY <1>1, <1>3 DEF Early, TaskKind, FileKind
<1>5. PICK t \in Task : t = i.on
  BY <1>3, <1>4 DEF Proper
<1>6. PICK m \in Loc : m = "tasks" /\ m = i.at
  BY <1>1, <1>3, <1>4 DEF Right, TaskRight, Loc
<1>7. CASE files[w][t]["tasks"].is # "read"
  <2>1. Done(p, i) /\ UNCHANGED project
    BY <1>1, <1>5, <1>6, <1>7 DEF FixLocation, project
  <2>2. ~Amiss(i.kind, w, i.on)
    <3>1. i.kind \notin SprintKind /\ i.kind \notin SummaryKind
      BY <1>1 DEF SprintKind, SummaryKind
    <3> QED
      BY <1>1, <1>5, <1>7, <3>1 DEF Amiss, TaskAmiss, RowAmiss
  <2>3. ~Amiss(i.kind, w, i.on)'
    BY <2>1, <2>2, AmissKept
  <2>4. Steady(w) /\ NoWorse(Early, w)
    BY <2>1, NothingWorse
  <2> QED
    BY <1>1, <1>4, <2>1, <2>3, <2>4, DoneAlone, SMTT(30)
<1>8. CASE files[w][t]["tasks"].is = "read"
  <2>1. PICK k : k = [j EXCEPT !.issues = @ \ {i}, !.on = t]
    OBVIOUS
  <2>2. /\ Continue(p, "clear", k)
        /\ files' = [files EXCEPT ![w][t][m].fm.sprint = "backlog"]
    BY <1>5, <1>6, <1>8, <2>1, ZenonT(60) DEF FixLocation
  <2>3. pc'[p] = "clear" /\ job'[p] = k /\ k.issues = j.issues \ {i} /\ k.found = j.found
    BY <2>1, <2>2 DEF Continue, TypeInv, TypeOK, Job
  <2>10. PICK h : /\ Write(w, t, m, h)
                  /\ h.is = files[w][t][m].is
                  /\ h.fm.status = files[w][t][m].fm.status /\ h.fm.sprint = "backlog"
    BY <1>2, <2>2, LocationWritten, Zenon
  <2>4. Steady(w) /\ NoWorse(Early, w) /\ ~Amiss("location_frontmatter_mismatch", w, t)'
    BY <1>1, <1>2, <1>6, <2>10, LocationHeals, Zenon
  <2>5. ~Amiss(i.kind, w, i.on)'
    BY <1>1, <1>5, <2>4
  <2>6. j.found = docs[w] /\ (docs[w])' = docs[w]
    BY <1>1 DEF Settling, Kept
  <2>7. Kept("clear", k, w, r)'
    BY <1>4, <2>3, <2>6 DEF Kept
  <2>8. Settling("fix", j, w, r) /\ "clear" \in Fixing
    BY <1>1 DEF Fixing
  <2>9. Settling("clear", k, w, r)'
    BY <1>2, <1>4, <2>3, <2>4, <2>5, <2>7, <2>8, DoneSettles
  <2> QED
    BY <2>3, <2>9
<1> QED
  BY <1>7, <1>8

LEMMA ClearSettles ==
    ASSUME StartsTyped, TypeInv, NEW p \in Proc, NEW w, w = Tree[p], NEW r \in Nat,
           NEW c, NEW j, c = pc[p], j = job[p], Settling(c, j, w, r), ClearSprint(p)
    PROVE  \E e, k : pc'[p] = e /\ job'[p] = k /\ Settling(e, k, w, r)'
<1>1. PICK k : k = [j EXCEPT !.on = Nothing]
  OBVIOUS
<1>2. /\ c = "clear" /\ pc'[p] = "fix" /\ job'[p] = k
      /\ UNCHANGED <<files, backlog, sprints, docs>>
  BY <1>1 DEF ClearSprint, Continue, TypeInv, TypeOK
<1>3. k.issues = j.issues /\ k.found = j.found /\ k.table = j.table
  BY <1>1 DEF TypeInv, TypeOK, Job
<1>4. r = 0 /\ j.found = docs[w] /\ j.issues \subseteq Proper /\ w \in Worktree
  BY <1>2, StateTyped DEF Settling, Kept, TypeInv, Shape
<1>5. PICK t \in Task : t = job[p].on
  BY <1>2 DEF TypeInv, Shape
<1>6. /\ tasks'[t].is = tasks[t].is /\ tasks'[t].status = tasks[t].status
      /\ \A u \in Task \ {t} : tasks'[u] = tasks[u]
  <2>1. PICK row : row = [tasks[t] EXCEPT !.sprint = ""]
    OBVIOUS
  <2>2. tasks[t] \in Row /\ row.is = tasks[t].is /\ row.status = tasks[t].status
    BY <2>1 DEF TypeInv, TypeOK, Row
  <2>3. SetRow(t, row) \/ UNCHANGED tasks
    BY <1>5, <2>1 DEF ClearSprint
  <2> QED
    BY <2>2, <2>3, SetRowIs
<1>7. Steady(w)
  BY <1>2 DEF Steady
<1>8. ASSUME NEW x \in Early, NEW o, Amiss(x, w, o)' PROVE Amiss(x, w, o)
  <2> SUFFICES ASSUME x \in TaskKind, o = t, TaskAmiss(x, w, t)' PROVE TaskAmiss(x, w, t)
    BY <1>2, <1>6, <1>8, OneRow DEF Amiss
  <2>1. x # "backlog_md_stale_completed" /\ x # "db_orphan_task"
    BY DEF Early
  <2>2. CASE \E l \in Loc : /\ Last(w, t, l) /\ files[w][t][l].is = "read"
                            /\ RowAmiss(x, w, t, l)'
    BY <1>4, <1>6, <1>7, <2>2, EarlyRow DEF TaskAmiss
  <2> QED
    BY <1>2, <2>1, <2>2, RowChange
<1>9. NoWorse(Over(r + 1), w)
  BY <1>4, <1>8 DEF NoWorse, Over
<1>10. Kept("fix", k, w, r)'
  BY <1>2, <1>3, <1>4 DEF Kept
<1>11. \A x, o : Pending("clear", j, x, o) => Pending("fix", k, x, o)
  BY <1>3 DEF Pending
<1>12. Settling("clear", j, w, r) /\ "clear" \in Fixing /\ "fix" \in Fixing
  BY <1>2 DEF Fixing
<1>13. Settling("fix", k, w, r)'
  BY <1>3, <1>4, <1>7, <1>9, <1>10, <1>11, <1>12, RepairSettles
<1> QED
  BY <1>2, <1>13

-----------------------------------------------------------------------------
(* Repairs of BACKLOG.md.                                                  *)

ListingKind == {"backlog_md_stale_completed", "backlog_md_missing_entry", "db_orphan_task"}

LEMMA ListingChange ==
    ASSUME UNCHANGED <<tasks, files, sprints, docs>>, NEW w, NEW k, NEW o,
           Amiss(k, w, o)', ~Amiss(k, w, o)
    PROVE  /\ k \in ListingKind \cup SummaryKind
           /\ k \in ListingKind => o \in Task
           /\ k = "backlog_md_stale_completed" =>
                 o \in backlog'[w].listed /\ o \notin backlog[w].listed /\ ~Here(w, o, "tasks")
           /\ k = "backlog_md_missing_entry" =>
                 o \notin backlog'[w].listed /\ o \in backlog[w].listed /\ Here(w, o, "tasks")
           /\ k = "db_orphan_task" =>
                 /\ o \notin backlog'[w].listed /\ o \in backlog[w].listed
                 /\ \A l \in Loc : ~Here(w, o, l)
           /\ k \in SummaryKind =>
                 \/ backlog'[w].heading # backlog[w].heading
                 \/ backlog'[w].section # backlog[w].section
                 \/ backlog'[w].table # backlog[w].table
<1>1. ASSUME NEW l, NEW x, NEW t PROVE RowAmiss(x, w, t, l)' <=> RowAmiss(x, w, t, l)
  BY DEF RowAmiss, Said, WantedSprint
<1>2. ASSUME NEW t, NEW l PROVE (Here(w, t, l)' <=> Here(w, t, l)) /\ (Last(w, t, l)' <=> Last(w, t, l))
  BY DEF Last, Here
<1>3. ASSUME NEW t PROVE Afar(t)' <=> Afar(t)
  BY DEF Afar, Here
<1>4. SprintAmiss(k, w, o)' <=> SprintAmiss(k, w, o)
  BY DEF SprintAmiss, DocAmiss
<1>5. CASE k \in SprintKind /\ o \in Sprint /\ SprintAmiss(k, w, o)'
  BY <1>4, <1>5 DEF Amiss
<1>6. CASE k \in TaskKind /\ o \in Task /\ TaskAmiss(k, w, o)'
  <2>1. ~TaskAmiss(k, w, o)
    BY <1>6 DEF Amiss
  <2>2. k \notin SummaryKind
    BY <1>6, Kinds
  <2>3. \/ /\ k = "backlog_md_stale_completed"
           /\ o \in backlog'[w].listed /\ o \notin backlog[w].listed /\ ~Here(w, o, "tasks")
        \/ /\ k = "backlog_md_missing_entry"
           /\ o \notin backlog'[w].listed /\ o \in backlog[w].listed
           /\ files[w][o]["tasks"].is = "read"
        \/ /\ k = "db_orphan_task" /\ o \notin backlog'[w].listed /\ o \in backlog[w].listed
           /\ \A l \in Loc : ~Here(w, o, l)
    BY <1>1, <1>2, <1>3, <1>6, <2>1 DEF TaskAmiss
  <2> QED
    BY <1>6, <2>2, <2>3 DEF ListingKind, Here
<1>7. CASE k \in SummaryKind /\ o = Nothing /\ SummaryAmiss(k, w)'
  <2>1. ~SummaryAmiss(k, w)
    BY <1>7 DEF Amiss
  <2>2. k \notin ListingKind
    BY <1>7 DEF SummaryKind, ListingKind
  <2>3. \/ backlog'[w].heading # backlog[w].heading
        \/ backlog'[w].section # backlog[w].section
        \/ backlog'[w].table # backlog[w].table
    BY <1>7, <2>1 DEF SummaryAmiss
  <2> QED
    BY <1>7, <2>2, <2>3 DEF ListingKind
<1> QED
  BY <1>5, <1>6, <1>7 DEF Amiss

LEMMA LinesSettle ==
    ASSUME StartsTyped, TypeInv, NEW p \in Proc, NEW w, w = Tree[p], NEW r \in Nat, NEW j,
           j = job[p], Settling("fix", j, w, r), NEW i \in j.issues, Done(p, i),
           UNCHANGED <<tasks, files, sprints, docs>>, i.kind \notin Early,
           NoWorse(Kind, w), ~Amiss(i.kind, w, i.on)' \/ r = 0
    PROVE  \E e, k : pc'[p] = e /\ job'[p] = k /\ Settling(e, k, w, r)'
<1>1. Steady(w) /\ TableOf' = TableOf
  BY DEF Steady, TableOf
<1>2. Early \subseteq Kind
  BY DEF Early, Kind
<1>3. NoWorse(Early, w)
  BY <1>2 DEF NoWorse
<1> QED
  BY <1>1, <1>3, DoneAlone

LEMMA FixListingSettles ==
    ASSUME StartsTyped, TypeInv, NEW p \in Proc, NEW w, w = Tree[p], NEW r \in Nat,
           NEW c, NEW j, c = pc[p], j = job[p], Settling(c, j, w, r),
           NEW i \in j.issues, FixListing(p, i)
    PROVE  \E e, k : pc'[p] = e /\ job'[p] = k /\ Settling(e, k, w, r)'
<1> DEFINE Stale == "backlog_md_stale_completed"
           Missed == "backlog_md_missing_entry"
           Tables == "backlog_summary_sprint_table_stale"
<1>1. Settling("fix", j, w, r) /\ UNCHANGED <<tasks, files, sprints, docs>>
  BY DEF FixListing, Due
<1>2. j.issues \subseteq Proper /\ w \in Worktree /\ backlog[w] \in Listing
  BY StateTyped DEF TypeInv, Shape
<1>3. i \in Proper /\ Right(w, i) /\ r \in {0, 1}
  BY <1>2, RepairRound
<1>4. /\ {Stale, Missed} \subseteq TaskKind /\ {Stamp, Tables} \subseteq SummaryKind
      /\ Stamp \notin TaskKind /\ Stamp \notin SprintKind
      /\ Tables \notin TaskKind /\ Tables \notin SprintKind
      /\ Stale \notin SprintKind \cup SummaryKind /\ Missed \notin SprintKind \cup SummaryKind
      /\ {Stale, Missed, Tables} \cap Early = {}
  BY DEF TaskKind, FileKind, SummaryKind, SprintKind, Early, Stamp
<1>5. \A b : backlog' = [backlog EXCEPT ![w] = b] => backlog'[w] = b
  BY <1>2 DEF TypeInv, TypeOK
<1>6. i.kind # "backlog_summary_count_mismatch"
  BY <1>3 DEF Right
<1>7. CASE i.kind = Stale
  <2> DEFINE b == [backlog[w] EXCEPT !.listed = @ \ {i.on}]
  <2>1. Done(p, i) /\ backlog' = [backlog EXCEPT ![w] = b]
    BY <1>7 DEF FixListing, summaryTypes
  <2>2. /\ b.listed = backlog[w].listed \ {i.on} /\ b.heading = backlog[w].heading
        /\ b.section = backlog[w].section /\ b.table = backlog[w].table
    BY <1>2 DEF Listing
  <2> HIDE DEF b
  <2>3. backlog'[w] = b
    BY <1>5, <2>1
  <2>4. ~Here(w, i.on, "tasks") /\ \E l \in Loc : Here(w, i.on, l)
    BY <1>3, <1>4, <1>7 DEF Right, TaskRight
  <2>5. ASSUME NEW k, NEW o, Amiss(k, w, o)', ~Amiss(k, w, o) PROVE FALSE
    <3>1. o \in backlog[w].listed /\ o \notin backlog'[w].listed => o = i.on
      BY <2>2, <2>3
    <3> QED
      BY <1>1, <2>2, <2>3, <2>4, <2>5, <3>1, ListingChange DEF ListingKind
  <2>6. NoWorse(Kind, w)
    BY <2>5 DEF NoWorse
  <2>7. ~TaskAmiss(i.kind, w, i.on)'
    BY <1>7, <2>2, <2>3 DEF TaskAmiss, RowAmiss
  <2>8. ~Amiss(i.kind, w, i.on)'
    BY <1>4, <1>7, <2>7 DEF Amiss
  <2> QED
    BY <1>1, <1>4, <1>7, <2>1, <2>6, <2>8, LinesSettle
<1>8. CASE i.kind = Missed
  <2> DEFINE b == [backlog[w] EXCEPT !.listed = @ \cup {i.on}]
  <2>1. Done(p, i) /\ backlog' = [backlog EXCEPT ![w] = b]
    BY <1>8 DEF FixListing, summaryTypes
  <2>2. /\ b.listed = backlog[w].listed \cup {i.on} /\ b.heading = backlog[w].heading
        /\ b.section = backlog[w].section /\ b.table = backlog[w].table
    BY <1>2 DEF Listing
  <2> HIDE DEF b
  <2>3. backlog'[w] = b
    BY <1>5, <2>1
  <2>4. Here(w, i.on, "tasks")
    BY <1>3, <1>4, <1>8 DEF Right, TaskRight
  <2>5. ASSUME NEW k, NEW o, Amiss(k, w, o)', ~Amiss(k, w, o) PROVE FALSE
    <3>1. o \notin backlog[w].listed /\ o \in backlog'[w].listed => o = i.on
      BY <2>2, <2>3
    <3>2. backlog[w].listed \subseteq backlog'[w].listed
      BY <2>2, <2>3
    <3> QED
      BY <1>1, <2>2, <2>3, <2>4, <2>5, <3>1, <3>2, ListingChange DEF ListingKind
  <2>6. NoWorse(Kind, w)
    BY <2>5 DEF NoWorse
  <2>7. ~TaskAmiss(i.kind, w, i.on)'
    BY <1>8, <2>2, <2>3 DEF TaskAmiss, RowAmiss
  <2>8. ~Amiss(i.kind, w, i.on)'
    BY <1>4, <1>8, <2>7 DEF Amiss
  <2> QED
    BY <1>1, <1>4, <1>8, <2>1, <2>6, <2>8, LinesSettle
<1>9. CASE i.kind = Tables
  <2> DEFINE b == [backlog[w] EXCEPT !.table = j.table]
  <2>1. Done(p, i) /\ backlog' = [backlog EXCEPT ![w] = b]
    BY <1>9 DEF FixListing, summaryTypes
  <2>2. /\ b.listed = backlog[w].listed /\ b.heading = backlog[w].heading
        /\ b.section = backlog[w].section /\ b.table = j.table
    BY <1>2 DEF Listing
  <2> HIDE DEF b
  <2>3. backlog'[w] = b
    BY <1>5, <2>1
  <2>4. ASSUME NEW k, NEW o, k # Tables, Amiss(k, w, o)' PROVE Amiss(k, w, o)
    <3> SUFFICES ASSUME ~Amiss(k, w, o) PROVE FALSE
      OBVIOUS
    <3>1. k \in SummaryKind
      BY <1>1, <2>2, <2>3, <2>4, ListingChange DEF ListingKind
    <3>2. k \in {"backlog_summary_count_mismatch", "backlog_summary_stale_timestamp"}
      BY <2>4, <3>1 DEF SummaryKind
    <3>3. k \notin TaskKind /\ k \notin SprintKind
      BY <3>2 DEF TaskKind, FileKind, SprintKind
    <3> QED
      BY <2>2, <2>3, <2>4, <3>1, <3>2, <3>3 DEF Amiss, SummaryAmiss
  <2>5. ASSUME r = 1 PROVE \A o : ~Amiss(Tables, w, o)'
    <3>1. j.table = TableOf
      BY <1>1, <2>5 DEF Settling, Kept
    <3>2. ~SummaryAmiss(Tables, w)'
      BY <1>1, <2>2, <2>3, <3>1 DEF SummaryAmiss, TableOf
    <3> QED
      BY <1>4, <3>2 DEF Amiss
  <2>6. CASE r = 1
    BY <1>1, <1>4, <1>9, <2>1, <2>4, <2>5, <2>6, LinesSettle DEF NoWorse
  <2>7. CASE r = 0
    <3>1. Steady(w) /\ TableOf' = TableOf
      BY <1>1 DEF Steady, TableOf
    <3>2. NoWorse(Early, w)
      BY <1>4, <2>4 DEF NoWorse
    <3> QED
      BY <1>1, <1>4, <1>9, <2>1, <2>7, <3>1, <3>2, DoneAlone
  <2> QED
    BY <1>3, <2>6, <2>7
<1>10. CASE i.kind = Stamp
  <2>1. PICK k : k = [j EXCEPT !.issues = @ \ {i}, !.rebuild = TRUE]
    OBVIOUS
  <2>2. pc'[p] = "fix" /\ job'[p] = k /\ UNCHANGED project
    BY <1>10, <2>1 DEF FixListing, Stamp, summaryTypes, Continue, TypeInv, TypeOK, project
  <2>3. /\ k.issues = j.issues \ {i} /\ k.found = j.found /\ k.table = j.table
        /\ k.on = j.on /\ k.at = j.at /\ k.row = j.row
    BY <2>1, StateTyped DEF Job
  <2>4. Steady(w) /\ NoWorse(Early, w) /\ NoWorse(Kind, w)
    BY <2>2, AmissKept DEF Steady, NoWorse, Subject, project
  <2>5. ~Amiss(i.kind, w, i.on)'
    BY <1>4, <1>10 DEF Amiss, SummaryAmiss, Stamp
  <2>6. Kept("fix", k, w, r)'
    BY <1>1, <2>2, <2>3 DEF Settling, Kept, TableOf, project
  <2>7. "fix" \in Fixing
    BY DEF Fixing
  <2>8. Settling("fix", k, w, r)'
    BY <1>1, <1>2, <2>3, <2>4, <2>5, <2>6, <2>7, DoneSettles
  <2> QED
    BY <2>2, <2>8
<1>11. i.kind \in {Stale, Missed, Tables, Stamp}
  BY <1>6 DEF FixListing, summaryTypes, Stamp
<1> QED
  BY <1>7, <1>8, <1>9, <1>10, <1>11

-----------------------------------------------------------------------------
(* Repairs of a row of the table sprints.                                  *)

LEMMA SprintChange ==
    ASSUME NEW w, Suited(w), UNCHANGED <<tasks, files, backlog, docs>>, NEW s \in Sprint,
           NEW l \in SprintPlace, docs[w][s][l] = "titled",
           \A u \in Sprint \ {s} : sprints'[u] = sprints[u],
           NEW k, NEW o, Amiss(k, w, o)', ~Amiss(k, w, o)
    PROVE  \/ k \in SprintKind /\ o = s /\ DocAmiss(k, w, s, l)' /\ ~DocAmiss(k, w, s, l)
           \/ k \in SummaryKind /\ ~(/\ sprints'[s].is = sprints[s].is
                                     /\ sprints'[s].status = sprints[s].status)
<1>1. CASE k \in TaskKind /\ o \in Task /\ TaskAmiss(k, w, o)'
  <2>1. \A m : RowAmiss(k, w, o, m)' <=> RowAmiss(k, w, o, m)
    BY DEF RowAmiss, Said, WantedSprint
  <2>2. \A m : (Here(w, o, m)' <=> Here(w, o, m)) /\ (Last(w, o, m)' <=> Last(w, o, m))
    BY DEF Last, Here
  <2>3. Afar(o)' <=> Afar(o)
    BY DEF Afar, Here
  <2>4. TaskAmiss(k, w, o)
    BY <1>1, <2>1, <2>2, <2>3 DEF TaskAmiss
  <2> QED
    BY <1>1, <2>4 DEF Amiss
<1>2. CASE k \in SprintKind /\ o \in Sprint /\ SprintAmiss(k, w, o)'
  <2>1. PICK m \in SprintPlace : docs[w][o][m] # "absent" /\ DocAmiss(k, w, o, m)'
    BY <1>2 DEF SprintAmiss
  <2>2. ~DocAmiss(k, w, o, m)
    BY <1>2, <2>1 DEF Amiss, SprintAmiss
  <2>3. o = s
    <3> SUFFICES ASSUME o # s PROVE FALSE
      OBVIOUS
    <3>1. sprints'[o] = sprints[o]
      BY <1>2
    <3> QED
      BY <2>1, <2>2, <3>1 DEF DocAmiss
  <2>4. m = l
    BY <2>1, <2>3 DEF Suited
  <2> QED
    BY <1>2, <2>1, <2>2, <2>3, <2>4
<1>3. CASE k \in SummaryKind /\ o = Nothing /\ SummaryAmiss(k, w)'
  <2>1. ~SummaryAmiss(k, w)
    BY <1>3 DEF Amiss
  <2>2. PICK u \in Sprint \ backlog[w].table :
           /\ sprints'[u].is /\ sprints'[u].status \in {"active", "backlog"}
           /\ ~(sprints[u].is /\ sprints[u].status \in {"active", "backlog"})
    BY <1>3, <2>1 DEF SummaryAmiss
  <2>3. u = s
    BY <2>2
  <2> QED
    BY <1>3, <2>2, <2>3
<1> QED
  BY <1>1, <1>2, <1>3 DEF Amiss

LEMMA SprintHeals ==
    ASSUME NEW w, Suited(w), UNCHANGED <<tasks, files, backlog, docs>>, NEW s \in Sprint,
           NEW l \in SprintPlace, docs[w][s][l] = "titled",
           \A u \in Sprint \ {s} : sprints'[u] = sprints[u],
           NEW h \in SprintKind,
           \A k \in SprintKind : DocAmiss(k, w, s, l)' =>
              DocAmiss(k, w, s, l) \/ (h \in Early /\ k \notin Early),
           h \notin Early => /\ sprints'[s].is = sprints[s].is
                             /\ sprints'[s].status = sprints[s].status
    PROVE  /\ Steady(w) /\ NoWorse(Early, w)
           /\ h \notin Early => NoWorse(Kind, w) /\ TableOf' = TableOf
           /\ ~DocAmiss(h, w, s, l)' => ~Amiss(h, w, s)'
<1>1. Steady(w)
  BY DEF Steady
<1>2. SummaryKind \cap Early = {}
  BY DEF SummaryKind, Early
<1>3. NoWorse(Early, w)
  BY <1>2, SprintChange DEF NoWorse
<1>4. ASSUME h \notin Early PROVE NoWorse(Kind, w) /\ TableOf' = TableOf
  <2>1. NoWorse(Kind, w)
    BY <1>4, SprintChange DEF NoWorse
  <2>2. \A u \in Sprint : sprints'[u].is = sprints[u].is /\ sprints'[u].status = sprints[u].status
    BY <1>4
  <2> QED
    BY <2>1, <2>2 DEF TableOf
<1>5. ASSUME ~DocAmiss(h, w, s, l)' PROVE ~Amiss(h, w, s)'
  <2>1. \A m \in SprintPlace : docs[w][s][m] # "absent" => m = l
    BY DEF Suited
  <2>2. ~SprintAmiss(h, w, s)'
    BY <1>5, <2>1 DEF SprintAmiss
  <2>3. h \notin TaskKind /\ h \notin SummaryKind
    BY Kinds
  <2> QED
    BY <2>2, <2>3 DEF Amiss
<1> QED
  BY <1>1, <1>3, <1>4, <1>5

\* What a document and a row of sprints disagree in.
LEMMA DocRow ==
    ASSUME NEW w, NEW s, NEW l, NEW k, NEW row, row = sprints[s]
    PROVE  DocAmiss(k, w, s, l) <=>
             \/ k = "db_missing_sprint" /\ ~row.is
             \/ k = "db_sprint_title_mismatch" /\ row.is /\ row.title = "old"
             \/ k = "db_sprint_folder_path_mismatch" /\ row.is /\ row.folder # l
             \/ /\ k = "db_sprint_status_file_absent" /\ row.is /\ row.status # l
                /\ ~isSprintStatusRegression(row.status, l)
             \/ /\ k = "db_sprint_metadata_stale" /\ row.is
                /\ \/ row.title = "id" \/ ~row.started
                   \/ l = "completed" /\ ~row.completed
BY DEF DocAmiss

LEMMA DocRowNext ==
    ASSUME NEW w, NEW s, NEW l, NEW k, NEW row, row = sprints'[s]
    PROVE  DocAmiss(k, w, s, l)' <=>
             \/ k = "db_missing_sprint" /\ ~row.is
             \/ k = "db_sprint_title_mismatch" /\ row.is /\ row.title = "old"
             \/ k = "db_sprint_folder_path_mismatch" /\ row.is /\ row.folder # l
             \/ /\ k = "db_sprint_status_file_absent" /\ row.is /\ row.status # l
                /\ ~isSprintStatusRegression(row.status, l)
             \/ /\ k = "db_sprint_metadata_stale" /\ row.is
                /\ \/ row.title = "id" \/ ~row.started
                   \/ l = "completed" /\ ~row.completed
BY DEF DocAmiss, isSprintStatusRegression, sprintStatusRank

LEMMA DocBetter ==
    ASSUME NEW w, NEW s, NEW l, NEW old, old = sprints[s], NEW new, new = sprints'[s],
           new.is = old.is, new.status \in {old.status, l}, new.folder \in {old.folder, l},
           new.title \in {old.title, "title"},
           old.started => new.started, old.completed => new.completed
    PROVE  \A k : DocAmiss(k, w, s, l)' => DocAmiss(k, w, s, l)
BY DocRow, DocRowNext

\* Without a row but the first of its repairs changes nothing.
LEMMA NoDocRow ==
    ASSUME NEW w, NEW s, NEW l, sprints'[s] = sprints[s], ~sprints[s].is,
           NEW h \in SprintKind \ {"db_missing_sprint"}
    PROVE  ~DocAmiss(h, w, s, l)' /\ \A k : DocAmiss(k, w, s, l)' => DocAmiss(k, w, s, l)
<1>1. PICK row : row = sprints[s] /\ row = sprints'[s]
  OBVIOUS
<1> QED
  BY <1>1, DocRow, DocRowNext

LEMMA DocMended ==
    ASSUME NEW w, NEW s, NEW l, NEW new, new = sprints'[s], NEW h,
           \/ h = "db_missing_sprint" /\ new.is
           \/ h = "db_sprint_title_mismatch" /\ new.title # "old"
           \/ h = "db_sprint_folder_path_mismatch" /\ new.folder = l
           \/ h = "db_sprint_status_file_absent" /\ new.status = l
    PROVE  ~DocAmiss(h, w, s, l)'
BY DocRowNext

LEMMA FixSprintMends ==
    ASSUME StartsTyped, TypeInv, NEW p \in Proc, NEW w \in Worktree, NEW i \in Proper,
           NEW s \in Sprint, i.on = s, NEW l \in SprintPlace, i.at = l,
           job[p].found[s][l] = "titled", FixSprint(p, i)
    PROVE  /\ i.kind \in SprintKind
           /\ \A u \in Sprint \ {s} : sprints'[u] = sprints[u]
           /\ ~DocAmiss(i.kind, w, s, l)'
           /\ \A k \in SprintKind : DocAmiss(k, w, s, l)' =>
                 DocAmiss(k, w, s, l) \/ (i.kind \in Early /\ k \notin Early)
           /\ i.kind \notin Early => /\ sprints'[s].is = sprints[s].is
                                     /\ sprints'[s].status = sprints[s].status
<1>0. PICK old \in SprintRow : old = sprints[s]
  BY DEF TypeInv, TypeOK
<1>1. PICK new : old = sprints[s] /\ new = sprints'[s]
  BY <1>0
<1>2. sprints \in [Sprint -> SprintRow]
  BY DEF TypeInv, TypeOK
<1>3. i.kind \in SprintKind
  BY DEF FixSprint, SprintKind
<1>4. CASE i.kind = "db_missing_sprint"
  <2>1. PICK row : row = [is |-> TRUE, status |-> l, folder |-> l, started |-> TRUE,
                          title |-> "title", completed |-> l = "completed"]
    OBVIOUS
  <2>2. sprints' = IF old.is THEN sprints ELSE [sprints EXCEPT ![s] = row]
    BY <1>1, <1>4, <2>1 DEF FixSprint
  <2>3. /\ \A u \in Sprint \ {s} : sprints'[u] = sprints[u]
        /\ new = IF old.is THEN old ELSE row
    BY <1>1, <1>2, <2>2
  <2>4. CASE old.is
    <3>1. \A k : DocAmiss(k, w, s, l)' => DocAmiss(k, w, s, l)
      BY <1>1, <2>3, <2>4, DocBetter
    <3>2. ~DocAmiss(i.kind, w, s, l)'
      BY <1>1, <1>4, <2>3, <2>4, DocMended
    <3> QED
      BY <1>1, <1>3, <1>4, <2>3, <3>1, <3>2 DEF Early
  <2>5. CASE ~old.is
    <3>1. /\ new.is /\ new.status = l /\ new.folder = l /\ new.started /\ new.title = "title"
          /\ l = "completed" => new.completed
      BY <2>1, <2>3, <2>5
    <3>2. \A k : ~DocAmiss(k, w, s, l)'
      BY <1>1, <3>1, DocRowNext
    <3> QED
      BY <1>3, <1>4, <2>3, <3>2 DEF Early
  <2> QED
    BY <2>4, <2>5
<1>5. CASE i.kind = "db_sprint_title_mismatch"
  <2>1. PICK row : row = [old EXCEPT !.title = "title"]
    OBVIOUS
  <2>2. sprints' = IF old.is THEN [sprints EXCEPT ![s] = row] ELSE sprints
    BY <1>1, <1>5, <2>1 DEF FixSprint
  <2>3. /\ \A u \in Sprint \ {s} : sprints'[u] = sprints[u]
        /\ new = IF old.is THEN row ELSE old
    BY <1>1, <1>2, <2>2
  <2>4. /\ row.title = "title" /\ row.is = old.is /\ row.status = old.status
        /\ row.folder = old.folder /\ row.started = old.started /\ row.completed = old.completed
    BY <2>1 DEF SprintRow
  <2>5. CASE old.is
    <3>1. \A k : DocAmiss(k, w, s, l)' => DocAmiss(k, w, s, l)
      BY <1>1, <2>3, <2>4, <2>5, DocBetter
    <3>2. ~DocAmiss(i.kind, w, s, l)'
      BY <1>1, <1>5, <2>3, <2>4, <2>5, DocMended
    <3> QED
      BY <1>1, <1>3, <1>5, <2>3, <2>4, <2>5, <3>1, <3>2 DEF Early
  <2>6. CASE ~old.is
    BY <1>1, <1>3, <1>5, <2>3, <2>6, NoDocRow
  <2> QED
    BY <2>5, <2>6
<1>6. CASE i.kind = "db_sprint_folder_path_mismatch"
  <2>1. PICK row : row = [old EXCEPT !.folder = l]
    OBVIOUS
  <2>2. sprints' = IF old.is THEN [sprints EXCEPT ![s] = row] ELSE sprints
    BY <1>1, <1>6, <2>1 DEF FixSprint
  <2>3. /\ \A u \in Sprint \ {s} : sprints'[u] = sprints[u]
        /\ new = IF old.is THEN row ELSE old
    BY <1>1, <1>2, <2>2
  <2>4. /\ row.folder = l /\ row.is = old.is /\ row.status = old.status
        /\ row.title = old.title /\ row.started = old.started /\ row.completed = old.completed
    BY <2>1 DEF SprintRow
  <2>5. CASE old.is
    <3>1. \A k : DocAmiss(k, w, s, l)' => DocAmiss(k, w, s, l)
      BY <1>1, <2>3, <2>4, <2>5, DocBetter
    <3>2. ~DocAmiss(i.kind, w, s, l)'
      BY <1>1, <1>6, <2>3, <2>4, <2>5, DocMended
    <3> QED
      BY <1>1, <1>3, <1>6, <2>3, <2>4, <2>5, <3>1, <3>2 DEF Early
  <2>6. CASE ~old.is
    BY <1>1, <1>3, <1>6, <2>3, <2>6, NoDocRow
  <2> QED
    BY <2>5, <2>6
<1>7. CASE i.kind = "db_sprint_status_file_absent"
  <2>1. PICK row : row = [old EXCEPT !.folder = l, !.status = l]
    OBVIOUS
  <2>2. sprints' = IF old.is THEN [sprints EXCEPT ![s] = row] ELSE sprints
    BY <1>1, <1>7, <2>1 DEF FixSprint
  <2>3. /\ \A u \in Sprint \ {s} : sprints'[u] = sprints[u]
        /\ new = IF old.is THEN row ELSE old
    BY <1>1, <1>2, <2>2
  <2>4. row.folder = l /\ row.is = old.is /\ row.status = l
        /\ row.title = old.title /\ row.started = old.started /\ row.completed = old.completed
    BY <2>1 DEF SprintRow
  <2>5. CASE old.is
    <3>1. \A k : DocAmiss(k, w, s, l)' => DocAmiss(k, w, s, l)
      BY <1>1, <2>3, <2>4, <2>5, DocBetter
    <3>2. ~DocAmiss(i.kind, w, s, l)'
      BY <1>1, <1>7, <2>3, <2>4, <2>5, DocMended
    <3> QED
      BY <1>1, <1>3, <1>7, <2>3, <2>4, <2>5, <3>1, <3>2 DEF Early
  <2>6. CASE ~old.is
    BY <1>1, <1>3, <1>7, <2>3, <2>6, NoDocRow
  <2> QED
    BY <2>5, <2>6
<1> QED
  BY <1>4, <1>5, <1>6, <1>7 DEF FixSprint

LEMMA FixSprintSettles ==
    ASSUME StartsTyped, TypeInv, NEW p \in Proc, NEW w, w = Tree[p], NEW r \in Nat, Suited(w),
           NEW c, NEW j, c = pc[p], j = job[p], Settling(c, j, w, r),
           NEW i \in j.issues, FixSprint(p, i)
    PROVE  \E e, k : pc'[p] = e /\ job'[p] = k /\ Settling(e, k, w, r)'
<1>1. c = "fix" /\ Done(p, i) /\ UNCHANGED <<tasks, files, backlog, docs>>
  BY DEF FixSprint, Due
<1>2. j.issues \subseteq Proper /\ w \in Worktree
  BY StateTyped DEF TypeInv, Shape
<1>3. i \in Proper /\ Right(w, i) /\ r \in {0, 1} /\ (r = 1 => i.kind \notin Early)
  BY <1>2, RepairRound
<1>4. i.kind \in SprintKind
  BY DEF FixSprint, SprintKind
<1>5. PICK s \in Sprint, l \in SprintPlace : s = i.on /\ l = i.at
  BY <1>3, <1>4 DEF Proper
<1>6. docs[w][s][l] = "titled" /\ j.found[s][l] = "titled"
  BY <1>1, <1>3, <1>4, <1>5 DEF Right, Settling, Kept
<1>7. /\ \A u \in Sprint \ {s} : sprints'[u] = sprints[u]
      /\ ~DocAmiss(i.kind, w, s, l)'
      /\ \A k \in SprintKind : DocAmiss(k, w, s, l)' =>
            DocAmiss(k, w, s, l) \/ (i.kind \in Early /\ k \notin Early)
      /\ i.kind \notin Early => /\ sprints'[s].is = sprints[s].is
                                /\ sprints'[s].status = sprints[s].status
  BY <1>2, <1>3, <1>5, <1>6, FixSprintMends
<1>8. /\ Steady(w) /\ NoWorse(Early, w)
      /\ i.kind \notin Early => NoWorse(Kind, w) /\ TableOf' = TableOf
      /\ ~Amiss(i.kind, w, s)'
  BY <1>1, <1>4, <1>6, <1>7, SprintHeals
<1>9. ~Amiss(i.kind, w, i.on)'
  BY <1>5, <1>8
<1> QED
  BY <1>1, <1>3, <1>8, <1>9, DoneAlone

LEMMA FixMetadataSettles ==
    ASSUME StartsTyped, TypeInv, NEW p \in Proc, NEW w, w = Tree[p], NEW r \in Nat, Suited(w),
           NEW c, NEW j, c = pc[p], j = job[p], Settling(c, j, w, r),
           NEW i \in j.issues, FixMetadata(p, i)
    PROVE  \E e, k : pc'[p] = e /\ job'[p] = k /\ Settling(e, k, w, r)'
<1>1. /\ c = "fix" /\ UNCHANGED <<tasks, files, backlog, docs>>
      /\ i.kind = "db_sprint_metadata_stale"
  BY DEF FixMetadata, Due
<1>2. j.issues \subseteq Proper /\ w \in Worktree /\ sprints \in [Sprint -> SprintRow]
  BY StateTyped DEF TypeInv, TypeOK, Shape
<1>3. i \in Proper /\ Right(w, i) /\ r \in {0, 1}
  BY <1>2, RepairRound
<1>4. i.kind \in SprintKind /\ i.kind \notin Early
  BY <1>1 DEF SprintKind, Early
<1>5. PICK s \in Sprint, l \in SprintPlace : s = i.on /\ l = i.at
  BY <1>3, <1>4 DEF Proper
<1>6. docs[w][s][l] = "titled" /\ j.found = docs[w]
  BY <1>1, <1>3, <1>4, <1>5 DEF Right, Settling, Kept
<1>7. PICK old \in SprintRow : old = sprints[s]
  BY <1>2
<1>8. PICK row : row = [old EXCEPT !.title = "title"]
  OBVIOUS
<1>9. /\ row.title = "title" /\ row.is = old.is /\ row.status = old.status
      /\ row.folder = old.folder /\ row.started = old.started /\ row.completed = old.completed
  BY <1>8 DEF SprintRow
<1>10. sprints' = IF old.is THEN [sprints EXCEPT ![s] = row] ELSE sprints
  <2>1. sprints' = IF old.is THEN [sprints EXCEPT ![s].title = "title"] ELSE sprints
    BY <1>5, <1>6, <1>7 DEF FixMetadata
  <2>2. [sprints EXCEPT ![s].title = "title"] = [sprints EXCEPT ![s] = row]
    BY <1>7, <1>8
  <2> QED
    BY <2>1, <2>2
<1>11. PICK new : new = sprints'[s]
  OBVIOUS
<1>12. /\ \A u \in Sprint \ {s} : sprints'[u] = sprints[u]
       /\ new = IF old.is THEN row ELSE old
  BY <1>2, <1>7, <1>10, <1>11
<1>13. /\ new.is = old.is /\ new.status = old.status /\ new.folder = old.folder
       /\ new.title \in {old.title, "title"} /\ new.started = old.started
       /\ new.completed = old.completed /\ (new.is => new.title = "title")
  BY <1>9, <1>12
<1>14. \A k : DocAmiss(k, w, s, l)' => DocAmiss(k, w, s, l)
  BY <1>7, <1>11, <1>13, DocBetter
<1>15. /\ sprints'[s].is = sprints[s].is /\ sprints'[s].status = sprints[s].status
       /\ sprints'[s].is => sprints'[s].title # "id"
  BY <1>7, <1>11, <1>13
<1>16. /\ Steady(w) /\ NoWorse(Early, w) /\ NoWorse(Kind, w) /\ TableOf' = TableOf
  BY <1>1, <1>4, <1>6, <1>12, <1>14, <1>15, SprintHeals
<1>17. PICK k : k = [j EXCEPT !.issues = @ \ {i}, !.on = s, !.at = l]
  OBVIOUS
<1>18. pc'[p] = "reread" /\ job'[p] = k
  BY <1>5, <1>17 DEF FixMetadata, Continue, TypeInv, TypeOK
<1>19. /\ k.issues = j.issues \ {i} /\ k.on = s /\ k.at = l /\ k.found = j.found
       /\ k.table = j.table
  BY <1>17 DEF TypeInv, TypeOK, Job
<1>20. r = 1 => j.table = TableOf
  BY <1>1 DEF Settling, Kept
<1>21. Kept("reread", k, w, r)'
  BY <1>1, <1>3, <1>6, <1>15, <1>16, <1>19, <1>20 DEF Kept
<1>22. Settling("fix", j, w, r) /\ "reread" \in Fixing /\ k.on = i.on
  BY <1>1, <1>5, <1>19 DEF Fixing
<1>23. Settling("reread", k, w, r)'
  BY <1>1, <1>2, <1>16, <1>19, <1>21, <1>22, DoneSettles
<1> QED
  BY <1>18, <1>23

LEMMA RereadSettles ==
    ASSUME StartsTyped, TypeInv, NEW p \in Proc, NEW w, w = Tree[p], NEW r \in Nat,
           NEW c, NEW j, c = pc[p], j = job[p], Settling(c, j, w, r), RereadSprint(p), Works
    PROVE  \E e, k : pc'[p] = e /\ job'[p] = k /\ Settling(e, k, w, r)'
<1>1. PICK k : k = [j EXCEPT !.row = [sprints[j.on] EXCEPT !.started = TRUE,
                                        !.completed = @ \/ j.at = "completed"]]
  OBVIOUS
<1>2. c = "reread" /\ UNCHANGED project /\ ~Fault
  BY DEF RereadSprint, Works, Fault, TypeInv, TypeOK
<1>3. pc'[p] = "save" /\ job'[p] = k
  BY <1>1, <1>2 DEF RereadSprint, Continue, TypeInv, TypeOK
<1>4. /\ k.issues = j.issues /\ k.found = j.found /\ k.table = j.table /\ k.on = j.on
      /\ k.at = j.at
      /\ k.row = [sprints[j.on] EXCEPT !.started = TRUE, !.completed = @ \/ j.at = "completed"]
  BY <1>1 DEF TypeInv, TypeOK, Job
<1>5. Steady(w) /\ NoWorse(Over(r + 1), w) /\ TableOf' = TableOf
  BY <1>2, NothingWorse
<1>6. UNCHANGED <<sprints, docs>>
  BY <1>2 DEF project
<1>7. Kept("save", k, w, r)'
  BY <1>2, <1>4, <1>5, <1>6 DEF Kept, Settling
<1>8. j.issues \subseteq Proper /\ {"reread", "save"} \subseteq Fixing
  BY DEF TypeInv, Shape, Fixing
<1>9. \A x, o : Pending("reread", j, x, o) => Pending("save", k, x, o)
  BY <1>4 DEF Pending
<1>10. Settling("save", k, w, r)'
  BY <1>2, <1>4, <1>5, <1>7, <1>8, <1>9, RepairSettles
<1> QED
  BY <1>3, <1>10

LEMMA SaveSettles ==
    ASSUME StartsTyped, TypeInv, NEW p \in Proc, NEW w, w = Tree[p], NEW r \in Nat, Suited(w),
           NEW c, NEW j, c = pc[p], j = job[p], Settling(c, j, w, r), SaveSprint(p), Works
    PROVE  \E e, k : pc'[p] = e /\ job'[p] = k /\ Settling(e, k, w, r)'
<1>1. /\ c = "save" /\ UNCHANGED <<tasks, files, backlog, docs>> /\ ~Fault
  BY DEF SaveSprint, Works, Fault, TypeInv, TypeOK
<1>2. j.issues \subseteq Proper /\ w \in Worktree /\ sprints \in [Sprint -> SprintRow]
  BY StateTyped DEF TypeInv, TypeOK, Shape
<1>3. PICK s \in Sprint, l \in SprintPlace : s = j.on /\ l = j.at
  BY <1>1 DEF TypeInv, Shape
<1>4. PICK old \in SprintRow : old = sprints[s]
  BY <1>2
<1>5. PICK row : row = [old EXCEPT !.started = TRUE, !.completed = @ \/ l = "completed"]
  OBVIOUS
<1>6. /\ row.title = old.title /\ row.is = old.is /\ row.status = old.status
      /\ row.folder = old.folder /\ row.started /\ (old.completed => row.completed)
      /\ (l = "completed" => row.completed)
  BY <1>5 DEF SprintRow
<1>7. /\ j.row = row /\ docs[w][s][l] = "titled" /\ (old.is => old.title # "id")
      /\ j.found = docs[w] /\ (r = 1 => j.table = TableOf)
  BY <1>1, <1>3, <1>4, <1>5 DEF Settling, Kept
<1>8. sprints' = [sprints EXCEPT ![s] = row]
  BY <1>1, <1>3, <1>7 DEF SaveSprint
<1>9. sprints'[s] = row /\ \A u \in Sprint \ {s} : sprints'[u] = sprints[u]
  BY <1>2, <1>8
<1>10. \A k : DocAmiss(k, w, s, l)' => DocAmiss(k, w, s, l)
  BY <1>4, <1>6, <1>9, DocBetter
<1> DEFINE K == "db_sprint_metadata_stale"
<1>11. ~DocAmiss(K, w, s, l)'
  BY <1>6, <1>7, <1>9, DocRowNext
<1>12. K \in SprintKind /\ K \notin Early
  BY DEF SprintKind, Early
<1>13. sprints'[s].is = sprints[s].is /\ sprints'[s].status = sprints[s].status
  BY <1>4, <1>6, <1>9
<1>14. /\ Steady(w) /\ NoWorse(Kind, w) /\ TableOf' = TableOf /\ ~Amiss(K, w, s)'
  BY <1>1, <1>7, <1>9, <1>10, <1>11, <1>12, <1>13, SprintHeals
<1>15. NoWorse(Over(r + 1), w)
  BY <1>14 DEF NoWorse, Over
<1>16. PICK k : k = [j EXCEPT !.on = Nothing, !.at = "stale", !.row = NoSprintRow]
  OBVIOUS
<1>17. pc'[p] = "fix" /\ job'[p] = k
  BY <1>16 DEF SaveSprint, Continue, TypeInv, TypeOK
<1>18. k.issues = j.issues /\ k.found = j.found /\ k.table = j.table
  BY <1>16 DEF TypeInv, TypeOK, Job
<1>19. Kept("fix", k, w, r)'
  BY <1>1, <1>7, <1>14, <1>18 DEF Kept
<1>20. ASSUME NEW x, NEW o, Pending("save", j, x, o), Amiss(x, w, o)'
       PROVE  Pending("fix", k, x, o)
  BY <1>3, <1>14, <1>18, <1>20 DEF Pending
<1>21. {"save", "fix"} \subseteq Fixing
  BY DEF Fixing
<1>22. Settling("fix", k, w, r)'
  BY <1>1, <1>2, <1>14, <1>15, <1>18, <1>19, <1>20, <1>21, RepairSettles
<1> QED
  BY <1>17, <1>22

-----------------------------------------------------------------------------
(* The end of a sync, and all steps.                                       *)

LEMMA EndSettles ==
    ASSUME StartsTyped, TypeInv, NEW p \in Proc, NEW w, w = Tree[p], NEW r \in Nat,
           NEW c, NEW j, c = pc[p], j = job[p], r = rounds[p], Settling(c, j, w, r), EndSync(p)
    PROVE  \E e, k : pc'[p] = e /\ job'[p] = k /\ rounds'[p] = r + 1 /\ Settling(e, k, w, r + 1)'
<1>1. /\ c = "fix" /\ j.issues = {} /\ UNCHANGED <<tasks, files, sprints, docs>>
      /\ pc'[p] = "idle" /\ job'[p] = NoJob /\ rounds'[p] = r + 1
  BY DEF EndSync, TypeInv, TypeOK
<1>2. NoneDue(w, r + 1)
  <2> SUFFICES ASSUME NEW x \in Over(r + 1), NEW o \in Subject, Amiss(x, w, o) PROVE FALSE
    BY DEF NoneDue, Subject
  <2>1. x \in Kind
    BY DEF Over
  <2>2. x \in Checked("fix")
    <3>1. x \in TaskKind \cup SummaryKind \cup SprintKind
      BY <2>1, Kinds
    <3> QED
      BY <2>1, <3>1 DEF Checked, TaskKind
  <2>3. Pending("fix", j, x, o)
    BY <1>1, <2>2 DEF Settling, Covered
  <2> QED
    BY <1>1, <2>3 DEF Pending
<1>3. /\ backlog'[w].listed = backlog[w].listed /\ backlog'[w].heading = backlog[w].heading
      /\ backlog'[w].section = backlog[w].section /\ backlog'[w].table = backlog[w].table
  <2>1. w \in Worktree /\ backlog \in [Worktree -> Listing] /\ backlog[w] \in Listing
    BY StateTyped DEF TypeInv, TypeOK
  <2>2. PICK b : b = RebuildBacklogSummary(backlog[w])
    OBVIOUS
  <2>3. /\ b.listed = backlog[w].listed /\ b.heading = backlog[w].heading
        /\ b.section = backlog[w].section /\ b.table = backlog[w].table
        /\ (backlog' = [backlog EXCEPT ![w] = b] \/ backlog' = backlog)
    BY <2>1, <2>2, SummaryRebuilt DEF EndSync, StartsTyped
  <2>4. backlog'[w] = b \/ backlog'[w] = backlog[w]
    BY <2>1, <2>3
  <2> QED
    BY <2>3, <2>4
<1>4. ASSUME NEW x, NEW o, Amiss(x, w, o)' PROVE Amiss(x, w, o)
  <2> SUFFICES ASSUME ~Amiss(x, w, o) PROVE FALSE
    OBVIOUS
  <2> QED
    BY <1>1, <1>3, <1>4, ListingChange DEF ListingKind
<1>5. NoneDue(w, r + 1)'
  BY <1>2, <1>4 DEF NoneDue, Subject
<1>6. PICK k : k = NoJob
  OBVIOUS
<1>10. k.issues = {}
  BY <1>6 DEF NoJob
<1>7. Covered("idle", k, w, r + 1)'
  BY NewlyChecked DEF Covered
<1>8. Sound(k, w, r + 1)' /\ Kept("idle", k, w, r + 1)'
  BY <1>10 DEF Sound, Kept
<1>9. Settling("idle", k, w, r + 1)'
  BY <1>5, <1>7, <1>8 DEF Settling
<1> QED
  BY <1>1, <1>6, <1>9

\* What a sync leaves alone: SPRINT.md, the heading above the count, and up to its
\* end the date.
LEMMA HeadingKept ==
    ASSUME StartsTyped, TypeInv, NEW p \in Proc, NEW w, w = Tree[p], NEW i, FixListing(p, i)
    PROVE  backlog'[w].heading = backlog[w].heading /\ backlog'[w].dated = backlog[w].dated
<1>1. w \in Worktree /\ backlog \in [Worktree -> Listing] /\ backlog[w] \in Listing
  BY StateTyped DEF TypeInv, TypeOK
<1>2. \A b : backlog' = [backlog EXCEPT ![w] = b] => backlog'[w] = b
  BY <1>1
<1>3. ASSUME NEW lines
      PROVE  /\ [backlog[w] EXCEPT !.listed = lines].heading = backlog[w].heading
             /\ [backlog[w] EXCEPT !.listed = lines].dated = backlog[w].dated
  BY <1>1 DEF Listing
<1>4. ASSUME NEW names
      PROVE  /\ [backlog[w] EXCEPT !.table = names].heading = backlog[w].heading
             /\ [backlog[w] EXCEPT !.table = names].dated = backlog[w].dated
  BY <1>1 DEF Listing
<1>5. CASE backlog' = [backlog EXCEPT ![w].listed = @ \ {i.on}]
  <2>1. backlog'[w] = [backlog[w] EXCEPT !.listed = @ \ {i.on}]
    BY <1>1, <1>5
  <2> QED
    BY <1>3, <2>1
<1>6. CASE backlog' = [backlog EXCEPT ![w].listed = @ \cup {i.on}]
  <2>1. backlog'[w] = [backlog[w] EXCEPT !.listed = @ \cup {i.on}]
    BY <1>1, <1>6
  <2> QED
    BY <1>3, <2>1
<1>7. CASE backlog' = [backlog EXCEPT ![w].table = job[p].table]
  <2>1. backlog'[w] = [backlog[w] EXCEPT !.table = job[p].table]
    BY <1>1, <1>7
  <2> QED
    BY <1>4, <2>1
<1> QED
  BY <1>5, <1>6, <1>7 DEF FixListing

LEMMA HeadingAtEnd ==
    ASSUME StartsTyped, TypeInv, NEW p \in Proc, NEW w, w = Tree[p], EndSync(p)
    PROVE  /\ backlog'[w].heading = backlog[w].heading
           /\ backlog[w].dated \/ job[p].rebuild => backlog'[w].dated
<1>1. w \in Worktree /\ backlog \in [Worktree -> Listing] /\ backlog[w] \in Listing
  BY StateTyped DEF TypeInv, TypeOK
<1>2. PICK b : b = RebuildBacklogSummary(backlog[w])
  OBVIOUS
<1>3. b.heading = backlog[w].heading /\ b.dated
  BY <1>1, <1>2, SummaryRebuilt DEF StartsTyped
<1>4. backlog' = IF job[p].rebuild THEN [backlog EXCEPT ![w] = b] ELSE backlog
  BY <1>2 DEF EndSync
<1>5. (job[p].rebuild => backlog'[w] = b) /\ (~job[p].rebuild => backlog'[w] = backlog[w])
  BY <1>1, <1>4
<1> QED
  BY <1>3, <1>5

LEMMA SyncKeeps ==
    ASSUME StartsTyped, TypeInv, NEW p \in Proc, NEW w, w = Tree[p], BeginSync(p) \/ Step(p)
    PROVE  /\ docs' = docs /\ backlog'[w].heading = backlog[w].heading
           /\ ~EndSync(p) => backlog'[w].dated = backlog[w].dated
<1>1. CASE \/ BeginSync(p) \/ CheckLocation(p) \/ ReadRows(p) \/ CompareFiles(p)
           \/ CheckListing(p) \/ CheckSummary(p) \/ ReadDocuments(p) \/ CompareSprints(p)
           \/ CheckOrphans(p) \/ RereadSprint(p)
  <2>1. UNCHANGED project
    BY <1>1, LocationReports, CompareReports, ListingReports, SummaryReports, SprintsReport,
       OrphansReport DEF BeginSync, ReadRows, ReadDocuments, RereadSprint
  <2> QED
    BY <2>1 DEF project
<1>2. CASE ClearSprint(p) \/ SaveSprint(p)
  BY <1>2 DEF ClearSprint, SaveSprint
<1>3. CASE EndSync(p)
  BY <1>3, HeadingAtEnd DEF EndSync
<1>4. ASSUME NEW i,
             FixRow(p, i) \/ FixLocation(p, i) \/ FixListing(p, i)
             \/ FixSprint(p, i) \/ FixMetadata(p, i) \/ SkipFix(p, i)
      PROVE  /\ docs' = docs /\ backlog'[w].heading = backlog[w].heading
             /\ backlog'[w].dated = backlog[w].dated
  <2>1. CASE FixListing(p, i)
    BY <2>1, HeadingKept, ZenonT(60) DEF FixListing
  <2>2. CASE \/ FixRow(p, i) \/ FixLocation(p, i) \/ FixSprint(p, i) \/ FixMetadata(p, i)
             \/ SkipFix(p, i)
    BY <2>2, ZenonT(60) DEF FixRow, FixLocation, FixSprint, FixMetadata, SkipFix, project
  <2> QED
    BY <1>4, <2>1, <2>2, SMTT(30)
<1> QED
  BY <1>1, <1>2, <1>3, <1>4 DEF Step

LEMMA StepRounds ==
    ASSUME NEW p, BeginSync(p) \/ (Step(p) /\ ~EndSync(p))
    PROVE  rounds' = rounds
<1>1. (\E l, k : Continue(p, l, k)) => rounds' = rounds
  BY DEF Continue
<1>2. CASE BeginSync(p) \/ CheckLocation(p) \/ ReadRows(p) \/ CompareFiles(p) \/ CheckListing(p)
           \/ CheckSummary(p) \/ ReadDocuments(p) \/ CompareSprints(p) \/ CheckOrphans(p)
  <2>1. \E l, k : Continue(p, l, k)
    BY <1>2, Zenon DEF BeginSync, CheckLocation, ReadRows, CompareFiles, CheckListing,
       CheckSummary, ReadDocuments, CompareSprints, CheckOrphans, Report
  <2> QED
    BY <2>1, <1>1
<1>3. ASSUME NEW i,
             FixRow(p, i) \/ FixLocation(p, i) \/ FixListing(p, i)
             \/ FixSprint(p, i) \/ FixMetadata(p, i) \/ SkipFix(p, i)
      PROVE  rounds' = rounds
  <2>1. \E l, k : Continue(p, l, k)
    BY <1>3, Zenon DEF FixRow, FixLocation, FixListing, FixSprint, FixMetadata, SkipFix, Done
  <2> QED
    BY <2>1, <1>1
<1>4. CASE ClearSprint(p) \/ RereadSprint(p) \/ SaveSprint(p)
  <2>1. \E l, k : Continue(p, l, k)
    BY <1>4, Zenon DEF ClearSprint, RereadSprint, SaveSprint
  <2> QED
    BY <2>1, <1>1
<1> QED
  BY <1>2, <1>3, <1>4 DEF Step

\* A step of a sync that is alone, and does not fail, settles what the sync claims.
LEMMA StepSettles ==
    ASSUME StartsTyped, TypeInv, NEW p \in Proc, NEW w, w = Tree[p], Suited(w), Works,
           NEW c, NEW j, NEW r, c = pc[p], j = job[p], r = rounds[p],
           Finds(c, j, w), Settling(c, j, w, r), BeginSync(p) \/ Step(p),
           r >= 1 => backlog[w].dated
    PROVE  \E e, k, n : pc'[p] = e /\ job'[p] = k /\ rounds'[p] = n /\ Settling(e, k, w, n)'
<1>0. r \in Nat
  BY DEF TypeInv, TypeOK
<1>1. CASE EndSync(p)
  <2>1. \E e, k : pc'[p] = e /\ job'[p] = k /\ rounds'[p] = r + 1 /\ Settling(e, k, w, r + 1)'
    BY <1>0, <1>1, EndSettles
  <2>2. PICK n : n = r + 1
    OBVIOUS
  <2> QED
    BY <2>1, <2>2
<1>2. ASSUME ~EndSync(p), \E e, k : pc'[p] = e /\ job'[p] = k /\ Settling(e, k, w, r)'
      PROVE  \E e, k, n : pc'[p] = e /\ job'[p] = k /\ rounds'[p] = n /\ Settling(e, k, w, n)'
  <2>1. rounds'[p] = r
    BY <1>2, StepRounds
  <2> QED
    BY <1>2, <2>1
<1>3. CASE BeginSync(p)
  BY <1>0, <1>1, <1>2, <1>3, BeginSettles
<1>4. CASE CheckLocation(p)
  BY <1>0, <1>1, <1>2, <1>4, LocationSettles
<1>5. CASE ReadRows(p)
  BY <1>0, <1>1, <1>2, <1>5, ReadRowsSettles
<1>6. CASE CompareFiles(p)
  BY <1>0, <1>1, <1>2, <1>6, CompareSettles
<1>7. CASE CheckListing(p)
  BY <1>0, <1>1, <1>2, <1>7, ListingSettles
<1>8. CASE CheckSummary(p)
  BY <1>0, <1>1, <1>2, <1>8, SummarySettles
<1>9. CASE ReadDocuments(p)
  BY <1>0, <1>1, <1>2, <1>9, DocumentsSettle
<1>10. CASE CompareSprints(p)
  BY <1>0, <1>1, <1>2, <1>10, SprintsSettle
<1>11. CASE CheckOrphans(p)
  BY <1>0, <1>1, <1>2, <1>11, OrphansSettle
<1>12. ASSUME NEW i \in j.issues,
              FixRow(p, i) \/ FixLocation(p, i) \/ FixListing(p, i)
              \/ FixSprint(p, i) \/ FixMetadata(p, i) \/ SkipFix(p, i)
       PROVE  \E e, k : pc'[p] = e /\ job'[p] = k /\ Settling(e, k, w, r)'
  <2>1. ~SkipFix(p, i)
    BY DEF SkipFix, Fault, Works, TypeInv, TypeOK
  <2>2. CASE FixRow(p, i)
    BY <1>0, <2>2, FixRowSettles
  <2>3. CASE FixLocation(p, i)
    BY <1>0, <2>3, FixLocationSettles
  <2>4. CASE FixListing(p, i)
    BY <1>0, <2>4, FixListingSettles
  <2>5. CASE FixSprint(p, i)
    BY <1>0, <2>5, FixSprintSettles
  <2>6. CASE FixMetadata(p, i)
    BY <1>0, <2>6, FixMetadataSettles
  <2> QED
    BY <1>12, <2>1, <2>2, <2>3, <2>4, <2>5, <2>6
<1>13. CASE ClearSprint(p)
  BY <1>0, <1>1, <1>2, <1>13, ClearSettles
<1>14. CASE RereadSprint(p)
  BY <1>0, <1>1, <1>2, <1>14, RereadSettles
<1>15. CASE SaveSprint(p)
  BY <1>0, <1>1, <1>2, <1>15, SaveSettles
<1> QED
  BY <1>1, <1>2, <1>3, <1>4, <1>5, <1>6, <1>7, <1>8, <1>9, <1>10, <1>11, <1>12, <1>13,
     <1>14, <1>15 DEF Step

-----------------------------------------------------------------------------
(* The date of BACKLOG.md: a sync that found it stale has a repair to make, *)
(* or has made it and will write the date at its end.                       *)

Past == {"documents", "sprints", "orphans", "fix", "clear", "reread", "save"}
Stamped(j) == j.rebuild \/ \E i \in j.issues : i.kind = Stamp
Dated(c, j, w, r) ==
    /\ r >= 1 => backlog[w].dated
    /\ c \in Past => backlog[w].dated \/ Stamped(j)

\* The repair of the date is forgotten by none but the end of the sync.
LEMMA StampKept ==
    ASSUME TypeInv, NEW p \in Proc, Works, Step(p), ~CheckSummary(p), ~EndSync(p)
    PROVE  pc'[p] \in Past => pc[p] \in Past /\ (Stamped(job[p]) => Stamped(job'[p]))
<1>1. PICK j \in Job : j = job[p]
  BY DEF TypeInv, TypeOK
<1>2. \A l, k : Continue(p, l, k) => pc'[p] = l /\ job'[p] = k
  BY DEF Continue, TypeInv, TypeOK
<1>3. ASSUME NEW l, NEW I, NEW m, Report(p, l, I, m), l \in Past => pc[p] \in Past
      PROVE  pc'[p] \in Past => pc[p] \in Past /\ (Stamped(j) => Stamped(job'[p]))
  <2>1. PICK k : k = [j EXCEPT !.issues = @ \cup I, !.manual = @ \/ m]
    OBVIOUS
  <2>2. k.issues = j.issues \cup I /\ k.rebuild = j.rebuild
    BY <2>1 DEF Job
  <2>3. pc'[p] = l /\ job'[p] = k
    BY <1>1, <1>2, <1>3, <2>1 DEF Report
  <2> QED
    BY <1>3, <2>2, <2>3 DEF Stamped
<1>4. ASSUME NEW l, NEW k, Continue(p, l, k), k.issues = j.issues, k.rebuild = j.rebuild,
             l \in Past => pc[p] \in Past
      PROVE  pc'[p] \in Past => pc[p] \in Past /\ (Stamped(j) => Stamped(job'[p]))
  BY <1>2, <1>4 DEF Stamped
<1>5. ASSUME NEW i, NEW l, NEW k, pc[p] = "fix", Continue(p, l, k),
             k.issues = j.issues \ {i}, k.rebuild \/ (i.kind # Stamp /\ k.rebuild = j.rebuild)
      PROVE  pc'[p] \in Past => pc[p] \in Past /\ (Stamped(j) => Stamped(job'[p]))
  <2>1. job'[p] = k /\ pc[p] \in Past
    BY <1>2, <1>5 DEF Past
  <2> QED
    BY <1>5, <2>1 DEF Stamped
<1>6. CASE CheckLocation(p) \/ CompareFiles(p) \/ CheckListing(p)
  BY <1>1, <1>3, <1>6, LocationReports, CompareReports, ListingReports, Zenon DEF Past
<1>7. CASE CompareSprints(p) \/ CheckOrphans(p)
  <2>1. pc[p] \in Past
    BY <1>7, SprintsReport, OrphansReport DEF Past
  <2> QED
    BY <1>1, <1>3, <1>7, <2>1, SprintsReport, OrphansReport, Zenon
<1>8. CASE ReadRows(p)
  <2>1. PICK k : k = [j EXCEPT !.rows = tasks]
    OBVIOUS
  <2>2. k.issues = j.issues /\ k.rebuild = j.rebuild
    BY <2>1 DEF Job
  <2>3. Continue(p, "compare", k) /\ "compare" \notin Past
    BY <1>1, <1>8, <2>1 DEF ReadRows, Past
  <2> QED
    BY <1>1, <1>4, <2>2, <2>3
<1>9. CASE ReadDocuments(p)
  <2>1. PICK k : k = [j EXCEPT !.found = docs[Tree[p]]]
    OBVIOUS
  <2>2. k.issues = j.issues /\ k.rebuild = j.rebuild
    BY <2>1 DEF Job
  <2>3. Continue(p, "sprints", k) /\ pc[p] \in Past
    BY <1>1, <1>9, <2>1 DEF ReadDocuments, Past
  <2> QED
    BY <1>1, <1>4, <2>2, <2>3
<1>10. CASE ClearSprint(p)
  <2>1. PICK k : k = [j EXCEPT !.on = Nothing]
    OBVIOUS
  <2>2. k.issues = j.issues /\ k.rebuild = j.rebuild
    BY <2>1 DEF Job
  <2>3. Continue(p, "fix", k) /\ pc[p] \in Past
    BY <1>1, <1>10, <2>1 DEF ClearSprint, Past
  <2> QED
    BY <1>1, <1>4, <2>2, <2>3
<1>11. CASE RereadSprint(p)
  <2>1. ~Fault /\ pc[p] \in Past
    BY <1>11 DEF RereadSprint, Past, Works, Fault, TypeInv, TypeOK
  <2>2. PICK x : x = [sprints[j.on] EXCEPT !.started = TRUE,
                                           !.completed = @ \/ j.at = "completed"]
    OBVIOUS
  <2>3. PICK k : k = [j EXCEPT !.row = x]
    OBVIOUS
  <2>4. k.issues = j.issues /\ k.rebuild = j.rebuild
    BY <2>3 DEF Job
  <2>5. Continue(p, "save", k)
    BY <1>1, <1>11, <2>1, <2>2, <2>3 DEF RereadSprint
  <2> QED
    BY <1>1, <1>4, <2>1, <2>4, <2>5
<1>12. CASE SaveSprint(p)
  <2>1. PICK k : k = [j EXCEPT !.on = Nothing, !.at = "stale", !.row = NoSprintRow]
    OBVIOUS
  <2>2. k.issues = j.issues /\ k.rebuild = j.rebuild
    BY <2>1 DEF Job
  <2>3. Continue(p, "fix", k) /\ pc[p] \in Past
    BY <1>1, <1>12, <2>1 DEF SaveSprint, Past
  <2> QED
    BY <1>1, <1>4, <2>2, <2>3
<1>13. ASSUME NEW i,
              FixRow(p, i) \/ FixLocation(p, i) \/ FixListing(p, i)
              \/ FixSprint(p, i) \/ FixMetadata(p, i) \/ SkipFix(p, i)
       PROVE  pc'[p] \in Past => pc[p] \in Past /\ (Stamped(j) => Stamped(job'[p]))
  <2>1. ~SkipFix(p, i)
    BY DEF SkipFix, Fault, Works, TypeInv, TypeOK
  <2>2. pc[p] = "fix"
    BY <1>13, Zenon DEF FixRow, FixLocation, FixListing, FixSprint, FixMetadata, SkipFix, Due
  <2>3. ASSUME Done(p, i), i.kind # Stamp
        PROVE  pc'[p] \in Past => pc[p] \in Past /\ (Stamped(j) => Stamped(job'[p]))
    <3>1. PICK k : k = [j EXCEPT !.issues = @ \ {i}]
      OBVIOUS
    <3>2. k.issues = j.issues \ {i} /\ k.rebuild = j.rebuild
      BY <3>1 DEF Job
    <3>3. Continue(p, "fix", k)
      BY <1>1, <2>3, <3>1 DEF Done
    <3> QED
      BY <1>5, <2>2, <2>3, <3>2, <3>3
  <2>4. CASE FixRow(p, i)
    BY <2>3, <2>4 DEF FixRow, Stamp
  <2>5. CASE FixSprint(p, i)
    BY <2>3, <2>5 DEF FixSprint, Stamp
  <2>6. CASE FixLocation(p, i)
    <3>1. i.kind # Stamp
      BY <2>6 DEF FixLocation, Stamp
    <3>2. PICK k : k = [j EXCEPT !.issues = @ \ {i}, !.on = i.on]
      OBVIOUS
    <3>3. k.issues = j.issues \ {i} /\ k.rebuild = j.rebuild
      BY <3>2 DEF Job
    <3>4. Done(p, i) \/ Continue(p, "clear", k)
      BY <1>1, <2>6, <3>2 DEF FixLocation
    <3> QED
      BY <1>5, <2>2, <2>3, <3>1, <3>3, <3>4
  <2>7. CASE FixMetadata(p, i)
    <3>1. i.kind # Stamp
      BY <2>7 DEF FixMetadata, Stamp
    <3>2. PICK k : k = [j EXCEPT !.issues = @ \ {i}, !.on = i.on, !.at = i.at]
      OBVIOUS
    <3>3. k.issues = j.issues \ {i} /\ k.rebuild = j.rebuild
      BY <3>2 DEF Job
    <3>4. Continue(p, "reread", k)
      BY <1>1, <2>7, <3>2 DEF FixMetadata
    <3> QED
      BY <1>5, <2>2, <3>1, <3>3, <3>4
  <2>8. CASE FixListing(p, i)
    <3>1. PICK k : k = [j EXCEPT !.issues = @ \ {i}, !.rebuild = TRUE]
      OBVIOUS
    <3>2. k.issues = j.issues \ {i} /\ k.rebuild
      BY <3>1 DEF Job
    <3>3. (Done(p, i) /\ i.kind # Stamp) \/ Continue(p, "fix", k)
      BY <1>1, <2>8, <3>1 DEF FixListing, Stamp
    <3> QED
      BY <1>5, <2>2, <2>3, <3>2, <3>3
  <2> QED
    BY <1>13, <2>1, <2>4, <2>5, <2>6, <2>7, <2>8
<1> QED
  BY <1>1, <1>6, <1>7, <1>8, <1>9, <1>10, <1>11, <1>12, <1>13 DEF Step

LEMMA DateKept ==
    ASSUME StartsTyped, TypeInv, NEW p \in Proc, NEW w, w = Tree[p], Works,
           NEW c, NEW j, NEW r, c = pc[p], j = job[p], r = rounds[p],
           Dated(c, j, w, r), BeginSync(p) \/ Step(p),
           NEW d, NEW k, NEW n, d = pc'[p], k = job'[p], n = rounds'[p]
    PROVE  Dated(d, k, w, n)'
<1>0. r \in Nat
  BY DEF TypeInv, TypeOK
<1>1. CASE EndSync(p)
  <2>1. c = "fix" /\ j.issues = {} /\ pc'[p] = "idle"
    BY <1>1 DEF EndSync, TypeInv, TypeOK
  <2>2. backlog[w].dated \/ j.rebuild
    BY <2>1 DEF Dated, Past, Stamped
  <2>3. backlog'[w].dated /\ "idle" \notin Past
    BY <1>1, <2>2, HeadingAtEnd DEF Past
  <2> QED
    BY <2>1, <2>3 DEF Dated
<1>2. CASE ~EndSync(p)
  <2>1. backlog'[w].dated = backlog[w].dated /\ rounds'[p] = r
    BY <1>2, SyncKeeps, StepRounds
  <2>2. CASE BeginSync(p)
    <3>1. pc'[p] \notin Past
      BY <2>2 DEF BeginSync, Continue, Past, TypeInv, TypeOK
    <3> QED
      BY <2>1, <3>1 DEF Dated
  <2>3. CASE CheckSummary(p)
    <3>1. PICK m : m = [j EXCEPT !.table = TableOf, !.issues = @ \cup SummaryFinds(p)]
      OBVIOUS
    <3>2. k = m
      BY <2>3, <3>1, SummaryReports, ZenonT(60) DEF Continue, TypeInv, TypeOK
    <3>3. m.issues = j.issues \cup SummaryFinds(p)
      BY <3>1, StateTyped DEF Job
    <3>4. ~backlog[w].dated => Issue(Stamp, Nothing, "stale", Plain) \in SummaryFinds(p)
      BY DEF SummaryFinds, Stamp
    <3>5. ~backlog[w].dated => Stamped(m)
      BY <3>3, <3>4 DEF Stamped, Issue
    <3> QED
      BY <2>1, <3>2, <3>5 DEF Dated
  <2>4. CASE Step(p) /\ ~CheckSummary(p)
    BY <1>2, <2>1, <2>4, StampKept DEF Dated
  <2> QED
    BY <2>2, <2>3, <2>4
<1> QED
  BY <1>1, <1>2

\* One SPRINT.md per Sprint stays so, and the only sync has settled what it says,
\* the date of BACKLOG.md with it.
ConvergeInv ==
    /\ scene.others = {} => OneDoc
    /\ Alone /\ faults = 0 =>
          \A p \in Runs : \A c \in {pc[p]}, j \in {job[p]}, r \in {rounds[p]} :
             Dated(c, j, Tree[p], r) /\ (Suited(Tree[p]) => Settling(c, j, Tree[p], r))

LEMMA ConvergeInitially == StartsTyped /\ OneDocument /\ Init => ConvergeInv
<1> SUFFICES ASSUME StartsTyped, OneDocument, Init PROVE ConvergeInv
  OBVIOUS
<1>1. OneDoc
  <2>1. PICK states \in Starts : \E start \in states : docs = start.docs
    BY DEF Init
  <2>2. PICK start \in states : docs = start.docs
    BY <2>1
  <2> QED
    BY <2>2 DEF OneDocument, OneDoc
<1>2. \A p \in Proc : pc[p] = "idle" /\ job[p] = NoJob /\ rounds[p] = 0
  BY DEF Init
<1>3. Over(0) = {} /\ Checked("idle") = {}
  <2>1. "idle" \notin {"orphans", "fix", "clear", "reread", "save"}
    OBVIOUS
  <2> QED
    BY DEF Over, Checked
<1>4. NoJob.issues = {}
  BY DEF NoJob
<1>5. ASSUME NEW w PROVE Settling("idle", NoJob, w, 0)
  BY <1>3, <1>4 DEF Settling, NoneDue, Covered, Sound, Kept
<1>6. ASSUME NEW w PROVE Dated("idle", NoJob, w, 0)
  BY DEF Dated, Past
<1> QED
  BY <1>1, <1>2, <1>5, <1>6 DEF ConvergeInv, Runs

LEMMA ConvergeStep ==
    ASSUME StartsTyped, IsFiniteSet(Proc), TypeInv, AloneInv, ConvergeInv, Next,
           scene'.others = {}
    PROVE  ConvergeInv'
<1>1. scene' = scene /\ scene.others = {} /\ (Works \/ Fault)
  BY SceneKept
<1>2. PICK p \in Proc : BeginSync(p) \/ Step(p)
  BY <1>1, AloneMoves
<1>3. PICK w : w = Tree[p]
  OBVIOUS
<1>4. docs' = docs /\ backlog'[w].heading = backlog[w].heading
  BY <1>2, <1>3, SyncKeeps
<1>5. OneDoc'
  BY <1>1, <1>4 DEF ConvergeInv, OneDoc
<1>6. ASSUME Alone', faults' = 0, NEW q \in Runs'
      PROVE  \A c \in {pc'[q]}, j \in {job'[q]}, r \in {rounds'[q]} :
                /\ Dated(c, j, Tree[q], r)'
                /\ Suited(Tree[q])' => Settling(c, j, Tree[q], r)'
  <2>1. Alone /\ Runs' = Runs
    BY <1>1, <1>6 DEF Alone, Runs
  <2>2. faults = 0 /\ Works
    BY <1>1, <1>6 DEF Works, Fault, TypeInv, TypeOK
  <2>3. Runs = {p}
    BY <1>2, <2>1, AloneSteps DEF AloneInv
  <2>4. q = p
    BY <2>1, <2>3, <1>6
  <2>6. PICK c, j, r : c = pc[p] /\ j = job[p] /\ r = rounds[p]
    OBVIOUS
  <2>7. Dated(c, j, w, r)
    BY <1>3, <2>1, <2>2, <2>3, <2>6 DEF ConvergeInv
  <2>8. Finds(c, j, w)
    BY <1>3, <2>1, <2>6 DEF AloneInv
  <2>9. ASSUME NEW e, NEW k, NEW n, e = pc'[p], k = job'[p], n = rounds'[p]
        PROVE  Dated(e, k, w, n)'
    BY <1>2, <1>3, <2>2, <2>6, <2>7, <2>9, DateKept
  <2>10. ASSUME Suited(Tree[q])'
         PROVE  \E e, k, n : pc'[p] = e /\ job'[p] = k /\ rounds'[p] = n /\ Settling(e, k, w, n)'
    <3>1. Suited(w)
      BY <1>3, <1>4, <2>10, <2>4 DEF Suited
    <3>2. Settling(c, j, w, r)
      BY <1>3, <2>1, <2>2, <2>3, <3>1, <2>6 DEF ConvergeInv
    <3>3. r >= 1 => backlog[w].dated
      BY <2>7 DEF Dated
    <3> QED
      BY <1>2, <1>3, <2>2, <2>6, <2>8, <3>1, <3>2, <3>3, StepSettles
  <2> QED
    BY <1>3, <2>4, <2>9, <2>10
<1> QED
  BY <1>5, <1>6 DEF ConvergeInv

\* Syncs of one worktree, alone and without a failing repair, converge: from the third
\* on they find nothing to repair, below any heading that sync rewrites and where
\* every SPRINT.md has a title.
THEOREM SyncConverges ==
    StartsTyped /\ OneDocument /\ IsFiniteSet(Proc) => (Spec => []Converges)
<1> SUFFICES ASSUME StartsTyped, OneDocument, IsFiniteSet(Proc) PROVE Spec => []Converges
  OBVIOUS
<1> DEFINE Inv == TypeInv /\ AloneInv /\ ConvergeInv
<1>1. Init => Inv
  BY TypedInitially, AloneInitially, ConvergeInitially
<1>2. Inv /\ [Next]_vars => Inv'
  <2> SUFFICES ASSUME TypeInv, AloneInv, ConvergeInv, [Next]_vars
               PROVE  TypeInv' /\ AloneInv' /\ ConvergeInv'
    OBVIOUS
  <2>1. TypeInv'
    BY TypedStep
  <2>2. CASE Next
    <3>1. AloneInv'
      BY <2>2, AloneStep DEF AloneInv
    <3>2. ASSUME scene'.others # {} PROVE ConvergeInv'
      BY <3>2 DEF ConvergeInv, Alone
    <3>3. ConvergeInv'
      BY <2>2, <3>2, ConvergeStep
    <3> QED
      BY <2>1, <3>1, <3>3
  <2>3. CASE UNCHANGED vars
    <3>1. UNCHANGED project
      BY <2>3 DEF vars, project
    <3>2. \A c, j, w : Finds(c, j, w)' <=> Finds(c, j, w)
      BY <3>1, FindsKept
    <3>3. AloneInv'
      BY <2>3, <3>2 DEF vars, AloneInv, Alone, Runs
    <3>4. ASSUME NEW c, NEW j, NEW w, NEW r, Settling(c, j, w, r) PROVE Settling(c, j, w, r)'
      <4>1. \A k, o : Amiss(k, w, o)' <=> Amiss(k, w, o)
        BY <3>1, AmissKept
      <4>2. NoneDue(w, r)' /\ Covered(c, j, w, r)'
        BY <3>4, <4>1 DEF Settling, NoneDue, Covered
      <4>3. UNCHANGED <<files, sprints, docs>>
        BY <3>1 DEF project
      <4>4. ASSUME NEW i, Right(w, i) PROVE Right(w, i)'
        <5>1. TaskRight(w, i) => TaskRight(w, i)'
          BY <4>3 DEF TaskRight, Last, Here, Said, WantedSprint
        <5> QED
          BY <4>3, <4>4, <5>1 DEF Right
      <4>5. Sound(j, w, r)'
        BY <3>4, <4>4 DEF Settling, Sound
      <4>6. Kept(c, j, w, r)'
        BY <3>4, <4>3 DEF Settling, Kept, TableOf
      <4> QED
        BY <4>2, <4>5, <4>6 DEF Settling
    <3>5. ConvergeInv'
      BY <2>3, <3>4 DEF vars, ConvergeInv, OneDoc, Alone, Runs, Suited, Dated
    <3> QED
      BY <2>1, <3>3, <3>5
  <2> QED
    BY <2>2, <2>3
<1>3. Inv => Converges
  <2> SUFFICES ASSUME Inv, NEW p \in Proc, Alone, faults = 0, rounds[p] >= 2, pc[p] = "fix",
                      backlog[Tree[p]].heading # "remaining",
                      \A s \in Sprint, l \in SprintPlace : docs[Tree[p]][s][l] # "untitled"
               PROVE  job[p].issues = {}
    BY DEF Converges
  <2>1. p \in Runs
    BY DEF AloneInv
  <2>2. Suited(Tree[p])
    <3>1. OneDoc /\ Tree[p] \in Worktree
      BY StateTyped DEF ConvergeInv, Alone
    <3> QED
      BY <3>1 DEF OneDoc, Suited
  <2>3. PICK c, j, r, w : c = pc[p] /\ j = job[p] /\ r = rounds[p] /\ w = Tree[p]
    OBVIOUS
  <2>4. Sound(j, w, r)
    BY <2>1, <2>2, <2>3 DEF ConvergeInv, Settling
  <2>5. \A i \in j.issues : i.kind \in Kind
    BY <2>3 DEF TypeInv, Shape, Proper, Issues
  <2>6. r >= 2
    BY <2>3
  <2> QED
    BY <2>3, <2>4, <2>5, <2>6 DEF Sound, Over
<1> QED
  BY <1>1, <1>2, <1>3, PTL DEF Spec
==============================================================================
