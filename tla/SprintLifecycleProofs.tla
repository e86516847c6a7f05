----------------------- MODULE SprintLifecycleProofs -----------------------
(***************************************************************************)
(* Theorems about SprintLifecycle, for any number of processes, Sprints and*)
(* Tasks.                                                                  *)
(***************************************************************************)
EXTENDS SprintLifecycle, TLAPS

-----------------------------------------------------------------------------
(* Type correctness.  Which command is at which label, and what it has in  *)
(* hand there: a Sprint always, two places while it moves a folder, a Task *)
(* while it assigns or binds one.                                          *)

Movers == {"start", "complete", "discard", "return", "db-only"}
OnTheMove == {"collect", "return", "frontmatter", "move", "sweep", "stamp", "record",
              "db-only", "paths", "list", "bind", "bind-sprint", "bind-path",
              "sync", "force", "focus"}
Assigning == {"rename", "tag", "unlist", "row", "set-sprint", "set-path",
              "drop-row", "relist", "untag", "put-back"}

JobOK(l, j) ==
  /\ j \in Job
  /\ l # "idle" => j.sprint \in Sprint
  /\ l \in OnTheMove => j.cmd \in Movers /\ j.from \in Place /\ j.to \in Place
  /\ l \in {"bind-sprint", "bind-path"} => j.task \in Task
  /\ l \in Assigning => /\ j.cmd \in {"assign", "unassign"} /\ j.task \in Task
                        /\ j.cmd = "assign" => j.from \in Place
                        /\ j.old # Removed
  /\ l \in {"folder", "document"} => j.cmd = "create"
  /\ l = "save" => j.cmd \in {"create", "update", "force", "reconcile"}
  /\ l \in {"compare", "drift", "heal"} => j.cmd = "reconcile"

Records == [status : Work, sprint : Sprint \cup {NoSprint}, dir : Dirs]

ControlOK == /\ pc \in [Proc -> Label]
             /\ job \in [Proc -> Job]
             /\ \A p \in Proc : JobOK(pc[p], job[p])
             /\ menu \in Menus
             /\ faults \in Nat
FoldersOK == /\ folders \in [Sprint -> SUBSET Place]
             /\ inner \in [Sprint -> SUBSET Place]
             /\ docs \in [Sprint -> [Place -> Docs]]
TasksOK == /\ sprints \in [Sprint -> Rows]
           /\ tasks \in [Task -> Records]
           /\ files \in [Task -> Records]
           /\ backlog \subseteq Task
           /\ focus \in Sprint \cup {NoSprint}

TypeInv == ControlOK /\ FoldersOK /\ TasksOK

LEMMA TypeInvImpliesTypeOK == TypeInv => TypeOK
  BY DEF TypeInv, ControlOK, FoldersOK, TasksOK, Records, TypeOK

LEMMA DirsType ==
  /\ Unassigned \in Dirs /\ Removed \in Dirs
  /\ \A l \in Place, s \in Sprint : Folder(l, s) \in Dirs
  BY DEF Unassigned, Removed, Folder, Dirs

LEMMA NoJobType == NoJob \in Job /\ JobOK("idle", NoJob) /\ NoJob.row \in Rows
<1>1. NoJob \in Job
  BY DirsType DEF NoJob, Job, AllCommands, Rows, Status
<1>2. NoJob.row \in Rows
  BY DEF NoJob, Rows
<1> QED
  BY <1>1, <1>2 DEF JobOK, OnTheMove, Assigning

\* Every way a step ends goes through Continue.
LEMMA ContinueOK ==
  ASSUME ControlOK, NEW p \in Proc, NEW l \in Label, NEW j, Continue(p, l, j),
         l # "idle" => JobOK(l, j), faults' \in Nat
  PROVE  ControlOK'
<1>1. pc' \in [Proc -> Label] /\ menu' \in Menus
  BY DEF ControlOK, Continue
<1>2. PICK k \in Job : job' = [job EXCEPT ![p] = k] /\ JobOK(l, k)
  BY NoJobType DEF Continue, JobOK
<1>3. job' \in [Proc -> Job]
  BY <1>2 DEF ControlOK
<1>4. ASSUME NEW q \in Proc PROVE JobOK(pc'[q], job'[q])
  <2>1. CASE q = p
    <3>1. pc'[q] = l /\ job'[q] = k
      BY <1>2, <2>1 DEF ControlOK, Continue
    <3> QED
      BY <1>2, <3>1
  <2>2. CASE q # p
    <3>1. pc'[q] = pc[q] /\ job'[q] = job[q]
      BY <1>2, <2>2 DEF ControlOK, Continue
    <3> QED
      BY <3>1 DEF ControlOK
  <2> QED
    BY <2>1, <2>2
<1>5. \A q \in Proc : JobOK(pc[q], job[q])'
  BY <1>4 DEF JobOK
<1> QED
  BY <1>1, <1>3, <1>5 DEF ControlOK

LEMMA FaultsOK ==
  ASSUME ControlOK, Fault \/ Works
  PROVE  faults' \in Nat
  BY DEF ControlOK, Fault, Works

LEMMA ReturnOK ==
  ASSUME ControlOK, NEW p \in Proc, Return(p), faults' \in Nat
  PROVE  ControlOK'
  BY ContinueOK DEF Return, Goto, Label

LEMMA GotoOK ==
  ASSUME ControlOK, NEW p \in Proc, NEW l \in Label, Goto(p, l), faults' \in Nat,
         l # "idle" => JobOK(l, job[p])
  PROVE  ControlOK'
  BY ContinueOK DEF Goto

LEMMA JobInHand ==
  ASSUME ControlOK, NEW p \in Proc
  PROVE  JobOK(pc[p], job[p]) /\ job[p] \in Job
  BY DEF ControlOK

\* The updates of what a command has in hand.
LEMMA JobTodo ==
  ASSUME NEW l, NEW j, JobOK(l, j), NEW T \in SUBSET [task : Task, dir : Dirs]
  PROVE  JobOK(l, [j EXCEPT !.todo = T])
  BY DEF JobOK, Job

LEMMA JobIssue ==
  ASSUME NEW p \in Proc, NEW cmd \in AllCommands, NEW s \in Sprint, NEW t \in Task \cup {NoTask}
  PROVE  /\ Issue(p, cmd, s, t) \in Job
         /\ Issue(p, cmd, s, t).cmd = cmd /\ Issue(p, cmd, s, t).sprint = s
         /\ Issue(p, cmd, s, t).task = t /\ Issue(p, cmd, s, t).old = Unassigned
  BY NoJobType DEF Issue, Job, NoJob

LEMMA JobMoving ==
  ASSUME NEW p \in Proc, NEW cmd \in Movers, NEW s \in Sprint, NEW to \in Place, TasksOK,
         sprints[s].status # "none", NEW l \in {"collect", "move", "db-only"}
  PROVE  JobOK(l, Moving(p, cmd, s, to))
<1>1. sprints[s].status \in Place
  BY DEF TasksOK, Rows, Status
<1>2. cmd \in AllCommands
  BY DEF Movers, AllCommands
<1>3. PICK j \in Job : j = Issue(p, cmd, s, NoTask) /\ j.cmd = cmd /\ j.sprint = s
  BY <1>2, JobIssue
<1>4. /\ Moving(p, cmd, s, to) \in Job
      /\ Moving(p, cmd, s, to).cmd = cmd /\ Moving(p, cmd, s, to).sprint = s
      /\ Moving(p, cmd, s, to).from \in Place /\ Moving(p, cmd, s, to).to = to
  BY <1>1, <1>3 DEF Job, Moving
<1> QED
  BY <1>4 DEF JobOK, OnTheMove, Assigning

LEMMA CreateType ==
  ASSUME TypeInv, NEW p \in Proc,
         \/ \E s \in Sprint : BeginCreate(p, s)
         \/ CreateFolder(p) \/ WriteDocument(p) \/ SaveToDB(p)
  PROVE  TypeInv'
<1>1. CASE \E s \in Sprint : BeginCreate(p, s)
  <2>1. PICK s \in Sprint : BeginCreate(p, s)
    BY <1>1
  <2>2. JobOK("folder", Issue(p, "create", s, NoTask))
    BY JobIssue DEF AllCommands, JobOK, OnTheMove, Assigning
  <2>3. ControlOK'
    BY <2>1, <2>2, ContinueOK DEF BeginCreate, TypeInv, ControlOK, Label
  <2> QED
    BY <2>1, <2>3 DEF BeginCreate, TypeInv, FoldersOK, TasksOK, database, disk
<1>2. CASE CreateFolder(p)
  <2>0. JobOK("folder", job[p])
    BY <1>2, JobInHand DEF CreateFolder, TypeInv
  <2>1. JobOK("document", job[p])
    BY <2>0 DEF JobOK, OnTheMove, Assigning
  <2>2. ControlOK'
    BY <1>2, <2>1, GotoOK, ReturnOK, FaultsOK DEF CreateFolder, TypeInv, Label
  <2>3. FoldersOK'
    BY <1>2, <2>0 DEF CreateFolder, TypeInv, FoldersOK, Place
  <2> QED
    BY <1>2, <2>2, <2>3 DEF CreateFolder, TypeInv, TasksOK, database
<1>3. CASE WriteDocument(p)
  <2>0. JobOK("document", job[p])
    BY <1>3, JobInHand DEF WriteDocument, TypeInv
  <2>1. JobOK("save", job[p])
    BY <2>0 DEF JobOK, OnTheMove, Assigning
  <2>2. faults' \in Nat
    BY <1>3, FaultsOK DEF WriteDocument, TypeInv
  <2>3. ControlOK'
    BY <1>3, <2>1, <2>2, GotoOK, ReturnOK DEF WriteDocument, TypeInv, Label
  <2>4. NewDoc \in Docs
    BY DEF NewDoc, Docs, Place
  <2>5. FoldersOK'
    BY <1>3, <2>0, <2>4 DEF WriteDocument, TypeInv, FoldersOK, Place
  <2> QED
    BY <1>3, <2>3, <2>5 DEF WriteDocument, TypeInv, TasksOK, database
<1>4. CASE SaveToDB(p)
  <2>0. JobOK("save", job[p])
    BY <1>4, JobInHand DEF SaveToDB, TypeInv
  <2>1. faults' \in Nat
    BY <1>4, FaultsOK DEF SaveToDB, TypeInv
  <2>2. ControlOK'
    BY <1>4, <2>1, ReturnOK DEF SaveToDB, TypeInv
  <2>3. NewRow \in Rows /\ job[p].row \in Rows
    BY <2>0 DEF NewRow, Rows, Status, Place, JobOK, Job
  <2>4. sprints' \in [Sprint -> Rows]
    BY <1>4, <2>0, <2>3 DEF SaveToDB, TypeInv, TasksOK
  <2> QED
    BY <1>4, <2>2, <2>4 DEF SaveToDB, TypeInv, TasksOK, FoldersOK, disk
<1> QED
  BY <1>1, <1>2, <1>3, <1>4

LEMMA BeginMoveType ==
  ASSUME TypeInv, NEW p \in Proc,
         \E s \in Sprint : \/ BeginStart(p, s) \/ BeginComplete(p, s)
                           \/ \E cmd \in {"discard", "return", "db-only"} :
                                 BeginDiscard(p, s, cmd)
  PROVE  TypeInv'
<1>1. PICK s \in Sprint : \/ BeginStart(p, s) \/ BeginComplete(p, s)
                          \/ \E cmd \in {"discard", "return", "db-only"} :
                                BeginDiscard(p, s, cmd)
  OBVIOUS
<1>2. UNCHANGED <<database, disk, faults>>
  BY <1>1 DEF BeginStart, BeginComplete, BeginDiscard
<1>3. ControlOK'
  <2> USE DEF OnTheMove, Movers, Place, Label
  <2>0. faults' \in Nat
    BY <1>2 DEF TypeInv, ControlOK
  <2>1. CASE BeginStart(p, s)
    <3>1. JobOK("move", Moving(p, "start", s, "active"))
      BY <2>1, JobMoving DEF BeginStart, TypeInv
    <3> QED
      BY <2>0, <2>1, <3>1, ContinueOK DEF BeginStart, TypeInv
  <2>2. CASE BeginComplete(p, s)
    <3>1. JobOK("collect", Moving(p, "complete", s, "completed"))
      BY <2>2, JobMoving DEF BeginComplete, TypeInv
    <3> QED
      BY <2>0, <2>2, <3>1, ContinueOK DEF BeginComplete, TypeInv
  <2>3. ASSUME NEW cmd \in {"discard", "return", "db-only"}, BeginDiscard(p, s, cmd)
        PROVE  ControlOK'
    <3>1. \A l \in {"collect", "db-only", "move"} :
             JobOK(l, Moving(p, cmd, s, "discarded"))
      BY <2>3, JobMoving DEF BeginDiscard, TypeInv
    <3>2. \E l \in {"collect", "db-only", "move"} :
             Continue(p, l, Moving(p, cmd, s, "discarded"))
      BY <2>3 DEF BeginDiscard
    <3> QED
      BY <2>0, <3>1, <3>2, ContinueOK DEF TypeInv
  <2> QED
    BY <1>1, <2>1, <2>2, <2>3
<1> QED
  BY <1>2, <1>3 DEF TypeInv, FoldersOK, TasksOK, database, disk

Onward == OnTheMove \ {"bind-sprint", "bind-path"}

LEMMA MoveOn ==
  ASSUME NEW l \in OnTheMove, NEW m \in Onward, NEW j, JobOK(l, j)
  PROVE  JobOK(m, j)
  BY DEF JobOK, Onward, OnTheMove, Assigning

LEMMA AssignOn ==
  ASSUME NEW l \in Assigning, NEW m \in Assigning, NEW j, JobOK(l, j)
  PROVE  JobOK(m, j)
  BY DEF JobOK, OnTheMove, Assigning

LEMMA RestType ==
  ASSUME ControlOK, NEW p \in Proc, NEW e
  PROVE  Rest(p, e) = [job[p] EXCEPT !.todo = @ \ {e}]
         /\ Rest(p, e) \in Job /\ JobOK(pc[p], Rest(p, e))
<1>1. JobOK(pc[p], job[p]) /\ job[p] \in Job
  BY JobInHand
<1>2. job[p].todo \ {e} \in SUBSET [task : Task, dir : Dirs]
  BY <1>1 DEF Job
<1>3. Rest(p, e) = [job[p] EXCEPT !.todo = job[p].todo \ {e}]
  BY DEF Rest
<1>4. JobOK(pc[p], [job[p] EXCEPT !.todo = job[p].todo \ {e}])
  BY <1>1, <1>2, JobTodo
<1> QED
  BY <1>3, <1>4 DEF Rest, JobOK

LEMMA EntryType ==
  ASSUME TasksOK, NEW t \in Task
  PROVE  Entry(t) \in [task : Task, dir : Dirs] /\ Entry(t).task = t
  BY DEF Entry, TasksOK, Records

LEMMA RecordUpdates ==
  ASSUME NEW f \in Records
  PROVE  /\ \A st \in Work : [f EXCEPT !.status = st] \in Records
         /\ \A s \in Sprint \cup {NoSprint} : [f EXCEPT !.sprint = s] \in Records
         /\ \A d \in Dirs : [f EXCEPT !.dir = d] \in Records
  BY DEF Records

\* A file or row whose directory goes elsewhere with the folder it is in.
LEMMA RecordMoved ==
  ASSUME NEW f \in Records, NEW l \in Place, NEW deep \in BOOLEAN
  PROVE  /\ [f EXCEPT !.dir.place = l, !.dir.deep = @ \/ deep] \in Records
         /\ [f EXCEPT !.dir.place = l] \in Records
<1>1. f.dir \in Dirs
  BY DEF Records
<1>2. /\ [f.dir EXCEPT !.place = l] \in Dirs
      /\ [f.dir EXCEPT !.place = l, !.deep = @ \/ deep] \in Dirs
  BY <1>1 DEF Dirs
<1>3. /\ [f EXCEPT !.dir = [f.dir EXCEPT !.place = l]] \in Records
      /\ [f EXCEPT !.dir = [f.dir EXCEPT !.place = l, !.deep = @ \/ deep]] \in Records
  BY <1>2, RecordUpdates
<1>4. [f EXCEPT !.dir.place = l] = [f EXCEPT !.dir = [f.dir EXCEPT !.place = l]]
  BY DEF Records
<1>5. [f EXCEPT !.dir.place = l, !.dir.deep = @ \/ deep]
        = [f EXCEPT !.dir = [f.dir EXCEPT !.place = l, !.deep = @ \/ deep]]
  BY DEF Records
<1> QED
  BY <1>3, <1>4, <1>5

LEMMA CarryType ==
  ASSUME TasksOK, NEW s, NEW from, NEW to \in Place
  PROVE  /\ Carry(s, from, to, TRUE) \in [Task -> Records]
         /\ Carry(s, from, to, FALSE) \in [Task -> Records]
<1>1. ASSUME NEW deep \in BOOLEAN
      PROVE  Carry(s, from, to, deep) \in [Task -> Records]
  <2>1. ASSUME NEW t \in Task
        PROVE  /\ files[t] \in Records
               /\ [files[t] EXCEPT !.dir.place = to, !.dir.deep = @ \/ deep] \in Records
    BY RecordMoved DEF TasksOK
  <2> QED
    BY <2>1 DEF Carry
<1> QED
  BY <1>1

LEMMA WriteType ==
  ASSUME TasksOK, NEW t \in Task
  PROVE  /\ \A st \in Work : /\ [files EXCEPT ![t].status = st] \in [Task -> Records]
                             /\ [tasks EXCEPT ![t].status = st] \in [Task -> Records]
         /\ \A s \in Sprint \cup {NoSprint} :
               /\ [files EXCEPT ![t].sprint = s] \in [Task -> Records]
               /\ [tasks EXCEPT ![t].sprint = s] \in [Task -> Records]
         /\ \A d \in Dirs : /\ [files EXCEPT ![t].dir = d] \in [Task -> Records]
                            /\ [tasks EXCEPT ![t].dir = d] \in [Task -> Records]
  BY RecordUpdates DEF TasksOK

LEMMA CollectType ==
  ASSUME TypeInv, NEW p \in Proc, Collect(p) \/ WriteFrontmatter(p) \/ ReturnTask(p)
  PROVE  TypeInv'
<1>0. /\ ControlOK /\ TasksOK /\ faults' \in Nat
      /\ JobOK(pc[p], job[p]) /\ job[p] \in Job
      /\ \A e \in job[p].todo : e.task \in Task
  <2>1. ControlOK /\ TasksOK /\ faults' \in Nat
    BY FaultsOK DEF TypeInv, Collect, WriteFrontmatter, ReturnTask
  <2> QED
    BY <2>1, JobInHand DEF Job
<1>1. CASE Collect(p)
  <2>0. pc[p] = "collect" /\ JobOK("collect", job[p])
    BY <1>0, <1>1 DEF Collect
  <2> DEFINE T == {Entry(t) : t \in Visits(job[p].cmd, job[p].sprint)}
             j == [job[p] EXCEPT !.todo = T]
  <2>1. T \in SUBSET [task : Task, dir : Dirs]
    BY <1>0, EntryType DEF Visits
  <2>2. JobOK("collect", j)
    BY <2>0, <2>1, JobTodo
  <2>3. /\ JobOK("return", j) /\ JobOK("frontmatter", j)
        /\ JobOK("move", job[p])
    BY <2>0, <2>2, MoveOn DEF OnTheMove, Onward
  <2>4. \/ Continue(p, "return", j) \/ Continue(p, "frontmatter", j)
        \/ Return(p) \/ Goto(p, "move")
    BY <1>1 DEF Collect
  <2>5. ControlOK'
    BY <1>0, <2>3, <2>4, ContinueOK, ReturnOK, GotoOK DEF Label
  <2> QED
    BY <1>1, <2>5 DEF Collect, TypeInv, FoldersOK, TasksOK, database, disk
<1>2. CASE WriteFrontmatter(p)
  <2>0. pc[p] = "frontmatter" /\ JobOK("frontmatter", job[p])
    BY <1>0, <1>2 DEF WriteFrontmatter
  <2>1. JobOK("move", job[p])
    BY <2>0, MoveOn DEF OnTheMove, Onward
  <2>2. \/ Goto(p, "move")
        \/ \E e \in job[p].todo : Continue(p, "frontmatter", Rest(p, e))
    BY <1>2 DEF WriteFrontmatter
  <2>3. ControlOK'
    BY <1>0, <2>0, <2>1, <2>2, RestType, ContinueOK, GotoOK DEF Label
  <2>4. files' \in [Task -> Records]
    <3>1. files' = files \/ \E e \in job[p].todo : files' = [files EXCEPT ![e.task].status = "done"]
      BY <1>2 DEF WriteFrontmatter
    <3>2. \A t \in Task : [files EXCEPT ![t].status = "done"] \in [Task -> Records]
      BY <1>0, WriteType DEF Work
    <3>3. ASSUME NEW e \in job[p].todo, files' = [files EXCEPT ![e.task].status = "done"]
          PROVE  files' \in [Task -> Records]
      <4>1. e.task \in Task
        BY <1>0
      <4> QED
        BY <3>2, <3>3, <4>1, Zenon
    <3>4. files \in [Task -> Records]
      BY <1>0 DEF TasksOK
    <3> QED
      BY <3>1, <3>3, <3>4, Zenon
  <2> QED
    BY <1>2, <2>3, <2>4 DEF WriteFrontmatter, TypeInv, FoldersOK, TasksOK, database
<1>3. CASE ReturnTask(p)
  <2>0. pc[p] = "return" /\ JobOK("return", job[p])
    BY <1>0, <1>3 DEF ReturnTask
  <2>1. JobOK("move", job[p])
    BY <2>0, MoveOn DEF OnTheMove, Onward
  <2>2. \/ Goto(p, "move")
        \/ \E e \in job[p].todo : Continue(p, "return", Rest(p, e))
    BY <1>3 DEF ReturnTask
  <2>3. ControlOK'
    BY <1>0, <2>0, <2>1, <2>2, RestType, ContinueOK, GotoOK DEF Label
  <2>4. tasks' \in [Task -> Records]
    <3>1. \/ tasks' = tasks
          \/ \E e \in job[p].todo : tasks' = [tasks EXCEPT ![e.task].sprint = NoSprint]
      BY <1>3 DEF ReturnTask
    <3>2. \A t \in Task : [tasks EXCEPT ![t].sprint = NoSprint] \in [Task -> Records]
      BY <1>0, WriteType DEF Work
    <3>3. ASSUME NEW e \in job[p].todo, tasks' = [tasks EXCEPT ![e.task].sprint = NoSprint]
          PROVE  tasks' \in [Task -> Records]
      <4>1. e.task \in Task
        BY <1>0
      <4> QED
        BY <3>2, <3>3, <4>1, Zenon
    <3>4. tasks \in [Task -> Records]
      BY <1>0 DEF TasksOK
    <3> QED
      BY <3>1, <3>3, <3>4, Zenon
  <2> QED
    BY <1>3, <2>3, <2>4 DEF ReturnTask, TypeInv, FoldersOK, TasksOK, disk
<1> QED
  BY <1>1, <1>2, <1>3

LEMMA TreeType ==
  ASSUME FoldersOK, TasksOK, NEW s \in Sprint, NEW from \in Place, NEW to \in Place,
         MoveTree(s, from, to) \/ NestTree(s, from, to)
  PROVE  FoldersOK' /\ files' \in [Task -> Records]
<1>1. files' \in [Task -> Records]
  <2>1. files' = Carry(s, from, to, FALSE) \/ files' = Carry(s, from, to, TRUE)
    BY DEF MoveTree, NestTree
  <2> QED
    BY <2>1, CarryType, Zenon
<1>2. folders' \in [Sprint -> SUBSET Place]
  <2>1. \E F \in SUBSET Place : folders' = [folders EXCEPT ![s] = F]
    <3>1. folders[s] \in SUBSET Place
      BY DEF FoldersOK
    <3>2. CASE MoveTree(s, from, to)
      <4>1. folders' = [folders EXCEPT ![s] = (folders[s] \ {from}) \cup {to}]
        BY <3>2 DEF MoveTree
      <4> QED
        BY <3>1, <4>1
    <3>3. CASE NestTree(s, from, to)
      <4>1. folders' = [folders EXCEPT ![s] = folders[s] \ {from}]
        BY <3>3 DEF NestTree
      <4> QED
        BY <3>1, <4>1
    <3> QED
      BY <3>2, <3>3
  <2> QED
    BY <2>1 DEF FoldersOK
<1>5. inner' \in [Sprint -> SUBSET Place]
  <2>1. \E I \in SUBSET Place : inner' = [inner EXCEPT ![s] = I]
    BY DEF MoveTree, NestTree, FoldersOK
  <2> QED
    BY <2>1 DEF FoldersOK
<1>3. NoDoc \in Docs
  BY DEF NoDoc, Docs
<1>4. docs' \in [Sprint -> [Place -> Docs]]
  <2>1. CASE MoveTree(s, from, to)
    <3>1. [docs[s] EXCEPT ![to] = docs[s][from], ![from] = NoDoc] \in [Place -> Docs]
      BY <1>3 DEF FoldersOK
    <3>2. docs' = [docs EXCEPT ![s] = [docs[s] EXCEPT ![to] = docs[s][from], ![from] = NoDoc]]
      BY <2>1 DEF MoveTree
    <3> QED
      BY <3>1, <3>2 DEF FoldersOK
  <2>2. CASE NestTree(s, from, to)
    BY <1>3, <2>2 DEF NestTree, FoldersOK
  <2> QED
    BY <2>1, <2>2
<1> QED
  BY <1>1, <1>2, <1>4, <1>5 DEF FoldersOK

LEMMA StampType ==
  ASSUME FoldersOK, NEW s \in Sprint, NEW l \in Place
  PROVE  [docs EXCEPT ![s][l].status = l] \in [Sprint -> [Place -> Docs]]
<1>1. docs \in [Sprint -> [Place -> Docs]] /\ docs[s][l] \in Docs
  BY DEF FoldersOK
<1>2. [docs[s][l] EXCEPT !.status = l] \in Docs
  BY <1>1 DEF Docs
<1>3. [docs[s] EXCEPT ![l].status = l] \in [Place -> Docs]
  BY <1>1, <1>2
<1> QED
  BY <1>1, <1>3

LEMMA MoveType ==
  ASSUME TypeInv, NEW p \in Proc, MoveSprint(p) \/ Sweep(p) \/ Stamp(p)
  PROVE  TypeInv'
<1>0. /\ ControlOK /\ FoldersOK /\ TasksOK /\ faults' \in Nat
      /\ JobOK(pc[p], job[p]) /\ job[p] \in Job
  <2>1. ControlOK /\ FoldersOK /\ TasksOK /\ faults' \in Nat
    BY FaultsOK DEF TypeInv, MoveSprint, Sweep, Stamp
  <2> QED
    BY <2>1, JobInHand
<1>1. pc[p] \in {"move", "sweep", "stamp"}
  BY DEF MoveSprint, Sweep, Stamp
<1>2. /\ job[p].sprint \in Sprint /\ job[p].from \in Place /\ job[p].to \in Place
      /\ \A m \in Onward : JobOK(m, job[p])
  BY <1>0, <1>1, MoveOn DEF OnTheMove, JobOK
<1>3. ControlOK'
  <2>1. Return(p) \/ \E m \in {"sweep", "stamp", "record"} : Goto(p, m)
    BY DEF MoveSprint, Sweep, Stamp
  <2> QED
    BY <1>0, <1>2, <2>1, ReturnOK, GotoOK DEF Label, Onward, OnTheMove
<1>4. FoldersOK' /\ files' \in [Task -> Records]
  <2>1. CASE MoveSprint(p)
    <3>1. \/ MoveTree(job[p].sprint, job[p].from, job[p].to)
          \/ NestTree(job[p].sprint, job[p].from, job[p].to)
          \/ UNCHANGED <<folders, inner, docs, files>>
      BY <2>1 DEF MoveSprint
    <3> QED
      BY <1>0, <1>2, <3>1, TreeType DEF FoldersOK, TasksOK
  <2>2. CASE Sweep(p)
    <3>1. NoDoc \in Docs
      BY DEF NoDoc, Docs
    <3>2. FoldersOK'
      BY <1>0, <1>2, <2>2, <3>1 DEF Sweep, FoldersOK
    <3>3. \A t \in Task : [files[t] EXCEPT !.dir = Removed] \in Records /\ files[t] \in Records
      BY <1>0, DirsType, RecordUpdates DEF TasksOK
    <3> QED
      BY <2>2, <3>2, <3>3 DEF Sweep
  <2>3. CASE Stamp(p)
    <3>1. docs' = docs \/ docs' = [docs EXCEPT ![job[p].sprint][job[p].to].status = job[p].to]
      BY <2>3 DEF Stamp
    <3>2. [docs EXCEPT ![job[p].sprint][job[p].to].status = job[p].to]
            \in [Sprint -> [Place -> Docs]]
      BY <1>0, <1>2, StampType, Zenon
    <3>3. docs' \in [Sprint -> [Place -> Docs]]
      <4>1. docs \in [Sprint -> [Place -> Docs]]
        BY <1>0 DEF FoldersOK
      <4> QED
        BY <3>1, <3>2, <4>1, Zenon
    <3> QED
      BY <1>0, <2>3, <3>3 DEF Stamp, FoldersOK, TasksOK
  <2> QED
    BY <2>1, <2>2, <2>3
<1> QED
  BY <1>0, <1>3, <1>4 DEF MoveSprint, Sweep, Stamp, TypeInv, TasksOK, database

\* A row or file of one Task written, whichever loop does it.
LEMMA RowWritten ==
  ASSUME TasksOK, NEW t \in Task, NEW s \in Sprint \cup {NoSprint}, NEW d \in Dirs,
         NEW st \in Work,
         \/ UNCHANGED tasks \/ tasks' = [tasks EXCEPT ![t].sprint = s]
         \/ tasks' = [tasks EXCEPT ![t].dir = d]
         \/ tasks' = [tasks EXCEPT ![t].status = st]
  PROVE  tasks' \in [Task -> Records]
<1>1. /\ [tasks EXCEPT ![t].sprint = s] \in [Task -> Records]
      /\ [tasks EXCEPT ![t].dir = d] \in [Task -> Records]
      /\ [tasks EXCEPT ![t].status = st] \in [Task -> Records]
  BY WriteType, Zenon
<1>2. tasks \in [Task -> Records]
  BY DEF TasksOK
<1> QED
  BY <1>1, <1>2, Zenon

LEMMA FileWritten ==
  ASSUME TasksOK, NEW t \in Task, NEW s \in Sprint \cup {NoSprint}, NEW d \in Dirs,
         \/ UNCHANGED files \/ files' = [files EXCEPT ![t].sprint = s]
         \/ files' = [files EXCEPT ![t].dir = d]
  PROVE  files' \in [Task -> Records]
<1>1. /\ [files EXCEPT ![t].sprint = s] \in [Task -> Records]
      /\ [files EXCEPT ![t].dir = d] \in [Task -> Records]
  BY WriteType, Zenon
<1>2. files \in [Task -> Records]
  BY DEF TasksOK
<1> QED
  BY <1>1, <1>2, Zenon

LEMMA RecordType ==
  ASSUME TypeInv, NEW p \in Proc, \/ Record(p) \/ UpdateTaskPathsForSprint(p)
                                  \/ ListFiles(p) \/ UpdateCurrentFocus(p)
  PROVE  TypeInv'
<1>0. /\ ControlOK /\ TasksOK /\ faults' \in Nat
      /\ JobOK(pc[p], job[p]) /\ job[p] \in Job
  <2>1. ControlOK /\ TasksOK /\ faults' \in Nat
    BY FaultsOK DEF TypeInv, Record, UpdateTaskPathsForSprint, ListFiles, UpdateCurrentFocus
  <2> QED
    BY <2>1, JobInHand
<1>1. pc[p] \in {"record", "db-only", "paths", "list", "focus"}
  BY DEF Record, UpdateTaskPathsForSprint, ListFiles, UpdateCurrentFocus
<1>2. /\ job[p].sprint \in Sprint /\ job[p].from \in Place /\ job[p].to \in Place
      /\ \A m \in Onward : JobOK(m, job[p])
  BY <1>0, <1>1, MoveOn DEF OnTheMove, JobOK
<1>3. CASE Record(p)
  <2>1. Return(p) \/ \E m \in {"paths", "focus"} : Goto(p, m)
    BY <1>3 DEF Record, Return
  <2>2. ControlOK'
    BY <1>0, <1>2, <2>1, ReturnOK, GotoOK DEF Label, Onward, OnTheMove
  <2>3. sprints' \in [Sprint -> Rows]
    <3>1. sprints[job[p].sprint] \in Rows
      BY <1>0, <1>2 DEF TasksOK
    <3>2. \A f \in Place \cup {"none"} : [status |-> job[p].to, folder |-> f] \in Rows
      BY <1>2 DEF Rows, Status
    <3>3. \E r \in Rows : sprints' = [sprints EXCEPT ![job[p].sprint] = r] \/ sprints' = sprints
      BY <1>2, <1>3, <3>1, <3>2 DEF Record, Rows
    <3> QED
      BY <1>0, <3>3 DEF TasksOK
  <2> QED
    BY <1>3, <2>2, <2>3 DEF Record, TypeInv, FoldersOK, TasksOK, disk
<1>4. CASE UpdateTaskPathsForSprint(p)
  <2>1. ControlOK'
    BY <1>0, <1>2, <1>4, GotoOK DEF UpdateTaskPathsForSprint, Label, Onward, OnTheMove
  <2>2. tasks' \in [Task -> Records]
    <3>1. \A t \in Task : tasks[t] \in Records
                          /\ [tasks[t] EXCEPT !.dir.place = job[p].to] \in Records
      BY <1>0, <1>2, RecordMoved DEF TasksOK
    <3> QED
      BY <1>0, <1>4, <3>1 DEF UpdateTaskPathsForSprint, TasksOK
  <2> QED
    BY <1>4, <2>1, <2>2 DEF UpdateTaskPathsForSprint, TypeInv, FoldersOK, TasksOK, disk
<1>5. CASE ListFiles(p)
  <2> DEFINE d == Folder(job[p].to, job[p].sprint)
             T == {[task |-> t, dir |-> d] : t \in {u \in Task : files[u].dir = d}}
  <2>1. T \in SUBSET [task : Task, dir : Dirs]
    BY <1>2, DirsType
  <2>2. JobOK("bind", job[p])
    BY <1>2 DEF Onward, OnTheMove
  <2>3. JobOK("bind", [job[p] EXCEPT !.todo = T])
    BY <2>1, <2>2, JobTodo
  <2>4. ControlOK'
    BY <1>0, <1>5, <2>3, ContinueOK DEF ListFiles, Label
  <2> QED
    BY <1>5, <2>4 DEF ListFiles, TypeInv, FoldersOK, TasksOK, disk, database
<1>6. CASE UpdateCurrentFocus(p)
  <2>1. ControlOK'
    BY <1>0, <1>6, ReturnOK DEF UpdateCurrentFocus
  <2> QED
    BY <1>0, <1>2, <1>6, <2>1 DEF UpdateCurrentFocus, TypeInv, FoldersOK, TasksOK, database
<1> QED
  BY <1>3, <1>4, <1>5, <1>6

LEMMA BindType ==
  ASSUME TypeInv, NEW p \in Proc, Bind(p) \/ BindSprint(p) \/ BindPath(p)
  PROVE  TypeInv'
<1>0. /\ ControlOK /\ TasksOK /\ faults' \in Nat
      /\ JobOK(pc[p], job[p]) /\ job[p] \in Job
  <2>1. ControlOK /\ TasksOK /\ faults' \in Nat
    BY FaultsOK DEF TypeInv, Bind, BindSprint, BindPath
  <2> QED
    BY <2>1, JobInHand
<1>1. pc[p] \in {"bind", "bind-sprint", "bind-path"}
  BY DEF Bind, BindSprint, BindPath
<1>2. /\ job[p].sprint \in Sprint /\ job[p].from \in Place /\ job[p].to \in Place
      /\ \A m \in Onward : JobOK(m, job[p])
  BY <1>0, <1>1, MoveOn DEF OnTheMove, JobOK
<1>3. CASE Bind(p)
  <2>1. \/ \E m \in {"sync", "focus", "idle"} : Goto(p, m)
        \/ \E e \in job[p].todo : \/ Continue(p, "bind-sprint", [Rest(p, e) EXCEPT !.task = e.task])
                                  \/ Continue(p, "bind", Rest(p, e))
    BY <1>3 DEF Bind
  <2>2. (\E m \in {"sync", "focus", "idle"} : Goto(p, m)) => ControlOK'
    BY <1>0, <1>2, GotoOK DEF Label, Onward, OnTheMove
  <2>3. ASSUME NEW e \in job[p].todo
        PROVE  /\ JobOK("bind", Rest(p, e))
               /\ JobOK("bind-sprint", [Rest(p, e) EXCEPT !.task = e.task])
    <3>1. JobOK("bind", Rest(p, e)) /\ Rest(p, e) \in Job
      BY <1>0, <1>3, RestType DEF Bind
    <3>2. e.task \in Task
      BY <1>0 DEF Job
    <3>3. PICK j \in Job : j = Rest(p, e)
      BY <3>1
    <3>4. JobOK("bind-sprint", [j EXCEPT !.task = e.task])
      BY <3>1, <3>2, <3>3 DEF JobOK, Job, OnTheMove, Assigning
    <3> QED
      BY <3>1, <3>3, <3>4
  <2>4. ControlOK'
    BY <1>0, <2>1, <2>2, <2>3, ContinueOK DEF Label
  <2> QED
    BY <1>3, <2>4 DEF Bind, TypeInv, FoldersOK, TasksOK, disk, database
<1>4. CASE BindSprint(p) \/ BindPath(p)
  <2>1. job[p].task \in Task /\ JobOK("bind-path", job[p]) /\ JobOK("bind", job[p])
    BY <1>0, <1>2, <1>4
    DEF BindSprint, BindPath, JobOK, Onward, OnTheMove, Assigning
  <2>2. ControlOK'
    BY <1>0, <1>4, <2>1, GotoOK DEF BindSprint, BindPath, Label
  <2>3. tasks' \in [Task -> Records]
    <3>1. \/ tasks' = tasks \/ tasks' = [tasks EXCEPT ![job[p].task].sprint = job[p].sprint]
          \/ tasks' = [tasks EXCEPT ![job[p].task].dir = Folder(job[p].to, job[p].sprint)]
      BY <1>4 DEF BindSprint, BindPath
    <3>2. /\ job[p].sprint \in Sprint \cup {NoSprint}
          /\ Folder(job[p].to, job[p].sprint) \in Dirs
          /\ "done" \in Work
      BY <1>2, DirsType DEF Work
    <3> QED
      BY <1>0, <2>1, <3>1, <3>2, RowWritten, Zenon
  <2> QED
    BY <1>4, <2>2, <2>3 DEF BindSprint, BindPath, TypeInv, FoldersOK, TasksOK, disk
<1> QED
  BY <1>3, <1>4

LEMMA SyncType ==
  ASSUME TypeInv, NEW p \in Proc, ListForSync(p) \/ ForceStatus(p)
  PROVE  TypeInv'
<1>0. /\ ControlOK /\ TasksOK /\ faults' \in Nat
      /\ JobOK(pc[p], job[p]) /\ job[p] \in Job
      /\ \A e \in job[p].todo : e.task \in Task
  <2>1. ControlOK /\ TasksOK /\ faults' \in Nat
    BY FaultsOK DEF TypeInv, ListForSync, ForceStatus
  <2> QED
    BY <2>1, JobInHand DEF Job
<1>1. pc[p] \in {"sync", "force"}
  BY DEF ListForSync, ForceStatus
<1>2. \A m \in Onward : JobOK(m, job[p])
  BY <1>0, <1>1, MoveOn DEF OnTheMove
<1>3. CASE ListForSync(p)
  <2> DEFINE T == {Entry(t) : t \in Visits("complete", job[p].sprint)}
  <2>1. T \in SUBSET [task : Task, dir : Dirs]
    BY <1>0, EntryType DEF Visits
  <2>2. JobOK("force", [job[p] EXCEPT !.todo = T]) /\ JobOK("focus", job[p])
    BY <1>2, <2>1, JobTodo DEF Onward, OnTheMove
  <2>3. ControlOK'
    BY <1>0, <1>3, <2>2, ContinueOK, GotoOK DEF ListForSync, Label
  <2> QED
    BY <1>3, <2>3 DEF ListForSync, TypeInv, FoldersOK, TasksOK, disk, database
<1>4. CASE ForceStatus(p)
  <2>1. JobOK("focus", job[p])
    BY <1>2 DEF Onward, OnTheMove
  <2>2. pc[p] = "force" /\ (\/ Goto(p, "focus")
                            \/ \E e \in job[p].todo : Continue(p, "force", Rest(p, e)))
    BY <1>4 DEF ForceStatus
  <2>3. ControlOK'
    BY <1>0, <2>1, <2>2, RestType, ContinueOK, GotoOK DEF Label
  <2>4. tasks' \in [Task -> Records]
    <3>1. \/ tasks' = tasks
          \/ \E e \in job[p].todo : tasks' = [tasks EXCEPT ![e.task].status = "done"]
      BY <1>4 DEF ForceStatus
    <3>2. ASSUME NEW t \in Task, tasks' = [tasks EXCEPT ![t].status = "done"]
          PROVE  tasks' \in [Task -> Records]
      <4>1. "done" \in Work /\ Unassigned \in Dirs /\ NoSprint \in Sprint \cup {NoSprint}
        BY DirsType DEF Work
      <4> QED
        BY <1>0, <3>2, <4>1, RowWritten, Zenon
    <3>3. tasks \in [Task -> Records]
      BY <1>0 DEF TasksOK
    <3>4. ASSUME NEW e \in job[p].todo, tasks' = [tasks EXCEPT ![e.task].status = "done"]
          PROVE  tasks' \in [Task -> Records]
      BY <1>0, <3>2, <3>4, Zenon
    <3> QED
      BY <3>1, <3>3, <3>4, Zenon
  <2> QED
    BY <1>4, <2>3, <2>4 DEF ForceStatus, TypeInv, FoldersOK, TasksOK, disk
<1> QED
  BY <1>3, <1>4

LEMMA BeginUpdateType ==
  ASSUME TypeInv, NEW p \in Proc, NEW s \in Sprint, BeginUpdate(p, s) \/ BeginReconcile(p, s)
  PROVE  TypeInv'
<1>1. ASSUME NEW cmd \in {"update", "force"}, NEW r \in Rows
      PROVE  JobOK("save", [Issue(p, cmd, s, NoTask) EXCEPT !.row = r])
  <2>1. PICK j \in Job : j = Issue(p, cmd, s, NoTask) /\ j.cmd = cmd /\ j.sprint = s
    BY JobIssue DEF AllCommands
  <2>2. JobOK("save", [j EXCEPT !.row = r])
    BY <2>1 DEF JobOK, Job, OnTheMove, Assigning
  <2> QED
    BY <2>1, <2>2
<1>2. ASSUME NEW l \in Place
      PROVE  JobOK("compare", [Issue(p, "reconcile", s, NoTask) EXCEPT
                                 !.row = [status |-> l, folder |-> l]])
  <2>1. PICK j \in Job : /\ j = Issue(p, "reconcile", s, NoTask)
                         /\ j.cmd = "reconcile" /\ j.sprint = s
    BY JobIssue DEF AllCommands
  <2>2. [status |-> l, folder |-> l] \in Rows
    BY DEF Rows, Status
  <2>3. JobOK("compare", [j EXCEPT !.row = [status |-> l, folder |-> l]])
    BY <2>1, <2>2 DEF JobOK, Job, OnTheMove, Assigning
  <2> QED
    BY <2>1, <2>3
<1>3. UNCHANGED <<database, disk, faults>> /\ ControlOK /\ faults' \in Nat
  BY DEF BeginUpdate, BeginReconcile, TypeInv, ControlOK
<1>4. /\ sprints[s] \in Rows
      /\ \A st \in Status : [sprints[s] EXCEPT !.status = st] \in Rows
  BY DEF TypeInv, TasksOK, Rows
<1>5. ControlOK'
  <2>1. \/ \E cmd \in {"update", "force"}, r \in Rows :
              Continue(p, "save", [Issue(p, cmd, s, NoTask) EXCEPT !.row = r])
        \/ \E l \in Place : Continue(p, "compare",
              [Issue(p, "reconcile", s, NoTask) EXCEPT !.row = [status |-> l, folder |-> l]])
    BY <1>4 DEF BeginUpdate, BeginReconcile
  <2> QED
    BY <1>1, <1>2, <1>3, <2>1, ContinueOK DEF Label
<1> QED
  BY <1>3, <1>5 DEF TypeInv, FoldersOK, TasksOK, disk, database

LEMMA ReconcileType ==
  ASSUME TypeInv, NEW p \in Proc, Compare(p) \/ ListDrift(p) \/ HealDrift(p)
  PROVE  TypeInv'
<1>0. /\ ControlOK /\ TasksOK /\ faults' \in Nat
      /\ JobOK(pc[p], job[p]) /\ job[p] \in Job
      /\ \A e \in job[p].todo : e.task \in Task
  <2>1. ControlOK /\ TasksOK /\ faults' \in Nat
    BY FaultsOK DEF TypeInv, Compare, ListDrift, HealDrift
  <2> QED
    BY <2>1, JobInHand DEF Job
<1>1. /\ job[p].sprint \in Sprint /\ job[p].cmd = "reconcile"
      /\ pc[p] \in {"compare", "drift", "heal"}
      /\ \A l \in {"drift", "heal", "save"} : JobOK(l, job[p])
  BY <1>0 DEF Compare, ListDrift, HealDrift, JobOK, OnTheMove, Assigning
<1>2. CASE Compare(p)
  <2>1. ASSUME NEW x \in Place \cup {"none"} PROVE JobOK("drift", [job[p] EXCEPT !.to = x])
    BY <1>0, <1>1, <2>1 DEF JobOK, Job, OnTheMove, Assigning
  <2>2. job[p].row.status \in Place \cup {"none"}
    BY <1>0 DEF Job, Rows, Status
  <2>3. \E x \in Place \cup {"none"} : Continue(p, "drift", [job[p] EXCEPT !.to = x])
    BY <1>2, <2>2 DEF Compare
  <2>4. ControlOK'
    BY <1>0, <2>1, <2>3, ContinueOK DEF Label
  <2> QED
    BY <1>2, <2>4 DEF Compare, TypeInv, FoldersOK, TasksOK, disk, database
<1>3. CASE ListDrift(p)
  <2> DEFINE T == {Entry(t) : t \in {u \in Task : tasks[u].sprint = job[p].sprint}}
  <2>1. T \in SUBSET [task : Task, dir : Dirs] /\ {} \in SUBSET [task : Task, dir : Dirs]
    BY <1>0, EntryType
  <2>2. JobOK("heal", [job[p] EXCEPT !.todo = T]) /\ JobOK("heal", [job[p] EXCEPT !.todo = {}])
    BY <1>1, <2>1, JobTodo
  <2>3. ControlOK'
    BY <1>0, <1>3, <2>2, ContinueOK DEF ListDrift, Label
  <2> QED
    BY <1>3, <2>3 DEF ListDrift, TypeInv, FoldersOK, TasksOK, disk, database
<1>4. CASE HealDrift(p)
  <2>1. pc[p] = "heal" /\ (\/ Goto(p, "idle") \/ Goto(p, "save")
                           \/ \E e \in job[p].todo : Continue(p, "heal", Rest(p, e)))
    BY <1>4 DEF HealDrift
  <2>2. ControlOK'
    BY <1>0, <1>1, <2>1, RestType, ContinueOK, GotoOK DEF Label
  <2>3. tasks' \in [Task -> Records]
    <3>1. \/ tasks' = tasks
          \/ \E e \in job[p].todo : tasks' = [tasks EXCEPT ![e.task].dir = files[e.task].dir]
      BY <1>4 DEF HealDrift
    <3>2. ASSUME NEW t \in Task, tasks' = [tasks EXCEPT ![t].dir = files[t].dir]
          PROVE  tasks' \in [Task -> Records]
      <4>1. files[t].dir \in Dirs /\ NoSprint \in Sprint \cup {NoSprint} /\ "done" \in Work
        BY <1>0 DEF TasksOK, Records, Work
      <4> QED
        BY <1>0, <3>2, <4>1, RowWritten, Zenon
    <3>3. tasks \in [Task -> Records]
      BY <1>0 DEF TasksOK
    <3>4. ASSUME NEW e \in job[p].todo, tasks' = [tasks EXCEPT ![e.task].dir = files[e.task].dir]
          PROVE  tasks' \in [Task -> Records]
      BY <1>0, <3>2, <3>4, Zenon
    <3> QED
      BY <3>1, <3>3, <3>4, Zenon
  <2> QED
    BY <1>4, <2>2, <2>3 DEF HealDrift, TypeInv, FoldersOK, TasksOK, disk
<1> QED
  BY <1>2, <1>3, <1>4

LEMMA BeginAssignType ==
  ASSUME TypeInv, NEW p \in Proc, NEW t \in Task,
         BeginUnassign(p, t) \/ \E s \in Sprint : BeginAssign(p, t, s)
  PROVE  TypeInv'
<1>0. /\ ControlOK /\ TasksOK /\ faults' \in Nat
      /\ ResolveTaskPath(t) /\ UNCHANGED <<sprints, disk>>
      /\ files[t].dir \in Dirs /\ files[t].dir # Removed
      /\ tasks[t].sprint \in Sprint \cup {NoSprint}
  BY DEF BeginUnassign, BeginAssign, TypeInv, ControlOK, TasksOK, Records, ResolveTaskPath
<1>1. tasks' \in [Task -> Records]
  <2>1. tasks' = [tasks EXCEPT ![t].dir = files[t].dir]
    BY <1>0 DEF ResolveTaskPath
  <2>2. NoSprint \in Sprint \cup {NoSprint} /\ "done" \in Work
    BY DEF Work
  <2> QED
    BY <1>0, <2>1, <2>2, RowWritten, Zenon
<1>2. ControlOK'
  <2>1. ASSUME NEW s \in Sprint, NEW l \in Place
        PROVE  JobOK("rename", [Issue(p, "assign", s, t) EXCEPT !.from = l, !.old = files[t].dir])
    <3>1. PICK j \in Job : j = Issue(p, "assign", s, t) /\ j.cmd = "assign"
                           /\ j.sprint = s /\ j.task = t
      BY JobIssue DEF AllCommands
    <3>2. JobOK("rename", [j EXCEPT !.from = l, !.old = files[t].dir])
      BY <1>0, <3>1 DEF JobOK, Job, OnTheMove, Assigning
    <3> QED
      BY <3>1, <3>2
  <2>2. ASSUME NEW s \in Sprint
        PROVE  JobOK("rename", [Issue(p, "unassign", s, t) EXCEPT !.old = files[t].dir])
    <3>1. PICK j \in Job : j = Issue(p, "unassign", s, t) /\ j.cmd = "unassign"
                           /\ j.sprint = s /\ j.task = t
      BY JobIssue DEF AllCommands
    <3>2. JobOK("rename", [j EXCEPT !.old = files[t].dir])
      BY <1>0, <3>1 DEF JobOK, Job, OnTheMove, Assigning
    <3> QED
      BY <3>1, <3>2
  <2>3. CASE BeginUnassign(p, t)
    BY <1>0, <2>2, <2>3, ContinueOK DEF BeginUnassign, Label
  <2>4. ASSUME NEW s \in Sprint, BeginAssign(p, t, s) PROVE ControlOK'
    BY <1>0, <2>1, <2>4, ContinueOK DEF BeginAssign, Label
  <2> QED
    BY <2>3, <2>4
<1> QED
  BY <1>0, <1>1, <1>2 DEF TypeInv, FoldersOK, TasksOK, disk

LEMMA AssigningFacts ==
  ASSUME TypeInv, NEW p \in Proc, pc[p] \in Assigning
  PROVE  /\ ControlOK /\ TasksOK /\ FoldersOK
         /\ job[p] \in Job /\ job[p].sprint \in Sprint /\ job[p].task \in Task
         /\ job[p].cmd \in {"assign", "unassign"}
         /\ job[p].cmd = "assign" => job[p].from \in Place
         /\ job[p].old \in Dirs /\ job[p].old # Removed
         /\ New(p) \in Dirs /\ New(p).sprint \in Sprint \cup {NoSprint}
         /\ \A l \in Assigning, c \in {"tag", "unlist", "row"} :
               JobOK(l, job[p]) /\ JobOK(l, Achieved(p, c))
<1>1. ControlOK /\ TasksOK /\ FoldersOK /\ JobOK(pc[p], job[p]) /\ job[p] \in Job
  BY JobInHand DEF TypeInv
<1>2. /\ job[p].sprint \in Sprint /\ job[p].task \in Task
      /\ job[p].cmd \in {"assign", "unassign"}
      /\ job[p].cmd = "assign" => job[p].from \in Place
      /\ job[p].old \in Dirs /\ job[p].old # Removed
  BY <1>1 DEF JobOK, Job, Assigning
<1>3. New(p) \in Dirs /\ New(p).sprint \in Sprint \cup {NoSprint}
  BY <1>2, DirsType DEF New, Folder, Unassigned
<1>4. ASSUME NEW l \in Assigning, NEW c \in {"tag", "unlist", "row"}
      PROVE  JobOK(l, job[p]) /\ JobOK(l, Achieved(p, c))
  <2>1. JobOK(l, job[p])
    BY <1>1, AssignOn
  <2>2. Achieved(p, c) = [job[p] EXCEPT !.behind = job[p].behind \cup {c}]
    BY DEF Achieved
  <2>3. JobOK(l, [job[p] EXCEPT !.behind = job[p].behind \cup {c}])
    BY <2>1 DEF JobOK, Job
  <2> QED
    BY <2>1, <2>2, <2>3
<1> QED
  BY <1>1, <1>2, <1>3, <1>4

LEMMA EditType ==
  ASSUME FoldersOK, NEW p \in Proc, job[p].sprint \in Sprint, job[p].task \in Task,
         Edit(p, RowsWith(p)) \/ Edit(p, RowsWithout(p))
  PROVE  docs' \in [Sprint -> [Place -> Docs]]
<1> DEFINE s == job[p].sprint
<1>1. \A l \in Place : docs[s][l] \in Docs /\ docs[s][l].rows \in SUBSET Task
  BY DEF FoldersOK, Docs
<1>2. ASSUME NEW rows, \A l \in Place : rows[l] \in SUBSET Task, Edit(p, rows)
      PROVE  docs' \in [Sprint -> [Place -> Docs]]
  <2> DEFINE found == {l \in Place : SprintDir(s, l) /\ HasDoc(s, l)}
             D == [l \in Place |-> IF l \in found THEN [docs[s][l] EXCEPT !.rows = rows[l]]
                                   ELSE docs[s][l]]
  <2>1. \A l \in Place : [docs[s][l] EXCEPT !.rows = rows[l]] \in Docs
    BY <1>1, <1>2 DEF Docs
  <2>2. D \in [Place -> Docs]
    BY <1>1, <2>1
  <2>3. docs' = [docs EXCEPT ![s] = D]
    BY <1>2 DEF Edit
  <2> HIDE DEF D
  <2> QED
    BY <2>2, <2>3 DEF FoldersOK
<1>3. \A l \in Place : RowsWith(p)[l] \in SUBSET Task /\ RowsWithout(p)[l] \in SUBSET Task
  BY <1>1 DEF RowsWith, RowsWithout
<1> QED
  BY <1>2, <1>3

LEMMA AssignType ==
  ASSUME TypeInv, NEW p \in Proc, Rename(p) \/ Tag(p) \/ List(p) \/ EditRow(p)
  PROVE  TypeInv'
<1>0. pc[p] \in Assigning /\ faults' \in Nat
  <2>1. pc[p] \in Assigning
    BY DEF Rename, Tag, List, EditRow, Assigning
  <2> QED
    BY <2>1, FaultsOK DEF TypeInv, Rename, Tag, List, EditRow
<1>1. ControlOK'
  <2>1. \/ Return(p)
        \/ \E m \in Assigning \cap Label :
              \/ Goto(p, m)
              \/ \E c \in {"tag", "unlist", "row"} : Continue(p, m, Achieved(p, c))
    BY DEF Rename, Tag, List, EditRow, Assigning, Recovers, Label
  <2> QED
    BY <1>0, <2>1, AssigningFacts, ReturnOK, GotoOK, ContinueOK
<1>2. files' \in [Task -> Records]
  <2>1. \/ UNCHANGED files \/ files' = [files EXCEPT ![job[p].task].dir = New(p)]
        \/ files' = [files EXCEPT ![job[p].task].sprint = New(p).sprint]
    BY DEF Rename, Tag, List, EditRow
  <2> QED
    BY <1>0, <2>1, AssigningFacts, FileWritten, Zenon
<1>3. FoldersOK'
  <2>1. CASE Rename(p)
    BY <1>0, <2>1, AssigningFacts DEF Rename, FoldersOK
  <2>2. CASE Tag(p) \/ List(p)
    BY <1>0, <2>2, AssigningFacts DEF Tag, List, FoldersOK
  <2>3. CASE EditRow(p)
    <3>1. \/ UNCHANGED docs \/ Edit(p, RowsWith(p)) \/ Edit(p, RowsWithout(p))
      BY <2>3 DEF EditRow
    <3>2. docs' \in [Sprint -> [Place -> Docs]]
      BY <1>0, <3>1, AssigningFacts, EditType DEF FoldersOK
    <3> QED
      BY <1>0, <2>3, <3>2, AssigningFacts DEF EditRow, FoldersOK
  <2> QED
    BY <2>1, <2>2, <2>3
<1>4. UNCHANGED <<sprints, tasks, focus>> /\ backlog' \subseteq Task
  BY <1>0, AssigningFacts DEF Rename, Tag, List, EditRow, database, TasksOK
<1> QED
  BY <1>1, <1>2, <1>3, <1>4 DEF TypeInv, TasksOK

LEMMA CompensationType ==
  ASSUME TypeInv, NEW p \in Proc, \/ SetSprint(p) \/ SetPath(p) \/ DropRow(p)
                                  \/ Relist(p) \/ Untag(p) \/ PutBack(p)
  PROVE  TypeInv'
<1>0. pc[p] \in Assigning /\ faults' \in Nat
  <2>1. pc[p] \in Assigning
    BY DEF SetSprint, SetPath, DropRow, Relist, Untag, PutBack, Assigning
  <2> QED
    BY <2>1, FaultsOK DEF TypeInv, SetSprint, SetPath, DropRow, Relist, Untag, PutBack
<1>1. ControlOK'
  <2>1. \/ Return(p) \/ \E m \in Assigning \cap Label : Goto(p, m)
    BY DEF SetSprint, SetPath, DropRow, Relist, Untag, PutBack, Assigning, Recovers, Label
  <2> QED
    BY <1>0, <2>1, AssigningFacts, ReturnOK, GotoOK
<1>2. files' \in [Task -> Records]
  <2>1. \/ UNCHANGED files \/ files' = [files EXCEPT ![job[p].task].dir = job[p].old]
        \/ files' = [files EXCEPT ![job[p].task].sprint = NoSprint]
    BY DEF SetSprint, SetPath, DropRow, Relist, Untag, PutBack, disk
  <2>2. NoSprint \in Sprint \cup {NoSprint}
    OBVIOUS
  <2> QED
    BY <1>0, <2>1, <2>2, AssigningFacts, FileWritten, Zenon
<1>3. tasks' \in [Task -> Records]
  <2>1. \/ UNCHANGED tasks \/ tasks' = [tasks EXCEPT ![job[p].task].dir = New(p)]
        \/ tasks' = [tasks EXCEPT ![job[p].task].sprint = New(p).sprint]
    BY DEF SetSprint, SetPath, DropRow, Relist, Untag, PutBack, database
  <2>2. "done" \in Work
    BY DEF Work
  <2> QED
    BY <1>0, <2>1, <2>2, AssigningFacts, RowWritten, Zenon
<1>4. FoldersOK'
  <2>1. CASE DropRow(p)
    <3>1. \/ UNCHANGED docs \/ Edit(p, RowsWithout(p))
      BY <2>1 DEF DropRow
    <3>2. docs' \in [Sprint -> [Place -> Docs]]
      BY <1>0, <3>1, AssigningFacts, EditType DEF FoldersOK
    <3> QED
      BY <1>0, <2>1, <3>2, AssigningFacts DEF DropRow, FoldersOK
  <2>2. CASE ~DropRow(p)
    BY <1>0, <2>2, AssigningFacts
    DEF SetSprint, SetPath, Relist, Untag, PutBack, FoldersOK, disk
  <2> QED
    BY <2>1, <2>2
<1>5. UNCHANGED <<sprints, focus>> /\ backlog' \subseteq Task
  BY <1>0, AssigningFacts
  DEF SetSprint, SetPath, DropRow, Relist, Untag, PutBack, database, disk, TasksOK
<1> QED
  BY <1>1, <1>2, <1>3, <1>4, <1>5 DEF TypeInv, TasksOK

LEMMA ProgressType ==
  ASSUME TypeInv, NEW t \in Task, Progress(t)
  PROVE  TypeInv'
<1>1. PICK st \in {"in-progress", "done"} :
         /\ tasks' = [tasks EXCEPT ![t].status = st, ![t].dir = files[t].dir]
         /\ files' = [files EXCEPT ![t].status = st]
  BY DEF Progress
<1>2. UNCHANGED <<sprints, folders, inner, docs, backlog, focus, pc, job, faults, menu>>
  BY DEF Progress, control
<1>3. tasks \in [Task -> Records] /\ files \in [Task -> Records] /\ st \in Work
  BY DEF TypeInv, TasksOK, Work
<1>4. files' \in [Task -> Records]
  <2>1. [files EXCEPT ![t].status = st] \in [Task -> Records]
    BY <1>3, WriteType, Zenon DEF TypeInv
  <2> QED
    BY <1>1, <2>1, Zenon
<1>5. tasks' \in [Task -> Records]
  <2>1. [tasks[t] EXCEPT !.status = st, !.dir = files[t].dir] \in Records
    BY <1>3 DEF Records
  <2>2. tasks' = [tasks EXCEPT ![t] = [tasks[t] EXCEPT !.status = st, !.dir = files[t].dir]]
    BY <1>1, <1>3 DEF Records
  <2> QED
    BY <1>3, <2>1, <2>2
<1>6. ControlOK'
  BY <1>2 DEF TypeInv, ControlOK, JobOK
<1> QED
  BY <1>2, <1>4, <1>5, <1>6 DEF TypeInv, FoldersOK, TasksOK

LEMMA TypeInvInit == Init => TypeInv
<1> SUFFICES ASSUME Init PROVE TypeInv
  OBVIOUS
<1>1. ControlOK
  <2>1. "idle" \in Label
    BY DEF Label
  <2> QED
    BY <2>1, NoJobType DEF Init, ControlOK
<1>2. FoldersOK
  <2>1. NoDoc \in Docs /\ \A T \in SUBSET Task : [NewDoc EXCEPT !.rows = T] \in Docs
    BY DEF NoDoc, NewDoc, Docs, Place
  <2>2. docs \in [Sprint -> [Place -> Docs]]
    <3>1. \A s \in Sprint : {t \in Task : Enrolled[t] = s} \in SUBSET Task
      OBVIOUS
    <3> QED
      BY <2>1, <3>1 DEF Init
  <2> QED
    BY <2>2 DEF Init, FoldersOK, Place
<1>3. TasksOK
  <2>1. \A t \in Task : Enrolled[t] \in Sprint \cup {NoSprint}
    BY SprintAssumption
  <2>2. \A t \in Task : (IF Enrolled[t] = NoSprint THEN Unassigned
                         ELSE Folder("backlog", Enrolled[t])) \in Dirs
    BY <2>1, DirsType DEF Place
  <2>3. tasks \in [Task -> Records]
    BY <2>1, <2>2 DEF Init, Records, Work
  <2>4. NewRow \in Rows /\ NoJob.row \in Rows
    BY NoJobType DEF NewRow, Rows, Status, Place
  <2> QED
    BY <2>3, <2>4 DEF Init, TasksOK
<1> QED
  BY <1>1, <1>2, <1>3 DEF TypeInv

LEMMA TypeInvStep == TypeInv /\ [Next]_vars => TypeInv'
<1> SUFFICES ASSUME TypeInv, [Next]_vars PROVE TypeInv'
  OBVIOUS
<1>1. ASSUME NEW p \in Proc, Begin(p) PROVE TypeInv'
  <2>1. \/ \E s \in Sprint : BeginCreate(p, s) \/ BeginUpdate(p, s) \/ BeginReconcile(p, s)
        \/ \E s \in Sprint : \/ BeginStart(p, s) \/ BeginComplete(p, s)
                             \/ \E cmd \in {"discard", "return", "db-only"} :
                                   BeginDiscard(p, s, cmd)
        \/ \E t \in Task : BeginUnassign(p, t) \/ \E s \in Sprint : BeginAssign(p, t, s)
    BY <1>1 DEF Begin, SprintCreate, SprintStart, SprintComplete, SprintDiscard,
                SprintUpdate, SprintReconcile, TaskAssign, TaskUnassign
  <2> QED
    BY <2>1, CreateType, BeginMoveType, BeginUpdateType, BeginAssignType
<1>2. ASSUME NEW p \in Proc, Step(p) PROVE TypeInv'
  BY <1>2, CreateType, CollectType, MoveType, RecordType, BindType, SyncType,
     ReconcileType, AssignType, CompensationType DEF Step
<1>3. ASSUME NEW p \in Proc, Crash(p) PROVE TypeInv'
  <2>1. ControlOK'
    BY <1>3, ReturnOK, FaultsOK DEF Crash, TypeInv
  <2> QED
    BY <1>3, <2>1 DEF Crash, TypeInv, FoldersOK, TasksOK, database, disk
<1>4. ASSUME UNCHANGED vars PROVE TypeInv'
  BY <1>4 DEF vars, TypeInv, ControlOK, JobOK, FoldersOK, TasksOK
<1> QED
  BY <1>1, <1>2, <1>3, <1>4, ProgressType DEF Next

\* Every reachable state is well typed: every command finds a Sprint, a Task
\* and a place in its hands where it needs them, whatever crashes and fails
\* beside it.
THEOREM SprintTypeCorrect == Spec => []TypeOK
<1>1. Spec => []TypeInv
  BY TypeInvInit, TypeInvStep, PTL DEF Spec
<1> QED
  BY <1>1, TypeInvImpliesTypeOK, PTL
-----------------------------------------------------------------------------
(* One folder.  Processes confined to Forward move a Sprint only up, and a *)
(* file whose directory is in a folder of a Sprint is in one there is.     *)

Up == {<<"backlog", "active">>, <<"discarded", "active">>, <<"backlog", "completed">>,
       <<"discarded", "completed">>, <<"active", "completed">>}

ForwardJob(l, j) ==
  /\ l # "idle" => j.cmd \in {"start", "complete", "unassign", "update"}
  /\ l \in OnTheMove => <<j.from, j.to>> \in Up

\* Where the moved folder has gone by the time the source is swept.
HasGone(l, j) == l = "sweep" => \A m \in folders[j.sprint] : <<j.from, m>> \in Up

TreeInv ==
  /\ \A s \in Sprint : inner[s] = {} /\ \A l, m \in folders[s] : l = m
  /\ \A t \in Task : files[t].dir # Removed
  /\ \A t \in Task, s \in Sprint :
        files[t].dir.sprint = s /\ files[t].dir.place \in Place
           => files[t].dir.place \in folders[s]
JobsInv == \A p \in Proc : ForwardJob(pc[p], job[p]) /\ HasGone(pc[p], job[p])
OneInv  == menu \subseteq Forward => TreeInv /\ JobsInv

LEMMA TreeKept ==
  ASSUME TreeInv, UNCHANGED <<folders, inner>>,
         \A t \in Task : files'[t].dir = files[t].dir
  PROVE  TreeInv'
<1>1. /\ \A s \in Sprint : inner'[s] = {} /\ \A l, m \in folders'[s] : l = m
      /\ \A t \in Task : files'[t].dir # Removed
  BY DEF TreeInv
<1>2. \A t \in Task, s \in Sprint :
        files'[t].dir.sprint = s /\ files'[t].dir.place \in Place
           => files'[t].dir.place \in folders'[s]
  BY DEF TreeInv
<1> QED
  BY <1>1, <1>2 DEF TreeInv, Removed

LEMMA JobsKept ==
  ASSUME ControlOK, JobsInv, UNCHANGED folders, NEW p \in Proc, NEW l, NEW j,
         Continue(p, l, j), l # "sweep", l # "idle" => ForwardJob(l, j)
  PROVE  JobsInv'
<1>1. ASSUME NEW q \in Proc
      PROVE  ForwardJob(pc'[q], job'[q])
             /\ (pc'[q] = "sweep" =>
                   \A m \in folders'[job'[q].sprint] : <<job'[q].from, m>> \in Up)
  <2>1. CASE q = p
    <3>1. pc'[q] = l /\ job'[q] = IF l = "idle" THEN NoJob ELSE j
      BY <2>1 DEF ControlOK, Continue
    <3> QED
      BY <3>1 DEF ForwardJob, OnTheMove
  <2>2. CASE q # p
    <3>1. pc'[q] = pc[q] /\ job'[q] = job[q]
      BY <2>2 DEF ControlOK, Continue
    <3> QED
      BY <3>1 DEF JobsInv, HasGone
  <2> QED
    BY <2>1, <2>2
<1> QED
  BY <1>1 DEF JobsInv, ForwardJob, HasGone

\* A command goes on as itself: the loops and the steps of an assignment change
\* neither its name nor the places it moves between.
Same(p, j) == /\ j.cmd = job[p].cmd /\ j.from = job[p].from /\ j.to = job[p].to

LEMMA SameForward ==
  ASSUME JobsInv, NEW p \in Proc, NEW l, NEW j, Same(p, j), pc[p] # "idle",
         l \in OnTheMove => pc[p] \in OnTheMove
  PROVE  ForwardJob(l, j)
  BY DEF JobsInv, ForwardJob, Same

LEMMA GoesOn ==
  ASSUME ControlOK, JobsInv, UNCHANGED folders, NEW p \in Proc, NEW l, NEW j,
         Continue(p, l, j), pc[p] # "idle", l # "sweep",
         l \in OnTheMove => pc[p] \in OnTheMove,
         Same(p, j)
  PROVE  JobsInv'
  BY SameForward, JobsKept

LEMMA SameUpdates ==
  ASSUME ControlOK, NEW p \in Proc
  PROVE  /\ Same(p, job[p])
         /\ \A T : Same(p, [job[p] EXCEPT !.todo = T])
         /\ \A T, t : Same(p, [job[p] EXCEPT !.todo = T, !.task = t])
         /\ \A B : Same(p, [job[p] EXCEPT !.behind = B])
<1>1. job[p] \in Job
  BY JobInHand
<1> QED
  BY <1>1 DEF Same, Job

LEMMA ReturnForward ==
  ASSUME ControlOK, JobsInv, UNCHANGED folders, NEW p \in Proc, Return(p)
  PROVE  JobsInv'
  BY JobsKept DEF Return, Goto

LEMMA GotoForward ==
  ASSUME ControlOK, JobsInv, UNCHANGED folders, NEW p \in Proc, NEW l, Goto(p, l),
         pc[p] # "idle", l # "sweep", l \in OnTheMove => pc[p] \in OnTheMove
  PROVE  JobsInv'
  BY SameUpdates, GoesOn DEF Goto

LEMMA BeginForward ==
  ASSUME TypeInv, TreeInv, JobsInv, menu \subseteq Forward, NEW p \in Proc, Begin(p)
  PROVE  TreeInv' /\ JobsInv'
<1>0. ControlOK /\ TasksOK
  BY DEF TypeInv
<1>1. \/ \E s \in Sprint : BeginStart(p, s) \/ BeginComplete(p, s)
      \/ \E s \in Sprint : BeginUpdate(p, s) /\ Starts(p, "update")
      \/ \E t \in Task : BeginUnassign(p, t)
  BY DEF Begin, SprintCreate, SprintStart, SprintComplete, SprintDiscard, SprintUpdate,
         SprintReconcile, TaskAssign, TaskUnassign, BeginCreate, BeginDiscard,
         BeginUpdate, BeginReconcile, BeginAssign, Starts, Forward
<1>2. UNCHANGED disk
  BY <1>1 DEF BeginStart, BeginComplete, BeginUpdate, BeginUnassign
<1>3. TreeInv' /\ UNCHANGED folders
  BY <1>2, TreeKept DEF disk
<1>4. JobsInv'
  <2>1. ASSUME NEW s \in Sprint, BeginStart(p, s) \/ BeginComplete(p, s)
        PROVE  JobsInv'
    <3> DEFINE from == sprints[s].status
    <3>1. from \in Place \cup {"none"}
      BY <1>0 DEF TasksOK, Rows, Status
    <3>2. ASSUME NEW cmd \in {"start", "complete"}, NEW to \in Place
          PROVE  /\ Moving(p, cmd, s, to).cmd = cmd
                 /\ Moving(p, cmd, s, to).from = from /\ Moving(p, cmd, s, to).to = to
      BY DEF Moving, Issue, NoJob
    <3>3. CASE BeginStart(p, s)
      <4>1. ForwardJob("move", Moving(p, "start", s, "active"))
        BY <3>2, <3>3 DEF BeginStart, ForwardJob, Up, Place
      <4> QED
        BY <1>0, <1>3, <3>3, <4>1, JobsKept DEF BeginStart
    <3>4. CASE BeginComplete(p, s)
      <4>1. ForwardJob("collect", Moving(p, "complete", s, "completed"))
        BY <3>1, <3>2, <3>4 DEF BeginComplete, ForwardJob, Up, Place
      <4> QED
        BY <1>0, <1>3, <3>4, <4>1, JobsKept DEF BeginComplete
    <3> QED
      BY <2>1, <3>3, <3>4
  <2>2. ASSUME NEW s \in Sprint, BeginUpdate(p, s), Starts(p, "update")
        PROVE  JobsInv'
    <3>1. PICK j : j.cmd = "update" /\ Continue(p, "save", j)
      <4>1. "force" \notin menu
        BY DEF Forward
      <4>2. [Issue(p, "update", s, NoTask) EXCEPT !.row = sprints[s]].cmd = "update"
        BY DEF Issue, NoJob
      <4> QED
        BY <2>2, <4>1, <4>2 DEF BeginUpdate, Starts
    <3>2. ForwardJob("save", j)
      BY <3>1 DEF ForwardJob, OnTheMove
    <3> QED
      BY <1>0, <1>3, <3>1, <3>2, JobsKept
  <2>3. ASSUME NEW t \in Task, BeginUnassign(p, t)
        PROVE  JobsInv'
    <3> DEFINE j == [Issue(p, "unassign", tasks[t].sprint, t) EXCEPT !.old = files[t].dir]
    <3>1. j.cmd = "unassign"
      BY DEF Issue, NoJob
    <3>2. ForwardJob("rename", j)
      BY <3>1 DEF ForwardJob, OnTheMove
    <3> QED
      BY <1>0, <1>3, <2>3, <3>2, JobsKept DEF BeginUnassign
  <2> QED
    BY <1>1, <2>1, <2>2, <2>3
<1> QED
  BY <1>3, <1>4

\* The steps of a mover around the move itself, and of a save: they leave the
\* folders alone and every file in its directory.
LEMMA MoverForward ==
  ASSUME TypeInv, TreeInv, JobsInv, NEW p \in Proc,
         \/ SaveToDB(p) \/ Collect(p) \/ WriteFrontmatter(p) \/ ReturnTask(p)
         \/ Stamp(p) \/ Record(p) \/ UpdateTaskPathsForSprint(p) \/ ListFiles(p)
         \/ Bind(p) \/ BindSprint(p) \/ BindPath(p)
         \/ ListForSync(p) \/ ForceStatus(p) \/ UpdateCurrentFocus(p)
  PROVE  TreeInv' /\ JobsInv'
<1>0. ControlOK /\ TasksOK /\ job[p] \in Job
  BY JobInHand DEF TypeInv
<1>1. UNCHANGED <<folders, inner>>
  BY DEF SaveToDB, Collect, WriteFrontmatter, ReturnTask, Stamp, Record,
         UpdateTaskPathsForSprint, ListFiles, Bind, BindSprint, BindPath, ListForSync,
         ForceStatus, UpdateCurrentFocus, disk
<1>2. \A t \in Task : files'[t].dir = files[t].dir
  <2>1. CASE WriteFrontmatter(p)
    <3>1. UNCHANGED files
          \/ \E u \in Task : files' = [files EXCEPT ![u].status = "done"]
      BY <1>0, <2>1 DEF WriteFrontmatter, Job
    <3>2. ASSUME NEW u \in Task, files' = [files EXCEPT ![u].status = "done"],
                 NEW t \in Task
          PROVE  files'[t].dir = files[t].dir
      <4>1. files \in [Task -> Records] /\ files[t] \in Records
        BY <1>0 DEF TasksOK
      <4>2. [files[t] EXCEPT !.status = "done"].dir = files[t].dir
        BY <4>1 DEF Records
      <4>3. files'[t] = IF t = u THEN [files[t] EXCEPT !.status = "done"] ELSE files[t]
        BY <3>2, <4>1
      <4> QED
        BY <4>2, <4>3
    <3> QED
      BY <3>1, <3>2
  <2>2. CASE ~WriteFrontmatter(p)
    BY <2>2
    DEF SaveToDB, Collect, ReturnTask, Stamp, Record,
        UpdateTaskPathsForSprint, ListFiles, Bind, BindSprint, BindPath, ListForSync,
        ForceStatus, UpdateCurrentFocus, disk
  <2> QED
    BY <2>1, <2>2
<1>3. TreeInv'
  BY <1>1, <1>2, TreeKept
<1>4. \/ \E T, l : /\ Continue(p, l, [job[p] EXCEPT !.todo = T])
                   /\ pc[p] \in OnTheMove /\ l \in {"return", "frontmatter", "bind", "force"}
      \/ \E T, t, l : /\ Continue(p, l, [job[p] EXCEPT !.todo = T, !.task = t])
                      /\ pc[p] = "bind" /\ l = "bind-sprint"
      \/ Return(p)
      \/ \E l \in OnTheMove \ {"sweep"} : Goto(p, l) /\ pc[p] \in OnTheMove
  <2>1. CASE SaveToDB(p) \/ Collect(p) \/ WriteFrontmatter(p) \/ ReturnTask(p)
    BY <2>1 DEF SaveToDB, Collect, WriteFrontmatter, ReturnTask, Rest, OnTheMove
  <2>2. CASE Stamp(p) \/ Record(p) \/ UpdateTaskPathsForSprint(p)
             \/ BindSprint(p) \/ BindPath(p)
    BY <2>2 DEF Stamp, Record, UpdateTaskPathsForSprint, BindSprint, BindPath, OnTheMove,
                Return
  <2>3. CASE Bind(p)
    <3>1. CASE job[p].todo = {}
      BY <2>3, <3>1 DEF Bind, OnTheMove, Return, Rest
    <3>2. CASE job[p].todo # {}
      <4>1. PICK e : \/ Continue(p, "bind-sprint", [Rest(p, e) EXCEPT !.task = e.task])
                     \/ Continue(p, "bind", Rest(p, e))
        BY <2>3, <3>2 DEF Bind
      <4>2. pc[p] = "bind"
        BY <2>3 DEF Bind
      <4>3. [Rest(p, e) EXCEPT !.task = e.task]
              = [job[p] EXCEPT !.todo = job[p].todo \ {e}, !.task = e.task]
        BY <1>0 DEF Rest, Job
      <4>4. Rest(p, e) = [job[p] EXCEPT !.todo = job[p].todo \ {e}]
        BY DEF Rest
      <4>5. CASE Continue(p, "bind", Rest(p, e))
        BY <4>2, <4>4, <4>5 DEF OnTheMove
      <4>6. CASE Continue(p, "bind-sprint", [Rest(p, e) EXCEPT !.task = e.task])
        <5>1. Continue(p, "bind-sprint", [job[p] EXCEPT !.todo = job[p].todo \ {e},
                                                       !.task = e.task])
          BY <4>3, <4>6, Zenon
        <5> QED
          BY <4>2, <5>1
      <4> QED
        BY <4>1, <4>5, <4>6
    <3> QED
      BY <3>1, <3>2
  <2>4. CASE ListFiles(p) \/ ListForSync(p) \/ ForceStatus(p) \/ UpdateCurrentFocus(p)
    BY <2>4 DEF ListFiles, ListForSync, ForceStatus, UpdateCurrentFocus, Rest, OnTheMove
  <2> QED
    BY <2>1, <2>2, <2>3, <2>4
<1>5. JobsInv'
  BY <1>0, <1>1, <1>4, SameUpdates, GoesOn, ReturnForward, GotoForward DEF OnTheMove
<1> QED
  BY <1>3, <1>5

LEMMA UpFacts ==
  /\ \A l, m, n : <<l, m>> \in Up /\ <<m, n>> \in Up => <<l, n>> \in Up
  /\ \A l, m : <<l, m>> \in Up => l # m /\ l \in Place /\ m \in Place
  BY DEF Up, Place

LEMMA MoveForward ==
  ASSUME TypeInv, TreeInv, JobsInv, NEW p \in Proc, MoveSprint(p)
  PROVE  TreeInv' /\ JobsInv'
<1> DEFINE s == job[p].sprint
           from == job[p].from
           to == job[p].to
<1>0. /\ ControlOK /\ TasksOK /\ FoldersOK
      /\ s \in Sprint /\ <<from, to>> \in Up
      /\ from \in Place /\ to \in Place /\ from # to /\ pc[p] = "move"
  <2>1. JobOK("move", job[p]) /\ ForwardJob("move", job[p]) /\ pc[p] = "move"
    BY JobInHand DEF MoveSprint, TypeInv, JobsInv
  <2> QED
    BY <2>1, UpFacts DEF JobOK, OnTheMove, ForwardJob, TypeInv
<1>1. folders \in [Sprint -> SUBSET Place]
      /\ inner \in [Sprint -> SUBSET Place] /\ files \in [Task -> Records]
  BY <1>0 DEF FoldersOK, TasksOK
<1>2. CASE UNCHANGED <<folders, inner, docs, files>> /\ (Return(p) \/ Goto(p, "stamp"))
  <2>1. JobsInv'
    BY <1>0, <1>2, ReturnForward, GotoForward DEF OnTheMove
  <2> QED
    BY <1>2, <2>1, TreeKept
<1>3. CASE /\ from \in folders[s] /\ MoveTree(s, from, to) /\ Goto(p, "sweep")
  <2>1. folders[s] = {from} /\ inner[s] = {}
    BY <1>0, <1>1, <1>3 DEF TreeInv
  <2>2. folders' = [folders EXCEPT ![s] = {to}] /\ inner' = inner
    BY <1>0, <1>1, <1>3, <2>1 DEF MoveTree
  <2>3. ASSUME NEW t \in Task
        PROVE  /\ files'[t].dir # Removed
               /\ \/ /\ files[t].dir.sprint = s /\ files[t].dir.place = from
                     /\ files'[t].dir.sprint = s /\ files'[t].dir.place = to
                  \/ /\ ~(files[t].dir.sprint = s /\ files[t].dir.place = from)
                     /\ files'[t].dir = files[t].dir
    <3> DEFINE g == [files[t] EXCEPT !.dir.place = to, !.dir.deep = @ \/ FALSE]
    <3>1. files[t] \in Records /\ files[t].dir \in Dirs
      BY <1>1 DEF Records
    <3>2. files'[t] = IF files[t].dir.place = from /\ files[t].dir.sprint = s
                      THEN g ELSE files[t]
      BY <1>3 DEF MoveTree, Carry
    <3>3. g.dir.place = to /\ g.dir.sprint = files[t].dir.sprint
      BY <3>1 DEF Records, Dirs
    <3>4. to # "removed"
      BY <1>0 DEF Place
    <3> HIDE DEF g
    <3>5. CASE files[t].dir.place = from /\ files[t].dir.sprint = s
      <4>1. files'[t].dir.place = to /\ files'[t].dir.sprint = s
        BY <3>2, <3>3, <3>5
      <4>2. files'[t].dir # Removed
        BY <3>4, <4>1 DEF Removed
      <4> QED
        BY <3>5, <4>1, <4>2
    <3>6. CASE ~(files[t].dir.place = from /\ files[t].dir.sprint = s)
      <4>1. files'[t] = files[t]
        BY <3>2, <3>6
      <4>2. files[t].dir # Removed
        BY DEF TreeInv
      <4> QED
        BY <3>6, <4>1, <4>2
    <3> QED
      BY <3>5, <3>6
  <2>4. \A r \in Sprint : inner'[r] = {} /\ \A l, m \in folders'[r] : l = m
    BY <1>0, <1>1, <2>2 DEF TreeInv
  <2>5. ASSUME NEW t \in Task, NEW r \in Sprint, files'[t].dir.sprint = r,
               files'[t].dir.place \in Place
        PROVE  files'[t].dir.place \in folders'[r]
    <3>1. CASE files[t].dir.sprint = s /\ files[t].dir.place = from
      BY <1>1, <2>2, <2>3, <2>5, <3>1
    <3>2. CASE ~(files[t].dir.sprint = s /\ files[t].dir.place = from)
      <4>1. files'[t].dir = files[t].dir
        BY <2>3, <3>2
      <4>2. files[t].dir.place \in folders[r]
        BY <2>5, <4>1 DEF TreeInv
      <4>3. r # s
        BY <2>1, <2>5, <3>2, <4>1, <4>2
      <4> QED
        BY <1>1, <2>2, <4>1, <4>2, <4>3
    <3> QED
      BY <3>1, <3>2
  <2>6. TreeInv'
    BY <2>3, <2>4, <2>5 DEF TreeInv, Removed
  <2>7. ASSUME NEW q \in Proc
        PROVE  ForwardJob(pc'[q], job'[q])
               /\ (pc'[q] = "sweep" =>
                     \A m \in folders'[job'[q].sprint] : <<job'[q].from, m>> \in Up)
    <3>1. CASE q = p
      <4>1. pc'[q] = "sweep" /\ job'[q] = job[p]
        BY <1>0, <1>3, <3>1 DEF ControlOK, Continue, Goto
      <4>2. ForwardJob("sweep", job[p])
        BY <1>0 DEF JobsInv, ForwardJob, OnTheMove
      <4> QED
        BY <1>0, <1>1, <2>2, <4>1, <4>2
    <3>2. CASE q # p
      <4>1. pc'[q] = pc[q] /\ job'[q] = job[q]
        BY <1>0, <1>3, <3>2 DEF ControlOK, Continue, Goto
      <4>2. ForwardJob(pc[q], job[q]) /\ HasGone(pc[q], job[q])
        BY DEF JobsInv
      <4>3. ASSUME pc[q] = "sweep", NEW m \in folders'[job[q].sprint]
            PROVE  <<job[q].from, m>> \in Up
        <5>1. job[q].sprint \in Sprint
          BY <1>0, <4>3, JobInHand DEF JobOK
        <5>2. CASE job[q].sprint = s
          <6>1. m = to /\ from \in folders[job[q].sprint]
            BY <1>0, <1>1, <2>1, <2>2, <4>3, <5>2
          <6>2. <<job[q].from, from>> \in Up
            BY <4>2, <4>3, <6>1 DEF HasGone
          <6> QED
            BY <1>0, <6>1, <6>2, UpFacts, Zenon
        <5>3. CASE job[q].sprint # s
          BY <1>1, <2>2, <4>2, <4>3, <5>1, <5>3 DEF HasGone
        <5> QED
          BY <5>2, <5>3
      <4> QED
        BY <4>1, <4>2, <4>3
    <3> QED
      BY <3>1, <3>2
  <2>8. JobsInv'
    BY <2>7 DEF JobsInv, ForwardJob, HasGone
  <2> QED
    BY <2>6, <2>8
<1>4. ~(from \in folders[s] /\ to \in folders[s])
  BY <1>0, <1>1 DEF TreeInv
<1> QED
  BY <1>2, <1>3, <1>4 DEF MoveSprint

\* Nothing remains at the source: the sweep removes nothing.
LEMMA SweepForward ==
  ASSUME TypeInv, TreeInv, JobsInv, NEW p \in Proc, Sweep(p)
  PROVE  TreeInv' /\ JobsInv'
<1> DEFINE s == job[p].sprint
           from == job[p].from
<1>0. /\ ControlOK /\ TasksOK /\ FoldersOK
      /\ s \in Sprint /\ from \in Place /\ from \notin folders[s] /\ pc[p] = "sweep"
  <2>1. JobOK("sweep", job[p]) /\ HasGone("sweep", job[p]) /\ pc[p] = "sweep"
    BY JobInHand DEF Sweep, TypeInv, JobsInv
  <2>2. s \in Sprint /\ from \in Place
    BY <2>1 DEF JobOK, OnTheMove
  <2>3. <<from, from>> \notin Up
    BY UpFacts, Zenon
  <2>4. from \notin folders[s]
    BY <2>1, <2>3, Zenon DEF HasGone
  <2> QED
    BY <2>1, <2>2, <2>4 DEF TypeInv
<1>1. UNCHANGED folders
  BY <1>0 DEF Sweep, FoldersOK
<1>2. UNCHANGED inner
  <2>1. from \notin inner[s]
    BY <1>0 DEF TreeInv
  <2> QED
    BY <1>0, <2>1 DEF Sweep, FoldersOK
<1>3. \A t \in Task : files'[t].dir = files[t].dir
  BY <1>0 DEF Sweep, TreeInv
<1>4. JobsInv'
  BY <1>0, <1>1, GotoForward DEF Sweep, OnTheMove
<1> QED
  BY <1>1, <1>2, <1>3, <1>4, TreeKept

\* A Task leaves its Sprint: its file goes to works/tasks, or back to where it was
\* when that folder is still there.
LEMMA LeaveForward ==
  ASSUME TypeInv, TreeInv, JobsInv, NEW p \in Proc,
         \/ Rename(p) \/ Tag(p) \/ List(p) \/ EditRow(p) \/ SetSprint(p) \/ SetPath(p)
         \/ DropRow(p) \/ Relist(p) \/ Untag(p) \/ PutBack(p)
  PROVE  TreeInv' /\ JobsInv'
<1> DEFINE t == job[p].task
<1>0. pc[p] \in Assigning
  BY DEF Rename, Tag, List, EditRow, SetSprint, SetPath, DropRow, Relist, Untag, PutBack,
         Assigning
<1>1. /\ ControlOK /\ TasksOK /\ FoldersOK
      /\ t \in Task /\ job[p].cmd = "unassign" /\ New(p) = Unassigned
      /\ job[p].old \in Dirs /\ job[p].old # Removed /\ files \in [Task -> Records]
  <2>1. ForwardJob(pc[p], job[p]) /\ pc[p] # "idle"
    BY <1>0 DEF JobsInv, Assigning
  <2> QED
    BY <1>0, <2>1, AssigningFacts DEF ForwardJob, New, TasksOK
<1>2. UNCHANGED <<folders, inner>>
  BY <1>1 DEF Rename, Tag, List, EditRow, SetSprint, SetPath, DropRow, Relist, Untag,
              PutBack, disk
<1>3. \/ \A u \in Task : files'[u].dir = files[u].dir
      \/ /\ files' = [files EXCEPT ![t].dir = Unassigned]
      \/ /\ job[p].old = Unassigned \/ job[p].old.place \in folders[job[p].old.sprint]
         /\ files' = [files EXCEPT ![t].dir = job[p].old]
  <2>1. CASE Rename(p) \/ PutBack(p)
    BY <1>1, <2>1 DEF Rename, PutBack
  <2>2. CASE Tag(p) \/ Untag(p)
    <3>1. UNCHANGED files \/ \E x : files' = [files EXCEPT ![t].sprint = x]
      BY <2>2 DEF Tag, Untag
    <3>2. ASSUME NEW x, files' = [files EXCEPT ![t].sprint = x], NEW u \in Task
          PROVE  files'[u].dir = files[u].dir
      <4>1. files[u] \in Records
        BY <1>1
      <4>2. [files[u] EXCEPT !.sprint = x].dir = files[u].dir
        BY <4>1 DEF Records
      <4>3. files'[u] = IF u = t THEN [files[u] EXCEPT !.sprint = x] ELSE files[u]
        BY <1>1, <3>2
      <4> QED
        BY <4>2, <4>3
    <3> QED
      BY <3>1, <3>2
  <2>3. CASE UNCHANGED files
    BY <2>3
  <2>4. UNCHANGED files \/ Rename(p) \/ PutBack(p) \/ Tag(p) \/ Untag(p)
    BY DEF List, EditRow, SetSprint, SetPath, DropRow, Relist, disk
  <2> QED
    BY <2>1, <2>2, <2>3, <2>4
<1>4. ASSUME NEW d \in Dirs, d # Removed, files' = [files EXCEPT ![t].dir = d],
             \A s \in Sprint : d.sprint = s /\ d.place \in Place => d.place \in folders[s]
      PROVE  TreeInv'
  <2>1. ASSUME NEW u \in Task
        PROVE  files'[u].dir = IF u = t THEN d ELSE files[u].dir
    <3>1. files[u] \in Records
      BY <1>1
    <3>2. [files[u] EXCEPT !.dir = d].dir = d
      BY <3>1 DEF Records
    <3>3. files'[u] = IF u = t THEN [files[u] EXCEPT !.dir = d] ELSE files[u]
      BY <1>1, <1>4
    <3> QED
      BY <3>2, <3>3
  <2>2. \A s \in Sprint : inner'[s] = {} /\ \A l, m \in folders'[s] : l = m
    BY <1>2 DEF TreeInv
  <2>3. \A u \in Task : files'[u].dir # Removed
    BY <1>4, <2>1 DEF TreeInv
  <2>4. \A u \in Task, s \in Sprint :
           files'[u].dir.sprint = s /\ files'[u].dir.place \in Place
              => files'[u].dir.place \in folders'[s]
    BY <1>2, <1>4, <2>1 DEF TreeInv
  <2> QED
    BY <2>2, <2>3, <2>4 DEF TreeInv, Removed
<1>5. \A s \in Sprint : Unassigned.sprint = s /\ Unassigned.place \in Place
                           => Unassigned.place \in folders[s]
  BY DEF Unassigned, Place
<1>6. TreeInv'
  BY <1>1, <1>2, <1>3, <1>4, <1>5, DirsType, TreeKept DEF Unassigned, Removed
<1>7. \/ Return(p)
      \/ \E l \in Assigning : Goto(p, l)
      \/ \E l \in Assigning : \E c : Continue(p, l, Achieved(p, c))
  BY DEF Rename, Tag, List, EditRow, SetSprint, SetPath, DropRow, Relist, Untag, PutBack,
         Recovers, Assigning
<1>8. JobsInv'
  BY <1>0, <1>1, <1>2, <1>7, ReturnForward, GotoForward, GoesOn, SameUpdates
  DEF Achieved, Assigning, OnTheMove
<1> QED
  BY <1>6, <1>8

LEMMA OneInvInit == Init => OneInv
<1> SUFFICES ASSUME Init PROVE TreeInv /\ JobsInv
  BY DEF OneInv
<1>1. JobsInv
  BY DEF Init, JobsInv, ForwardJob, HasGone, OnTheMove
<1>2. \A s \in Sprint : inner[s] = {} /\ \A l, m \in folders[s] : l = m
  BY DEF Init
<1>3. ASSUME NEW t \in Task
      PROVE  /\ files[t].dir # Removed
             /\ \A s \in Sprint : files[t].dir.sprint = s /\ files[t].dir.place \in Place
                                     => files[t].dir.place \in folders[s]
  <2>1. files[t].dir = IF Enrolled[t] = NoSprint THEN Unassigned
                       ELSE Folder("backlog", Enrolled[t])
    BY <1>3 DEF Init
  <2>2. Enrolled[t] \in Created \cup {NoSprint}
    BY SprintAssumption
  <2> QED
    BY <2>1, <2>2 DEF Init, Unassigned, Folder, Removed, Place
<1> QED
  BY <1>1, <1>2, <1>3 DEF TreeInv

LEMMA SameMenu == [Next]_vars => UNCHANGED menu
<1>1. ASSUME NEW p \in Proc, Begin(p) PROVE menu' = menu
  BY <1>1
  DEF Begin, SprintCreate, SprintStart, SprintComplete, SprintDiscard, SprintUpdate,
      SprintReconcile, TaskAssign, TaskUnassign, BeginCreate, BeginStart, BeginComplete,
      BeginDiscard, BeginUpdate, BeginReconcile, BeginAssign, BeginUnassign, Continue
<1>2. ASSUME NEW p \in Proc, Step(p) PROVE menu' = menu
  <2>1. CASE \/ CreateFolder(p) \/ WriteDocument(p) \/ SaveToDB(p) \/ Collect(p)
             \/ WriteFrontmatter(p) \/ ReturnTask(p) \/ MoveSprint(p) \/ Sweep(p)
             \/ Stamp(p) \/ Record(p)
    BY <2>1 DEF CreateFolder, WriteDocument, SaveToDB, Collect, WriteFrontmatter,
                ReturnTask, MoveSprint, Sweep, Stamp, Record, Return, Goto, Continue
  <2>2. CASE \/ UpdateTaskPathsForSprint(p) \/ ListFiles(p) \/ Bind(p) \/ BindSprint(p)
             \/ BindPath(p) \/ ListForSync(p) \/ ForceStatus(p) \/ UpdateCurrentFocus(p)
    BY <2>2 DEF UpdateTaskPathsForSprint, ListFiles, Bind, BindSprint, BindPath,
                ListForSync, ForceStatus, UpdateCurrentFocus, Return, Goto, Continue
  <2>3. CASE \/ Compare(p) \/ ListDrift(p) \/ HealDrift(p) \/ Rename(p) \/ Tag(p)
             \/ List(p) \/ EditRow(p)
    BY <2>3 DEF Compare, ListDrift, HealDrift, Rename, Tag, List, EditRow, Return, Goto,
                Continue
  <2>4. CASE \/ SetSprint(p) \/ SetPath(p) \/ DropRow(p) \/ Relist(p) \/ Untag(p)
             \/ PutBack(p)
    BY <2>4 DEF SetSprint, SetPath, DropRow, Relist, Untag, PutBack, Return, Goto, Continue
  <2> QED
    BY <1>2, <2>1, <2>2, <2>3, <2>4 DEF Step
<1>3. ASSUME NEW p \in Proc, Crash(p) PROVE menu' = menu
  BY <1>3 DEF Crash, Return, Goto, Continue
<1>4. ASSUME NEW t \in Task, Progress(t) PROVE menu' = menu
  BY <1>4 DEF Progress
<1> QED
  BY <1>1, <1>2, <1>3, <1>4 DEF Next, vars

LEMMA OneInvStep == TypeInv /\ OneInv /\ [Next]_vars => OneInv'
<1> SUFFICES ASSUME TypeInv, OneInv, [Next]_vars, menu' \subseteq Forward
             PROVE  TreeInv' /\ JobsInv'
  BY DEF OneInv
<1>0. menu' = menu
  BY SameMenu
<1>1. TreeInv /\ JobsInv /\ menu \subseteq Forward /\ ControlOK
  BY <1>0 DEF OneInv, TypeInv
<1>2. ASSUME NEW p \in Proc, Begin(p) PROVE TreeInv' /\ JobsInv'
  BY <1>1, <1>2, BeginForward
<1>3. ASSUME NEW p \in Proc, Step(p) PROVE TreeInv' /\ JobsInv'
  <2>1. ~(CreateFolder(p) \/ WriteDocument(p) \/ Compare(p) \/ ListDrift(p) \/ HealDrift(p))
    <3>1. JobOK(pc[p], job[p]) /\ ForwardJob(pc[p], job[p])
      BY <1>1, JobInHand DEF JobsInv
    <3> QED
      BY <3>1 DEF JobOK, ForwardJob, CreateFolder, WriteDocument, Compare, ListDrift,
                  HealDrift
  <2> QED
    BY <1>1, <1>3, <2>1, MoverForward, MoveForward, SweepForward, LeaveForward DEF Step
<1>4. ASSUME NEW p \in Proc, Crash(p) PROVE TreeInv' /\ JobsInv'
  BY <1>1, <1>4, TreeKept, ReturnForward DEF Crash, disk
<1>5. ASSUME NEW t \in Task, Progress(t) PROVE TreeInv' /\ JobsInv'
  <2>1. JobsInv'
    BY <1>1, <1>5 DEF Progress, control, JobsInv, ForwardJob, HasGone
  <2>2. PICK st : files' = [files EXCEPT ![t].status = st]
    BY <1>5 DEF Progress
  <2>3. files \in [Task -> Records]
    BY DEF TypeInv, TasksOK
  <2>4. ASSUME NEW u \in Task PROVE files'[u].dir = files[u].dir
    <3>1. [files[u] EXCEPT !.status = st].dir = files[u].dir
      BY <2>3 DEF Records
    <3>2. files'[u] = IF u = t THEN [files[u] EXCEPT !.status = st] ELSE files[u]
      BY <2>2, <2>3
    <3> QED
      BY <3>1, <3>2
  <2> QED
    BY <1>1, <1>5, <2>1, <2>4, TreeKept DEF Progress
<1>6. ASSUME UNCHANGED vars PROVE TreeInv' /\ JobsInv'
  BY <1>1, <1>6 DEF vars, TreeInv, JobsInv, ForwardJob, HasGone
<1> QED
  BY <1>2, <1>3, <1>4, <1>5, <1>6 DEF Next

\* Processes that only start, complete and update Sprints and take Tasks out of
\* them never leave two folders of a Sprint nor remove the file of a Task, however
\* many there are and whatever fails or crashes: a folder only moves up, so what
\* sprint complete or start sweeps is never the place it has moved on to.
THEOREM OneFolderAlways == Spec => []OneFolder
<1>1. TypeInv /\ OneInv => OneFolder
  BY DEF OneInv, TreeInv, OneFolder
<1>2. Spec => []TypeInv
  BY TypeInvInit, TypeInvStep, PTL DEF Spec
<1> QED
  BY <1>1, <1>2, OneInvInit, OneInvStep, PTL DEF Spec
-----------------------------------------------------------------------------
(* The promise.  One command runs at a time, no status is forced or written*)
(* to the database only, and a menu with assign comes with one fault.      *)

OneByOne == \A p, q \in Proc : p = q
Unforced == \A m \in Menus : /\ "force" \notin m /\ "db-only" \notin m
                             /\ "assign" \in m => MaxFaults <= 1

Moves == Promise!Moves

\* A Sprint has one folder, with its SPRINT.md: where its row says, or one move
\* ahead of it.
Located(s) ==
  /\ inner[s] = {}
  /\ \A l \in Place : HasDoc(s, l) => docs[s][l].status # "none"
  /\ sprints[s].status = "none" => /\ folders[s] \subseteq {"backlog"}
                                   /\ \A l \in Place : HasDoc(s, l) => l \in folders[s]
  /\ sprints[s].status # "none" =>
       \E l \in Place : /\ folders[s] = {l}
                        /\ \A m \in Place : HasDoc(s, m) <=> m = l
                        /\ l = sprints[s].status \/ <<sprints[s].status, l>> \in Moves

Before == {"collect", "return", "frontmatter", "move"}
Moved  == {"sweep", "stamp", "record"}
After  == {"paths", "list", "bind", "bind-sprint", "bind-path", "sync", "force", "focus"}
Binding == {"bind", "bind-sprint", "bind-path"}

\* It is ahead only while a command moves it, or after a fault.
Settled(s) ==
  faults = 0 /\ sprints[s].status # "none" =>
     \/ folders[s] = {sprints[s].status}
     \/ \E p \in Proc : pc[p] \in Moved /\ job[p].sprint = s

\* What a command relies on between two of its steps.
SaveReady(p) ==
  LET j == job[p]
      s == j.sprint
  IN  /\ pc[p] # "idle" => j.cmd # "force"
      /\ pc[p] \in {"folder", "document"} => sprints[s].status = "none"
      /\ pc[p] = "save" /\ j.cmd = "create" =>
            sprints[s].status = "none" /\ HasDoc(s, "backlog")
      /\ pc[p] # "idle" /\ j.cmd = "update" =>
            j.row = sprints[s] /\ sprints[s].status # "none"
      /\ pc[p] # "idle" /\ j.cmd = "reconcile" =>
            j.row.status \in Place /\ HasDoc(s, j.row.status)

MoveReady(p) ==
  LET j == job[p]
      s == j.sprint
  IN  /\ pc[p] # "db-only"
      /\ pc[p] \in Before \cup Moved =>
            sprints[s].status = j.from /\ <<j.from, j.to>> \in Moves
      /\ pc[p] \in Moved => folders[s] = {j.to}
      /\ pc[p] \in After => sprints[s].status = j.to
      /\ pc[p] \in OnTheMove => (j.cmd = "complete" <=> j.to = "completed")
      /\ pc[p] \in {"sync", "force"} => j.cmd = "complete"

BindReady(p) ==
  LET j == job[p]
      d == Folder(j.to, j.sprint)
  IN  /\ pc[p] \in Binding => \A e \in j.todo : e.dir = d /\ files[e.task].dir = d
      /\ pc[p] = "bind-sprint" => files[j.task].dir = d
      /\ pc[p] = "force" => \A e \in j.todo : tasks[e.task].sprint = j.sprint
      /\ pc[p] = "return" => /\ j.cmd = "return"
                             /\ \A e \in j.todo : tasks[e.task].sprint \in {j.sprint, NoSprint}

Joining == {"rename", "tag", "unlist", "row", "set-sprint"}
Placed  == {"tag", "unlist", "row", "set-sprint", "set-path"}
Undoing == {"drop-row", "relist", "untag", "put-back"}

AssignReady(p) ==
  LET j == job[p]
      s == j.sprint
      t == j.task
  IN  /\ pc[p] \in Assigning /\ j.cmd = "assign" =>
            /\ sprints[s].status # "none" /\ folders[s] = {j.from}
            /\ tasks[t].sprint \in {s, NoSprint}
            /\ pc[p] \in Joining => tasks[t].sprint = NoSprint
            /\ pc[p] = "set-path" => tasks[t].sprint = s
            /\ faults = 0 \/ pc[p] \in Undoing => j.old = Unassigned
            /\ MaxFaults <= 1
      /\ pc[p] \in Assigning /\ j.cmd = "unassign" =>
            /\ tasks[t].sprint \in {s, NoSprint}
            /\ j.old = Unassigned \/ \E l \in Place : j.old = Folder(l, s)
      /\ pc[p] \in Placed => files[t].dir = New(p)
      /\ pc[p] = "rename" => files[t].dir = j.old
      /\ pc[p] \in Undoing => faults # 0

\* The file of a Task is in works/tasks or in the folder of the Sprint its row
\* names; while the row names none, in that of any Sprint.
FileKept(t) ==
  /\ \/ files[t].dir = Unassigned
     \/ \E s \in Sprint, l \in Place : l \in folders[s] /\ files[t].dir = Folder(l, s)
  /\ files[t].dir = Unassigned \/ tasks[t].sprint \in {files[t].dir.sprint, NoSprint}

\* Without a fault, the latter lasts no longer than a command does.
Half(t) == tasks[t].sprint = NoSprint /\ files[t].dir # Unassigned
Awaits(p, t) ==
  \/ pc[p] \in Assigning /\ job[p].cmd = "assign" /\ job[p].task = t
  \/ /\ pc[p] \in {"return", "move", "sweep", "stamp", "record", "paths", "list"}
     /\ job[p].cmd = "return" /\ files[t].dir.sprint = job[p].sprint
  \/ pc[p] \in Binding /\ \E e \in job[p].todo : e.task = t
  \/ pc[p] = "bind-sprint" /\ job[p].task = t
HalfAwaited == faults = 0 => \A t \in Task : Half(t) => \E p \in Proc : Awaits(p, t)

SprintsKept == \A s \in Sprint : Located(s) /\ Settled(s)
CommandsReady == \A p \in Proc : SaveReady(p) /\ MoveReady(p) /\ BindReady(p) /\ AssignReady(p)
TasksKept == (\A t \in Task : FileKept(t)) /\ HalfAwaited
PromiseInv == SprintsKept /\ CommandsReady /\ TasksKept

LEMMA DirFacts ==
  /\ Unassigned.sprint = NoSprint /\ Unassigned.place = "tasks"
  /\ \A l, s : Folder(l, s).sprint = s /\ Folder(l, s).place = l
  /\ \A l \in Place, s \in Sprint : Folder(l, s) # Unassigned
<1>1. Unassigned.sprint = NoSprint /\ Unassigned.place = "tasks"
  BY DEF Unassigned
<1>2. \A l, s : Folder(l, s).sprint = s /\ Folder(l, s).place = l
  BY DEF Folder
<1>3. ASSUME NEW l, NEW s \in Sprint, Folder(l, s) = Unassigned PROVE FALSE
  BY <1>1, <1>2, <1>3, SprintAssumption
<1> QED
  BY <1>1, <1>2, <1>3

LEMMA PromiseInvInit == Init => PromiseInv
<1> SUFFICES ASSUME Init PROVE PromiseInv
  OBVIOUS
<1>1. ASSUME NEW p \in Proc
      PROVE  SaveReady(p) /\ MoveReady(p) /\ BindReady(p) /\ AssignReady(p)
  <2>1. pc[p] = "idle"
    BY DEF Init
  <2> QED
    BY <2>1 DEF SaveReady, MoveReady, BindReady, AssignReady, Before, Moved, After,
                OnTheMove, Binding, Assigning, Placed, Undoing
<1>2. ASSUME NEW s \in Sprint PROVE Located(s) /\ Settled(s)
  <2>1. sprints[s] = IF s \in Created THEN NewRow ELSE NoJob.row
    BY DEF Init
  <2>2. sprints[s].status = IF s \in Created THEN "backlog" ELSE "none"
    BY <2>1 DEF NewRow, NoJob
  <2>3. folders[s] = (IF s \in Created THEN {"backlog"} ELSE {}) /\ inner[s] = {}
    BY DEF Init
  <2>4. ASSUME NEW l \in Place
        PROVE  /\ HasDoc(s, l) <=> s \in Created /\ l = "backlog"
               /\ HasDoc(s, l) => docs[s][l].status # "none"
    <3>1. docs[s][l] = IF s \in Created /\ l = "backlog"
                       THEN [NewDoc EXCEPT !.rows = {t \in Task : Enrolled[t] = s}] ELSE NoDoc
      BY DEF Init
    <3>2. [NewDoc EXCEPT !.rows = {t \in Task : Enrolled[t] = s}].status = "backlog"
          /\ NoDoc.status = "none"
      BY DEF NewDoc, NoDoc
    <3> QED
      BY <3>1, <3>2 DEF HasDoc
  <2> QED
    BY <2>2, <2>3, <2>4 DEF Located, Settled, Place
<1>3. ASSUME NEW t \in Task PROVE FileKept(t) /\ ~Half(t)
  <2>1. /\ tasks[t] = [status |-> "todo", sprint |-> Enrolled[t],
                       dir |-> IF Enrolled[t] = NoSprint THEN Unassigned
                               ELSE Folder("backlog", Enrolled[t])]
        /\ files = tasks
    BY DEF Init
  <2>2. Enrolled[t] \in Created \cup {NoSprint} /\ Created \subseteq Sprint
    BY SprintAssumption
  <2>3. CASE Enrolled[t] = NoSprint
    BY <2>1, <2>3 DEF FileKept, Half
  <2>4. CASE Enrolled[t] # NoSprint
    <3>1. files[t].dir = Folder("backlog", Enrolled[t]) /\ tasks[t].sprint = Enrolled[t]
      BY <2>1, <2>4
    <3>2. Enrolled[t] \in Sprint /\ "backlog" \in folders[Enrolled[t]] /\ "backlog" \in Place
      BY <2>2, <2>4 DEF Init, Place
    <3> QED
      BY <2>4, <3>1, <3>2, DirFacts DEF FileKept, Half
  <2> QED
    BY <2>3, <2>4
<1> QED
  BY <1>1, <1>2, <1>3 DEF PromiseInv, SprintsKept, CommandsReady, TasksKept, HalfAwaited
\* A step that leaves every row's Sprint and status, every folder, every SPRINT.md
\* and every file where it is.
SameTree == /\ UNCHANGED <<sprints, folders, inner>>
            /\ \A s \in Sprint, l \in Place :
                  /\ HasDoc(s, l)' <=> HasDoc(s, l)
                  /\ HasDoc(s, l) => docs'[s][l].status # "none"
SameTasks == /\ \A t \in Task : tasks'[t].sprint = tasks[t].sprint
             /\ \A t \in Task : files'[t].dir = files[t].dir

LEMMA TreeStays ==
  ASSUME SprintsKept, SameTree
  PROVE  \A s \in Sprint : Located(s)'
<1>1. ASSUME NEW s \in Sprint PROVE Located(s)'
  <2>1. Located(s)
    BY DEF SprintsKept
  <2> QED
    BY <2>1 DEF Located, SameTree
<1> QED
  BY <1>1

LEMMA TasksStay ==
  ASSUME TasksKept, SameTasks, UNCHANGED folders
  PROVE  /\ \A t \in Task : FileKept(t)'
         /\ \A t \in Task : Half(t)' <=> Half(t)
<1>1. ASSUME NEW t \in Task
      PROVE  FileKept(t)' /\ (Half(t)' <=> Half(t))
  <2>1. FileKept(t) /\ tasks'[t].sprint = tasks[t].sprint /\ files'[t].dir = files[t].dir
    BY DEF TasksKept, SameTasks
  <2> QED
    BY <2>1 DEF FileKept, Half
<1> QED
  BY <1>1

LEMMA FaultFacts ==
  ASSUME TypeInv, Fault \/ Works
  PROVE  /\ Fault => faults' # 0 /\ faults < MaxFaults /\ ~Works
         /\ Works => faults' = faults
         /\ faults' = 0 => faults = 0 /\ Works
         /\ faults' \in Nat /\ faults \in Nat /\ MaxFaults \in Nat
  BY SprintAssumption DEF Fault, Works, TypeInv, ControlOK

\* What remains to be shown of a step that leaves the tree and the Tasks as they are.
LEMMA QuietStep ==
  ASSUME OneByOne, TypeInv, PromiseInv, SameTree, SameTasks, NEW p \in Proc, Fault \/ Works,
         SaveReady(p)' /\ MoveReady(p)' /\ BindReady(p)' /\ AssignReady(p)',
         faults' = 0 /\ pc[p] \in Moved => pc'[p] \in Moved /\ job'[p].sprint = job[p].sprint,
         faults' = 0 => \A t \in Task : Half(t) /\ Awaits(p, t) => Awaits(p, t)'
  PROVE  PromiseInv'
<1>1. CommandsReady'
  BY DEF CommandsReady, OneByOne
<1>2. \A s \in Sprint : Located(s)'
  BY TreeStays DEF PromiseInv
<1>3. ASSUME NEW s \in Sprint PROVE Settled(s)'
  <2>1. Settled(s) /\ UNCHANGED <<sprints, folders>>
    BY DEF PromiseInv, SprintsKept, SameTree
  <2>2. SUFFICES ASSUME faults' = 0, sprints[s].status # "none",
                        folders[s] # {sprints[s].status}
                 PROVE  \E q \in Proc : pc'[q] \in Moved /\ job'[q].sprint = s
    BY <2>1 DEF Settled, Moved
  <2>3. pc[p] \in Moved /\ job[p].sprint = s
    BY <2>1, <2>2, FaultFacts DEF Settled, OneByOne
  <2> QED
    BY <2>2, <2>3, FaultFacts
<1>4. (\A t \in Task : FileKept(t)' /\ (Half(t)' <=> Half(t)))
  BY TasksStay DEF PromiseInv, SameTree
<1>5. HalfAwaited'
  <2>1. ASSUME faults' = 0, NEW t \in Task, Half(t)'
        PROVE  Awaits(p, t)'
    <3>1. Half(t) /\ faults = 0 /\ Works
      BY <1>4, <2>1, FaultFacts
    <3>2. Awaits(p, t)
      BY <3>1 DEF PromiseInv, TasksKept, HalfAwaited, OneByOne
    <3> QED
      BY <2>1, <3>1, <3>2
  <2>2. ASSUME faults' = 0, NEW t \in Task, Half(t)'
        PROVE  \E q \in Proc : Awaits(q, t)'
    BY <2>1, <2>2
  <2> QED
    BY <2>2 DEF HalfAwaited
<1> QED
  BY <1>1, <1>2, <1>3, <1>4, <1>5 DEF PromiseInv, SprintsKept, TasksKept

LEMMA IdleReady ==
  ASSUME TypeInv, NEW p \in Proc, Return(p)
  PROVE  SaveReady(p)' /\ MoveReady(p)' /\ BindReady(p)' /\ AssignReady(p)'
<1>1. pc'[p] = "idle"
  BY DEF TypeInv, ControlOK, Return, Goto, Continue
<1> QED
  BY <1>1 DEF SaveReady, MoveReady, BindReady, AssignReady, Before, Moved, After, OnTheMove,
              Binding, Assigning, Placed, Undoing

LEMMA QuietReturn ==
  ASSUME OneByOne, TypeInv, PromiseInv, SameTree, SameTasks, NEW p \in Proc, Return(p),
         Fault \/ Works,
         faults' = 0 => pc[p] \notin Moved /\ \A t \in Task : ~(Half(t) /\ Awaits(p, t))
  PROVE  PromiseInv'
<1>1. SaveReady(p)' /\ MoveReady(p)' /\ BindReady(p)' /\ AssignReady(p)'
  BY IdleReady
<1>2. faults' = 0 => \A t \in Task : Half(t) /\ Awaits(p, t) => Awaits(p, t)'
  OBVIOUS
<1> QED
  BY <1>1, <1>2, QuietStep

\* A step that changes neither documents nor directories does so in particular.
LEMMA SameDocs ==
  ASSUME PromiseInv, UNCHANGED <<sprints, folders, inner, docs>>
  PROVE  SameTree
  BY DEF PromiseInv, SprintsKept, Located, SameTree, HasDoc, NoDoc

\* The promise is about these values only.
SamePromise == /\ \A s \in Sprint : sprints'[s].status = sprints[s].status
               /\ \A t \in Task : /\ tasks'[t].sprint = tasks[t].sprint
                                  /\ tasks'[t].status = tasks[t].status

LEMMA PromiseStutters ==
  ASSUME SamePromise
  PROVE  UNCHANGED Promise!vars
  BY DEF SamePromise, Promise!vars
Promised == PromiseInv' /\ [Promise!Next]_(Promise!vars)

LEMMA Now ==
  ASSUME TypeInv, NEW p \in Proc, NEW l, NEW j, Continue(p, l, j), l # "idle"
  PROVE  pc'[p] = l /\ job'[p] = j
  BY DEF TypeInv, ControlOK, Continue

LEMMA QuietPromised ==
  ASSUME PromiseInv', SamePromise
  PROVE  Promised
  BY PromiseStutters DEF Promised

\* Which promises do not concern a command, by where it is.
LEMMA ReadyOnTheMove ==
  ASSUME TypeInv', NEW p \in Proc, pc'[p] \in OnTheMove
  PROVE  SaveReady(p)' /\ AssignReady(p)'
<1>1. job'[p].cmd \in Movers
  BY DEF TypeInv, ControlOK, JobOK
<1> QED
  BY <1>1 DEF SaveReady, AssignReady, OnTheMove, Movers, Assigning, Placed, Undoing

LEMMA ReadyAssigning ==
  ASSUME TypeInv', NEW p \in Proc, pc'[p] \in Assigning
  PROVE  SaveReady(p)' /\ MoveReady(p)' /\ BindReady(p)'
<1>1. job'[p].cmd \in {"assign", "unassign"}
  BY DEF TypeInv, ControlOK, JobOK, Assigning
<1> QED
  BY <1>1 DEF SaveReady, MoveReady, BindReady, OnTheMove, Assigning, Before, Moved, After,
              Binding

LEMMA ReadySaving ==
  ASSUME NEW p \in Proc,
         pc'[p] \in {"folder", "document", "save", "compare", "drift", "heal"}
  PROVE  MoveReady(p)' /\ BindReady(p)' /\ AssignReady(p)'
  BY DEF MoveReady, BindReady, AssignReady, OnTheMove, Assigning, Before, Moved, After,
         Binding, Placed, Undoing

LEMMA AloneAwaits ==
  ASSUME OneByOne, PromiseInv, faults = 0, NEW p \in Proc, NEW t \in Task, Half(t)
  PROVE  Awaits(p, t)
  BY DEF PromiseInv, TasksKept, HalfAwaited, OneByOne

LEMMA BeginPromised ==
  ASSUME OneByOne, Unforced, TypeInv, TypeInv', PromiseInv, NEW p \in Proc, Begin(p)
  PROVE  Promised
<1>0. /\ ControlOK /\ TasksOK /\ pc[p] = "idle" /\ UNCHANGED <<sprints, disk>> /\ Works
      /\ menu \in Menus
  BY DEF TypeInv, ControlOK, Begin, SprintCreate, SprintStart, SprintComplete,
         SprintDiscard, SprintUpdate, SprintReconcile, TaskAssign, TaskUnassign,
         BeginCreate, BeginStart, BeginComplete, BeginDiscard, BeginUpdate,
         BeginReconcile, BeginAssign, BeginUnassign, Starts, Works, database
<1>1. SameTree
  BY <1>0, SameDocs DEF disk
<1>2. \A t \in Task : /\ tasks'[t].sprint = tasks[t].sprint
                      /\ tasks'[t].status = tasks[t].status
  <2>1. UNCHANGED tasks
        \/ \E t \in Task : tasks' = [tasks EXCEPT ![t].dir = files[t].dir]
    BY DEF Begin, SprintCreate, SprintStart, SprintComplete,
           SprintDiscard, SprintUpdate, SprintReconcile, TaskAssign, TaskUnassign,
           BeginCreate, BeginStart, BeginComplete, BeginDiscard, BeginUpdate,
           BeginReconcile, BeginAssign, BeginUnassign, ResolveTaskPath, database
  <2>2. ASSUME NEW t \in Task, tasks' = [tasks EXCEPT ![t].dir = files[t].dir], NEW u \in Task
        PROVE  tasks'[u].sprint = tasks[u].sprint /\ tasks'[u].status = tasks[u].status
    <3> DEFINE g == [tasks[u] EXCEPT !.dir = files[t].dir]
    <3>1. tasks \in [Task -> Records] /\ tasks[u] \in Records
      BY <1>0 DEF TasksOK
    <3>2. g.sprint = tasks[u].sprint /\ g.status = tasks[u].status
      BY <3>1 DEF Records
    <3>3. u = t => tasks'[u] = g
      BY <2>2, <3>1
    <3>4. u # t => tasks'[u] = tasks[u]
      BY <2>2, <3>1
    <3> QED
      BY <3>2, <3>3, <3>4
  <2> QED
    BY <2>1, <2>2
<1>3. SameTasks /\ SamePromise
  BY <1>0, <1>2 DEF SameTasks, SamePromise, disk
<1>4. \A t \in Task : ~Awaits(p, t)
  BY <1>0 DEF Awaits, Assigning, Binding
<1>5. ASSUME SaveReady(p)' /\ MoveReady(p)' /\ BindReady(p)' /\ AssignReady(p)'
      PROVE  Promised
  BY <1>0, <1>1, <1>3, <1>4, <1>5, QuietStep, QuietPromised DEF Moved
<1>6. ASSUME NEW s \in Sprint PROVE Located(s) /\ sprints[s].status \in Place \cup {"none"}
  BY <1>0 DEF PromiseInv, SprintsKept, TasksOK, Rows, Status
<1>7. ASSUME NEW s \in Sprint, BeginCreate(p, s) PROVE Promised
  <2>1. sprints[s].status = "none"
    BY <1>6, <1>7 DEF BeginCreate, Located
  <2>2. pc'[p] = "folder" /\ job'[p] = Issue(p, "create", s, NoTask)
    BY <1>7, Now DEF BeginCreate
  <2>3. job'[p].cmd = "create" /\ job'[p].sprint = s
    BY <2>2 DEF Issue, NoJob
  <2>4. SaveReady(p)'
    BY <1>0, <2>1, <2>2, <2>3 DEF SaveReady
  <2> QED
    BY <1>5, <2>2, <2>4, ReadySaving
<1>8. ASSUME NEW s \in Sprint, NEW cmd \in Movers \ {"db-only"},
             NEW l \in {"collect", "move"}, NEW to \in Place,
             sprints[s].status \in Place,
             <<sprints[s].status, to>> \in Moves, cmd = "complete" <=> to = "completed",
             Continue(p, l, Moving(p, cmd, s, to))
      PROVE  Promised
  <2>1. pc'[p] = l /\ job'[p] = Moving(p, cmd, s, to)
    BY <1>8, Now
  <2>2. /\ job'[p].cmd = cmd /\ job'[p].sprint = s
        /\ job'[p].from = sprints[s].status /\ job'[p].to = to
    BY <2>1 DEF Moving, Issue, NoJob
  <2>3. MoveReady(p)' /\ BindReady(p)'
    BY <1>0, <1>8, <2>1, <2>2
    DEF MoveReady, BindReady, Before, Moved, After, OnTheMove, Binding
  <2>4. pc'[p] \in OnTheMove
    BY <2>1 DEF Before, OnTheMove
  <2> QED
    BY <1>5, <2>3, <2>4, ReadyOnTheMove
<1>9. ASSUME NEW s \in Sprint, BeginStart(p, s) PROVE Promised
  <2>1. <<sprints[s].status, "active">> \in Moves
    BY <1>9 DEF BeginStart, Moves, Promise!Moves
  <2> QED
    BY <1>8, <1>9, <2>1 DEF BeginStart, Movers, Before, Place
<1>10. ASSUME NEW s \in Sprint, BeginComplete(p, s) PROVE Promised
  <2>1. sprints[s].status \in Place /\ <<sprints[s].status, "completed">> \in Moves
    BY <1>6, <1>10 DEF BeginComplete, Moves, Promise!Moves, Place
  <2> QED
    BY <1>8, <1>10, <2>1 DEF BeginComplete, Movers, Before, Place
<1>11. ASSUME NEW s \in Sprint, NEW cmd \in {"discard", "return", "db-only"},
              BeginDiscard(p, s, cmd)
       PROVE  Promised
  <2>1. <<sprints[s].status, "discarded">> \in Moves /\ sprints[s].status \in Place
    BY <1>11 DEF BeginDiscard, Moves, Promise!Moves, Place
  <2>2. cmd # "db-only"
    BY <1>0, <1>11 DEF BeginDiscard, Starts, Unforced
  <2>3. \E l \in {"collect", "move"} : Continue(p, l, Moving(p, cmd, s, "discarded"))
    BY <1>11, <2>2 DEF BeginDiscard, Before
  <2> QED
    BY <1>8, <2>1, <2>2, <2>3 DEF Movers, Place
<1>12. ASSUME NEW s \in Sprint, BeginUpdate(p, s) PROVE Promised
  <2>1. Continue(p, "save", [Issue(p, "update", s, NoTask) EXCEPT !.row = sprints[s]])
        /\ sprints[s].status # "none"
    BY <1>0, <1>12 DEF BeginUpdate, Starts, Unforced
  <2>2. pc'[p] = "save"
        /\ job'[p] = [Issue(p, "update", s, NoTask) EXCEPT !.row = sprints[s]]
    BY <2>1, Now
  <2>3. job'[p].cmd = "update" /\ job'[p].sprint = s /\ job'[p].row = sprints[s]
    BY <2>2 DEF Issue, NoJob
  <2>4. SaveReady(p)'
    BY <1>0, <2>1, <2>2, <2>3 DEF SaveReady
  <2> QED
    BY <1>5, <2>2, <2>4, ReadySaving
<1>13. ASSUME NEW s \in Sprint, BeginReconcile(p, s) PROVE Promised
  <2>1. PICK l \in Place :
           /\ HasDoc(s, l)
           /\ Continue(p, "compare", [Issue(p, "reconcile", s, NoTask) EXCEPT
                                        !.row = [status |-> l, folder |-> l]])
    BY <1>13 DEF BeginReconcile, SprintOnDisk, FirstOf
  <2>2. pc'[p] = "compare"
        /\ job'[p] = [Issue(p, "reconcile", s, NoTask) EXCEPT
                        !.row = [status |-> l, folder |-> l]]
    BY <2>1, Now
  <2>3. job'[p].cmd = "reconcile" /\ job'[p].sprint = s /\ job'[p].row.status = l
    BY <2>2 DEF Issue, NoJob
  <2>4. SaveReady(p)'
    BY <1>0, <2>1, <2>2, <2>3 DEF SaveReady, HasDoc, NoDoc, disk
  <2> QED
    BY <1>5, <2>2, <2>4, ReadySaving
<1>14. ASSUME NEW t \in Task, NEW s \in Sprint, BeginAssign(p, t, s) PROVE Promised
  <2>1. PICK l \in Place :
           /\ l \in folders[s]
           /\ Continue(p, "rename", [Issue(p, "assign", s, t) EXCEPT
                                       !.from = l, !.old = files[t].dir])
    BY <1>14 DEF BeginAssign, SprintDir, FirstOf
  <2>2. pc'[p] = "rename"
        /\ job'[p] = [Issue(p, "assign", s, t) EXCEPT !.from = l, !.old = files[t].dir]
    BY <2>1, Now
  <2>3. /\ job'[p].cmd = "assign" /\ job'[p].sprint = s /\ job'[p].task = t
        /\ job'[p].from = l /\ job'[p].old = files[t].dir
    BY <2>2 DEF Issue, NoJob
  <2>4. sprints[s].status # "none" /\ folders[s] = {l} /\ tasks[t].sprint = NoSprint
    BY <1>6, <1>14, <2>1 DEF BeginAssign, Located
  <2>5. faults = 0 => files[t].dir = Unassigned
    BY <1>4, <2>4, AloneAwaits DEF Half
  <2>6. MaxFaults <= 1
    BY <1>0, <1>14 DEF BeginAssign, Starts, Unforced
  <2>7. tasks'[t].sprint = NoSprint
    BY <1>2, <2>4
  <2>8. AssignReady(p)'
    BY <1>0, <2>2, <2>3, <2>4, <2>5, <2>6, <2>7
    DEF AssignReady, Works, disk, Joining, Undoing, Placed, Unassigned
  <2> QED
    BY <1>5, <2>2, <2>8, ReadyAssigning DEF Assigning
<1>15. ASSUME NEW t \in Task, BeginUnassign(p, t) PROVE Promised
  <2> DEFINE s == tasks[t].sprint
  <2>2. pc'[p] = "rename"
        /\ job'[p] = [Issue(p, "unassign", s, t) EXCEPT !.old = files[t].dir]
    BY <1>15, Now DEF BeginUnassign
  <2>3. /\ job'[p].cmd = "unassign" /\ job'[p].sprint = s /\ job'[p].task = t
        /\ job'[p].old = files[t].dir
    BY <2>2 DEF Issue, NoJob
  <2>4. files[t].dir = Unassigned \/ \E l \in Place : files[t].dir = Folder(l, s)
    <3>1. FileKept(t) /\ s # NoSprint
      BY <1>15 DEF PromiseInv, TasksKept, BeginUnassign
    <3> QED
      BY <3>1, DirFacts DEF FileKept
  <2>5. tasks'[t].sprint = s
    BY <1>2
  <2>6. AssignReady(p)'
    BY <1>0, <2>2, <2>3, <2>4, <2>5 DEF AssignReady, Placed, Undoing, Folder, Unassigned, disk
  <2> QED
    BY <1>5, <2>2, <2>6, ReadyAssigning DEF Assigning
<1> QED
  BY <1>7, <1>9, <1>10, <1>11, <1>12, <1>13, <1>14, <1>15
  DEF Begin, SprintCreate, SprintStart, SprintComplete, SprintDiscard, SprintUpdate,
      SprintReconcile, TaskAssign, TaskUnassign

\* A step about one Sprint leaves the others alone.
LEMMA OtherSprints ==
  ASSUME OneByOne, TypeInv, PromiseInv, NEW p \in Proc, Fault \/ Works,
         \A r \in Sprint : r # job[p].sprint =>
            UNCHANGED <<sprints[r], folders[r], inner[r], docs[r]>>,
         \A r \in Sprint : r = job[p].sprint => Located(r)' /\ Settled(r)'
  PROVE  SprintsKept'
<1>1. ASSUME NEW r \in Sprint PROVE Located(r)' /\ Settled(r)'
  <2>1. CASE r = job[p].sprint
    BY <2>1
  <2>2. CASE r # job[p].sprint
    <3>1. UNCHANGED <<sprints[r], folders[r], inner[r], docs[r]>>
      BY <2>2
    <3>2. Located(r) /\ Settled(r)
      BY DEF PromiseInv, SprintsKept
    <3>3. Located(r)'
      <4>1. \A l \in Place : HasDoc(r, l)' <=> HasDoc(r, l)
        BY <3>1 DEF HasDoc, NoDoc
      <4> QED
        BY <3>1, <3>2, <4>1 DEF Located
    <3>4. faults = 0 /\ sprints[r].status # "none" => folders[r] = {sprints[r].status}
      BY <2>2, <3>2 DEF Settled, OneByOne
    <3>5. Settled(r)'
      BY <3>1, <3>4, FaultFacts DEF Settled, Moved
    <3> QED
      BY <3>3, <3>5
  <2> QED
    BY <2>1, <2>2
<1> QED
  BY <1>1 DEF SprintsKept

\* Where no Task is half in a Sprint, none comes to be by a step that leaves the
\* Tasks as they are.
LEMMA TasksAlone ==
  ASSUME OneByOne, TypeInv, PromiseInv, SameTasks, NEW p \in Proc, Fault \/ Works,
         faults' = 0 => \A t \in Task : ~(Half(t) /\ Awaits(p, t)),
         \A s \in Sprint : folders[s] \subseteq folders'[s]
  PROVE  TasksKept'
<1>1. ASSUME NEW t \in Task PROVE FileKept(t)' /\ (Half(t)' <=> Half(t))
  <2>1. FileKept(t) /\ tasks'[t].sprint = tasks[t].sprint /\ files'[t].dir = files[t].dir
    BY DEF PromiseInv, TasksKept, SameTasks
  <2> QED
    BY <2>1 DEF FileKept, Half, Unassigned, Folder
<1>2. ASSUME faults' = 0, NEW t \in Task, Half(t)' PROVE FALSE
  BY <1>1, <1>2, AloneAwaits, FaultFacts
<1> QED
  BY <1>1, <1>2 DEF TasksKept, HalfAwaited

LEMMA Advances ==
  ASSUME TypeInv, NEW s \in Sprint, NEW r, sprints' = [sprints EXCEPT ![s] = r],
         r.status \in Place,
         r.status = sprints[s].status \/ <<sprints[s].status, r.status>> \in Moves,
         UNCHANGED tasks
  PROVE  [Promise!Next]_(Promise!vars)
<1> DEFINE status == [q \in Sprint |-> sprints[q].status]
<1>1. /\ [q \in Sprint |-> sprints'[q].status] = [status EXCEPT ![s] = r.status]
      /\ status[s] = sprints[s].status
  BY DEF TypeInv, TasksOK
<1>2. CASE <<sprints[s].status, r.status>> \in Moves
  <2>1. Promise!Advance(s)
    BY <1>1, <1>2 DEF Promise!Advance, Moves, Place
  <2> QED
    BY <2>1 DEF Promise!Next
<1>3. CASE r.status = sprints[s].status
  <2>1. SamePromise
    BY <1>3 DEF SamePromise, TypeInv, TasksOK
  <2> QED
    BY <2>1, PromiseStutters
<1> QED
  BY <1>2, <1>3

LEMMA CreatePromised ==
  ASSUME OneByOne, Unforced, TypeInv, TypeInv', PromiseInv, NEW p \in Proc,
         CreateFolder(p) \/ WriteDocument(p) \/ SaveToDB(p)
  PROVE  Promised
<1>0. PICK s \in Sprint :
         /\ s = job[p].sprint
         /\ ControlOK /\ TasksOK /\ FoldersOK
         /\ JobOK(pc[p], job[p]) /\ SaveReady(p) /\ Located(s)
         /\ Fault \/ Works
  <2>1. ControlOK /\ TasksOK /\ FoldersOK /\ pc[p] # "idle" /\ JobOK(pc[p], job[p])
    BY JobInHand DEF TypeInv, CreateFolder, WriteDocument, SaveToDB
  <2>2. job[p].sprint \in Sprint
    BY <2>1 DEF JobOK
  <2> QED
    BY <2>1, <2>2 DEF PromiseInv, CommandsReady, SprintsKept, CreateFolder, WriteDocument,
                      SaveToDB
<1>1. /\ \A t \in Task : ~Awaits(p, t)
      /\ pc[p] \notin Moved /\ SameTasks /\ UNCHANGED tasks
  BY DEF CreateFolder, WriteDocument, SaveToDB, Awaits, Assigning, Binding, Moved, SameTasks,
         database, disk
<1>3. CASE CreateFolder(p)
  <2>1. CASE Goto(p, "document") /\ folders' = [folders EXCEPT ![s] = @ \cup {"backlog"}]
    <3>1. pc'[p] = "document" /\ job'[p] = job[p] /\ UNCHANGED <<sprints, inner, docs>>
      BY <1>3, <2>1, Now DEF CreateFolder, Goto, database
    <3>2. sprints[s].status = "none"
      BY <1>0, <1>3 DEF SaveReady, CreateFolder
    <3>3. folders'[s] = folders[s] \cup {"backlog"}
          /\ \A r \in Sprint : r # s => folders'[r] = folders[r]
      BY <1>0, <2>1 DEF FoldersOK
    <3>4. Located(s)' /\ Settled(s)'
      <4>1. \A l \in Place : HasDoc(s, l)' <=> HasDoc(s, l)
        BY <3>1 DEF HasDoc, NoDoc
      <4> QED
        BY <1>0, <3>1, <3>2, <3>3, <4>1 DEF Located, Settled
    <3>5. SprintsKept'
      BY <1>0, <3>1, <3>3, <3>4, OtherSprints
    <3>6. TasksKept'
      <4>1. \A r \in Sprint : folders[r] \subseteq folders'[r]
        BY <3>3
      <4> QED
        BY <1>0, <1>1, <4>1, TasksAlone
    <3>7. SaveReady(p)' /\ MoveReady(p)' /\ BindReady(p)' /\ AssignReady(p)'
      <4>1. SaveReady(p)'
        BY <1>0, <1>3, <3>1, <3>2 DEF SaveReady, CreateFolder, JobOK
      <4> QED
        BY <3>1, <4>1, ReadySaving
    <3>8. CommandsReady'
      BY <3>7 DEF CommandsReady, OneByOne
    <3>9. SamePromise
      BY <1>1, <3>1 DEF SamePromise
    <3> QED
      BY <3>5, <3>6, <3>8, <3>9, QuietPromised DEF PromiseInv
  <2>2. CASE Return(p) /\ UNCHANGED folders
    <3>1. UNCHANGED <<sprints, folders, inner, docs>>
      BY <1>3, <2>2 DEF CreateFolder, database
    <3> QED
      BY <1>0, <1>1, <2>2, <3>1, SameDocs, QuietReturn, QuietPromised DEF SamePromise
  <2> QED
    BY <1>0, <1>3, <2>1, <2>2 DEF CreateFolder
<1>4. CASE WriteDocument(p)
  <2>0. sprints[s].status = "none" /\ job[p].cmd = "create" /\ UNCHANGED <<sprints, folders, inner>>
    BY <1>0, <1>4 DEF SaveReady, WriteDocument, JobOK, database
  <2>1. CASE Goto(p, "save") /\ docs' = [docs EXCEPT ![s]["backlog"] = NewDoc]
             /\ "backlog" \in folders[s]
    <3>1. pc'[p] = "save" /\ job'[p] = job[p]
      BY <2>1, Now DEF Goto
    <3>2. /\ docs'[s]["backlog"] = NewDoc
          /\ \A l \in Place : l # "backlog" => docs'[s][l] = docs[s][l]
          /\ \A r \in Sprint : r # s => docs'[r] = docs[r]
      BY <1>0, <2>1 DEF FoldersOK, Place
    <3>3. Located(s)' /\ Settled(s)' /\ HasDoc(s, "backlog")'
      <4>1. HasDoc(s, "backlog")' /\ docs'[s]["backlog"].status = "backlog"
        BY <3>2 DEF HasDoc, NewDoc, NoDoc
      <4>2. \A l \in Place : l # "backlog" => (HasDoc(s, l)' <=> HasDoc(s, l))
        BY <3>2 DEF HasDoc, NoDoc
      <4> QED
        BY <1>0, <2>0, <2>1, <3>2, <4>1, <4>2 DEF Located, Settled, Place
    <3>5. SprintsKept'
      BY <1>0, <2>0, <3>2, <3>3, OtherSprints
    <3>6. TasksKept'
      BY <1>0, <1>1, <2>0, TasksAlone
    <3>7. SaveReady(p)' /\ MoveReady(p)' /\ BindReady(p)' /\ AssignReady(p)'
      <4>1. SaveReady(p)'
        BY <1>0, <2>0, <3>1, <3>3 DEF SaveReady
      <4> QED
        BY <3>1, <4>1, ReadySaving
    <3>8. CommandsReady'
      BY <3>7 DEF CommandsReady, OneByOne
    <3>9. SamePromise
      BY <1>1, <2>0 DEF SamePromise
    <3> QED
      BY <3>5, <3>6, <3>8, <3>9, QuietPromised DEF PromiseInv
  <2>2. CASE Return(p) /\ UNCHANGED docs
    BY <1>0, <1>1, <2>0, <2>2, SameDocs, QuietReturn, QuietPromised DEF SamePromise
  <2> QED
    BY <1>0, <1>4, <2>1, <2>2 DEF WriteDocument
<1>5. CASE SaveToDB(p)
  <2>0. Return(p) /\ UNCHANGED <<tasks, folders, inner, docs>> /\ pc[p] = "save"
    BY <1>5 DEF SaveToDB, disk
  <2>1. CASE UNCHANGED sprints
    BY <1>0, <1>1, <2>0, <2>1, SameDocs, QuietReturn, QuietPromised DEF SamePromise
  <2>2. ASSUME NEW r, sprints' = [sprints EXCEPT ![s] = r], HasDoc(s, r.status),
               r.status \in Place,
               sprints[s].status = "none" => r.status = "backlog"
        PROVE  Promised
    <3>1. sprints'[s] = r /\ \A q \in Sprint : q # s => sprints'[q] = sprints[q]
      BY <1>0, <2>2 DEF TasksOK
    <3>2. r.status = sprints[s].status \/ <<sprints[s].status, r.status>> \in Moves
      BY <1>0, <2>2 DEF Located, Moves, Promise!Moves
    <3>3. folders[s] = {r.status} /\ \A m \in Place : HasDoc(s, m) <=> m = r.status
      BY <1>0, <2>2 DEF Located
    <3>4. Located(s)' /\ Settled(s)'
      <4>1. \A l \in Place : HasDoc(s, l)' <=> HasDoc(s, l)
        BY <2>0 DEF HasDoc, NoDoc
      <4>2. r.status # "none"
        BY <2>2 DEF Place
      <4> QED
        BY <1>0, <2>0, <2>2, <3>1, <3>3, <4>1, <4>2 DEF Located, Settled
    <3>5. SprintsKept'
      BY <1>0, <2>0, <3>1, <3>4, OtherSprints
    <3>6. TasksKept'
      BY <1>0, <1>1, <2>0, TasksAlone
    <3>7. CommandsReady'
      BY <2>0, IdleReady DEF CommandsReady, OneByOne
    <3>8. [Promise!Next]_(Promise!vars)
      BY <2>0, <2>2, <3>2, Advances
    <3> QED
      BY <3>5, <3>6, <3>7, <3>8 DEF PromiseInv, Promised
  <2>3. CASE job[p].cmd = "create" /\ sprints' = [sprints EXCEPT ![s] = NewRow]
    <3>1. NewRow.status = "backlog" /\ HasDoc(s, "backlog")
      BY <1>0, <2>0, <2>3 DEF SaveReady, NewRow
    <3> QED
      BY <2>2, <2>3, <3>1 DEF Place
  <2>4. CASE job[p].cmd # "create" /\ sprints' = [sprints EXCEPT ![s] = job[p].row]
    <3>1. CASE job[p].cmd = "update"
      <4>1. sprints' = sprints
        BY <1>0, <2>0, <2>4, <3>1 DEF SaveReady, TasksOK
      <4> QED
        BY <2>1, <4>1
    <3>2. CASE job[p].cmd = "reconcile"
      <4>1. job[p].row.status \in Place /\ HasDoc(s, job[p].row.status)
        BY <1>0, <2>0, <3>2 DEF SaveReady
      <4>2. sprints[s].status = "none" => job[p].row.status = "backlog"
        BY <1>0, <4>1 DEF Located
      <4> QED
        BY <2>2, <2>4, <4>1, <4>2
    <3>3. job[p].cmd \in {"create", "update", "reconcile"}
      BY <1>0, <2>0 DEF JobOK, SaveReady
    <3> QED
      BY <2>4, <3>1, <3>2, <3>3
  <2> QED
    BY <1>0, <1>5, <2>1, <2>3, <2>4 DEF SaveToDB
<1> QED
  BY <1>3, <1>4, <1>5

\* What a command has in hand while it moves a Sprint.
LEMMA MoverFacts ==
  ASSUME OneByOne, TypeInv, PromiseInv, NEW p \in Proc, pc[p] \in OnTheMove
  PROVE  /\ ControlOK /\ TasksOK /\ FoldersOK
         /\ job[p] \in Job /\ JobOK(pc[p], job[p]) /\ job[p].sprint \in Sprint
         /\ job[p].from \in Place /\ job[p].to \in Place /\ job[p].cmd \in Movers
         /\ MoveReady(p) /\ BindReady(p)
         /\ Located(job[p].sprint) /\ Settled(job[p].sprint)
         /\ \A e \in job[p].todo : e.task \in Task
<1>1. ControlOK /\ TasksOK /\ FoldersOK /\ JobOK(pc[p], job[p]) /\ job[p] \in Job
  BY JobInHand DEF TypeInv
<1>2. /\ job[p].sprint \in Sprint /\ job[p].cmd \in Movers
      /\ job[p].from \in Place /\ job[p].to \in Place
  BY <1>1 DEF JobOK, OnTheMove
<1>3. MoveReady(p) /\ BindReady(p) /\ Located(job[p].sprint) /\ Settled(job[p].sprint)
  BY <1>2 DEF PromiseInv, CommandsReady, SprintsKept
<1> QED
  BY <1>1, <1>2, <1>3 DEF Job

\* A mover goes on from one part of its way to the same or the next.
LEMMA MovesOn ==
  ASSUME OneByOne, TypeInv, TypeInv', PromiseInv, UNCHANGED <<sprints, folders>>,
         NEW p \in Proc, pc[p] \in OnTheMove, NEW l \in OnTheMove, NEW j, Continue(p, l, j),
         Same(p, j), j.sprint = job[p].sprint,
         \/ pc[p] \in Before /\ l \in Before
         \/ pc[p] \in Moved /\ l \in Moved
         \/ pc[p] \in After /\ l \in After,
         l \in {"sync", "force"} => job[p].cmd = "complete"
  PROVE  MoveReady(p)' /\ SaveReady(p)' /\ AssignReady(p)'
<1>1. pc'[p] = l /\ job'[p] = j
  BY Now DEF OnTheMove
<1>2. MoveReady(p)
  BY MoverFacts
<1>3. MoveReady(p)'
  BY <1>1, <1>2 DEF MoveReady, Same, OnTheMove, Before, Moved, After
<1> QED
  BY <1>1, <1>3, ReadyOnTheMove

LEMMA CollectPromised ==
  ASSUME OneByOne, TypeInv, TypeInv', PromiseInv, NEW p \in Proc,
         Collect(p) \/ WriteFrontmatter(p)
  PROVE  Promised
<1>0. pc[p] \in {"collect", "frontmatter"} /\ (Fault \/ Works)
      /\ UNCHANGED <<sprints, folders, inner, docs, tasks>>
  BY DEF Collect, WriteFrontmatter, database, disk
<1>1. pc[p] \in OnTheMove /\ \A t \in Task : ~Awaits(p, t)
  BY <1>0 DEF OnTheMove, Awaits, Assigning, Binding
<1>2. \A t \in Task : files'[t].dir = files[t].dir
  <2>1. UNCHANGED files
        \/ \E u \in Task : files' = [files EXCEPT ![u].status = "done"]
    BY <1>1, MoverFacts DEF Collect, WriteFrontmatter, disk
  <2>2. ASSUME NEW u \in Task, files' = [files EXCEPT ![u].status = "done"], NEW t \in Task
        PROVE  files'[t].dir = files[t].dir
    <3>1. files \in [Task -> Records] /\ files[t] \in Records
      BY <1>1, MoverFacts DEF TasksOK
    <3>2. [files[t] EXCEPT !.status = "done"].dir = files[t].dir
      BY <3>1 DEF Records
    <3>3. files'[t] = IF t = u THEN [files[t] EXCEPT !.status = "done"] ELSE files[t]
      BY <2>2, <3>1
    <3> QED
      BY <3>2, <3>3
  <2> QED
    BY <2>1, <2>2
<1>3. SameTree /\ SameTasks /\ SamePromise
  BY <1>0, <1>2, SameDocs DEF SameTasks, SamePromise
<1>4. ASSUME NEW l \in {"frontmatter", "move", "return"}, NEW T,
             Continue(p, l, [job[p] EXCEPT !.todo = T]),
             l = "return" => /\ job[p].cmd = "return"
                             /\ \A e \in T : tasks[e.task].sprint = job[p].sprint
      PROVE  Promised
  <2>1. pc'[p] = l /\ job'[p] = [job[p] EXCEPT !.todo = T]
    BY <1>4, Now
  <2>2. /\ Same(p, [job[p] EXCEPT !.todo = T])
        /\ job'[p].todo = T /\ job'[p].sprint = job[p].sprint /\ job'[p].cmd = job[p].cmd
    BY <1>1, <2>1, MoverFacts, SameUpdates DEF Job
  <2>3. [job[p] EXCEPT !.todo = T].sprint = job[p].sprint
    BY <2>1, <2>2
  <2>4. MoveReady(p)' /\ SaveReady(p)' /\ AssignReady(p)'
    BY <1>0, <1>1, <1>4, <2>2, <2>3, MovesOn DEF Before, OnTheMove
  <2>5. BindReady(p)'
    BY <1>0, <1>4, <2>1, <2>2 DEF BindReady, Binding
  <2> QED
    BY <1>0, <1>1, <1>3, <2>4, <2>5, QuietStep, QuietPromised DEF Moved
<1>5. CASE Return(p)
  BY <1>0, <1>1, <1>3, <1>5, QuietReturn, QuietPromised DEF Moved
<1>6. CASE Goto(p, "move")
  <2>1. job[p] = [job[p] EXCEPT !.todo = job[p].todo]
    BY <1>1, MoverFacts DEF Job
  <2>2. Continue(p, "move", [job[p] EXCEPT !.todo = job[p].todo])
    BY <1>6, <2>1, Zenon DEF Goto
  <2> QED
    BY <1>4, <2>2
<1>7. CASE Collect(p)
  <2> DEFINE T == {Entry(t) : t \in Visits(job[p].cmd, job[p].sprint)}
  <2>1. \A e \in T : tasks[e.task].sprint = job[p].sprint
    BY DEF Visits, Entry
  <2>2. \/ Return(p) \/ Goto(p, "move")
        \/ job[p].cmd = "return" /\ Continue(p, "return", [job[p] EXCEPT !.todo = T])
        \/ Continue(p, "frontmatter", [job[p] EXCEPT !.todo = T])
    BY <1>7 DEF Collect
  <2> HIDE DEF T
  <2> QED
    BY <1>4, <1>5, <1>6, <2>1, <2>2
<1>8. CASE WriteFrontmatter(p)
  <2>1. \/ Goto(p, "move")
        \/ \E e : Continue(p, "frontmatter", [job[p] EXCEPT !.todo = job[p].todo \ {e}])
    BY <1>8 DEF WriteFrontmatter, Rest
  <2> QED
    BY <1>4, <1>6, <2>1
<1> QED
  BY <1>7, <1>8

\* A Task leaves its Sprint, or has left it before.
LEMMA Leaves ==
  ASSUME TypeInv, NEW t \in Task, tasks' = [tasks EXCEPT ![t].sprint = NoSprint],
         UNCHANGED sprints
  PROVE  /\ [Promise!Next]_(Promise!vars)
         /\ \A u \in Task : tasks'[u].sprint = IF u = t THEN NoSprint ELSE tasks[u].sprint
<1> DEFINE member == [u \in Task |-> tasks[u].sprint]
<1>1. tasks \in [Task -> Records]
  BY DEF TypeInv, TasksOK
<1>2. ASSUME NEW u \in Task
      PROVE  /\ tasks'[u].sprint = IF u = t THEN NoSprint ELSE tasks[u].sprint
             /\ tasks'[u].status = tasks[u].status
  <2> DEFINE g == [tasks[u] EXCEPT !.sprint = NoSprint]
  <2>1. g.sprint = NoSprint /\ g.status = tasks[u].status
    BY <1>1 DEF Records
  <2>2. tasks'[u] = IF u = t THEN g ELSE tasks[u]
    BY <1>1
  <2> HIDE DEF g
  <2> QED
    BY <2>1, <2>2
<1>3. [u \in Task |-> tasks'[u].sprint] = [member EXCEPT ![t] = NoSprint]
  BY <1>2
<1>4. [u \in Task |-> tasks'[u].status] = [u \in Task |-> tasks[u].status]
  BY <1>2
<1>5. CASE member[t] # NoSprint
  <2>1. Promise!Leave(t)
    BY <1>3, <1>4, <1>5 DEF Promise!Leave
  <2> QED
    BY <1>2, <2>1 DEF Promise!Next
<1>6. CASE member[t] = NoSprint
  <2>1. SamePromise
    BY <1>2, <1>6 DEF SamePromise
  <2> QED
    BY <1>2, <2>1, PromiseStutters
<1> QED
  BY <1>5, <1>6

LEMMA ReturnPromised ==
  ASSUME OneByOne, TypeInv, TypeInv', PromiseInv, NEW p \in Proc, ReturnTask(p)
  PROVE  Promised
<1>0. /\ pc[p] = "return" /\ (Fault \/ Works)
      /\ UNCHANGED <<sprints, folders, inner, docs, files>>
  BY DEF ReturnTask, disk
<1>1. /\ pc[p] \in OnTheMove /\ job[p].cmd = "return"
      /\ \A e \in job[p].todo : tasks[e.task].sprint \in {job[p].sprint, NoSprint}
      /\ \A e \in job[p].todo : e.task \in Task
      /\ job[p] \in Job /\ job[p].sprint \in Sprint
      /\ tasks \in [Task -> Records]
  <2>1. pc[p] \in OnTheMove
    BY <1>0 DEF OnTheMove
  <2> QED
    BY <1>0, <2>1, MoverFacts DEF BindReady, TasksOK
<1>2. \A t \in Task : Awaits(p, t) <=> files[t].dir.sprint = job[p].sprint
  BY <1>0, <1>1 DEF Awaits, Assigning, Binding
<1>3. SameTree
  BY <1>0, SameDocs
<1>4. ASSUME NEW l \in {"return", "move"}, NEW T \in SUBSET job[p].todo,
             Continue(p, l, [job[p] EXCEPT !.todo = T]),
             \A t \in Task : tasks'[t].sprint \in {tasks[t].sprint, NoSprint}
      PROVE  /\ SaveReady(p)' /\ MoveReady(p)' /\ BindReady(p)' /\ AssignReady(p)'
             /\ \A t \in Task : Awaits(p, t) => Awaits(p, t)'
  <2>1. pc'[p] = l /\ job'[p] = [job[p] EXCEPT !.todo = T]
    BY <1>4, Now
  <2>2. /\ Same(p, [job[p] EXCEPT !.todo = T])
        /\ job'[p].todo = T /\ job'[p].sprint = job[p].sprint /\ job'[p].cmd = job[p].cmd
    BY <1>1, <2>1, MoverFacts, SameUpdates DEF Job
  <2>3. MoveReady(p)' /\ SaveReady(p)' /\ AssignReady(p)'
    <3>1. [job[p] EXCEPT !.todo = T].sprint = job[p].sprint
      BY <2>1, <2>2
    <3> QED
      BY <1>0, <1>1, <1>4, <2>2, <3>1, MovesOn DEF Before, OnTheMove
  <2>4. BindReady(p)'
    BY <1>1, <1>4, <2>1, <2>2 DEF BindReady, Binding
  <2>5. \A t \in Task : Awaits(p, t) => Awaits(p, t)'
    BY <1>0, <1>1, <1>2, <2>1, <2>2 DEF Awaits
  <2> QED
    BY <2>3, <2>4, <2>5
<1>5. CASE UNCHANGED tasks
  <2>1. SameTasks /\ SamePromise
    BY <1>0, <1>5 DEF SameTasks, SamePromise
  <2>2. \E l \in {"return", "move"}, T \in SUBSET job[p].todo :
           Continue(p, l, [job[p] EXCEPT !.todo = T])
    <3>1. CASE Goto(p, "move")
      <4>1. job[p] = [job[p] EXCEPT !.todo = job[p].todo]
        BY <1>1 DEF Job
      <4>2. Continue(p, "move", [job[p] EXCEPT !.todo = job[p].todo])
        BY <3>1, <4>1, Zenon DEF Goto
      <4> QED
        BY <4>2
    <3>2. ASSUME NEW e \in job[p].todo, Continue(p, "return", Rest(p, e))
          PROVE  \E l \in {"return", "move"}, T \in SUBSET job[p].todo :
                    Continue(p, l, [job[p] EXCEPT !.todo = T])
      BY <3>2 DEF Rest
    <3> QED
      BY <3>1, <3>2 DEF ReturnTask
  <2>3. \A t \in Task : tasks'[t].sprint \in {tasks[t].sprint, NoSprint}
    BY <1>5
  <2>4. /\ SaveReady(p)' /\ MoveReady(p)' /\ BindReady(p)' /\ AssignReady(p)'
        /\ \A t \in Task : Awaits(p, t) => Awaits(p, t)'
    BY <1>4, <2>2, <2>3
  <2>5. pc[p] \notin Moved
    BY <1>0 DEF Moved
  <2> QED
    BY <1>0, <1>3, <2>1, <2>4, <2>5, QuietStep, QuietPromised
<1>6. ASSUME NEW e \in job[p].todo, Continue(p, "return", Rest(p, e)), Works,
             tasks' = [tasks EXCEPT ![e.task].sprint = NoSprint]
      PROVE  Promised
  <2>1. /\ [Promise!Next]_(Promise!vars)
        /\ \A u \in Task : tasks'[u].sprint = IF u = e.task THEN NoSprint ELSE tasks[u].sprint
    BY <1>0, <1>1, <1>6, Leaves
  <2>2. /\ SaveReady(p)' /\ MoveReady(p)' /\ BindReady(p)' /\ AssignReady(p)'
        /\ \A t \in Task : Awaits(p, t) => Awaits(p, t)'
    <3>1. Continue(p, "return", [job[p] EXCEPT !.todo = job[p].todo \ {e}])
      BY <1>6 DEF Rest
    <3> QED
      BY <1>4, <2>1, <3>1
  <2>3. ASSUME NEW t \in Task PROVE FileKept(t)'
    <3>1. FileKept(t)
      BY DEF PromiseInv, TasksKept
    <3> QED
      BY <1>0, <2>1, <3>1 DEF FileKept
  <2>4. ASSUME NEW t \in Task, Half(t)', faults' = 0 PROVE Awaits(p, t)'
    <3>1. CASE Half(t)
      BY <1>6, <2>2, <2>4, <3>1, AloneAwaits DEF Works
    <3>2. CASE ~Half(t)
      <4>1. t = e.task /\ files[t].dir # Unassigned /\ tasks[t].sprint # NoSprint
        BY <1>0, <2>1, <2>4, <3>2 DEF Half, Unassigned
      <4>2. files[t].dir.sprint = job[p].sprint
        BY <1>1, <4>1 DEF PromiseInv, TasksKept, FileKept
      <4> QED
        BY <1>2, <2>2, <4>2
    <3> QED
      BY <3>1, <3>2
  <2>5. TasksKept'
    BY <2>3, <2>4 DEF TasksKept, HalfAwaited
  <2>6. SprintsKept'
    <3>1. \A s \in Sprint : Located(s)'
      BY <1>3, TreeStays DEF PromiseInv
    <3>2. ASSUME NEW s \in Sprint PROVE Settled(s)'
      <4>1. Settled(s)
        BY DEF PromiseInv, SprintsKept
      <4> QED
        BY <1>0, <1>6, <4>1 DEF Settled, Works, OneByOne, Moved
    <3> QED
      BY <3>1, <3>2 DEF SprintsKept
  <2> QED
    BY <2>1, <2>2, <2>5, <2>6 DEF Promised, PromiseInv, CommandsReady, OneByOne
<1> QED
  BY <1>5, <1>6 DEF ReturnTask

LEMMA MoveFacts ==
  \A l, m : <<l, m>> \in Moves => l # m /\ m # "none" /\ m # "removed" /\ m \in Place
  BY DEF Moves, Promise!Moves, Place

LEMMA GotoPromised ==
  ASSUME OneByOne, TypeInv, TypeInv', PromiseInv, NEW p \in Proc,
         NEW l, l \in {"stamp", "record", "list"}, Goto(p, l), Fault \/ Works,
         SameTree, SameTasks,
         (pc[p] \in Moved /\ l \in Moved) \/ (pc[p] = "paths" /\ l = "list")
  PROVE  PromiseInv'
<1>1. pc[p] \in OnTheMove
  BY DEF Moved, OnTheMove
<1>2. pc'[p] = l /\ job'[p] = job[p] /\ UNCHANGED <<sprints, folders>>
  BY Now DEF Goto, SameTree
<1>3. Same(p, job[p])
  BY DEF Same
<1>4. MoveReady(p)' /\ SaveReady(p)' /\ AssignReady(p)'
  BY <1>1, <1>2, <1>3, MovesOn DEF Goto, After, Moved, OnTheMove
<1>5. BindReady(p)'
  BY <1>2 DEF BindReady, Binding
<1>6. \A t \in Task : Awaits(p, t) => Awaits(p, t)'
  BY <1>2 DEF Awaits, Assigning, Binding, SameTasks, Moved
<1> QED
  BY <1>2, <1>4, <1>5, <1>6, QuietStep DEF Moved

LEMMA StampPromised ==
  ASSUME OneByOne, TypeInv, TypeInv', PromiseInv, NEW p \in Proc, Stamp(p)
  PROVE  Promised
<1>0. /\ pc[p] = "stamp" /\ Goto(p, "record") /\ (Fault \/ Works)
      /\ UNCHANGED <<sprints, tasks, folders, inner, files>>
  BY DEF Stamp, database
<1>1. PICK s \in Sprint, l \in Place :
         \/ UNCHANGED docs
         \/ HasDoc(s, l) /\ docs' = [docs EXCEPT ![s][l].status = l]
  <2>1. pc[p] \in OnTheMove
    BY <1>0 DEF OnTheMove
  <2> QED
    BY <2>1, MoverFacts DEF Stamp
<1>2. SameTree
  <2>1. CASE UNCHANGED docs
    BY <1>0, <2>1, SameDocs
  <2>2. CASE HasDoc(s, l) /\ docs' = [docs EXCEPT ![s][l].status = l]
    <3>1. docs \in [Sprint -> [Place -> Docs]]
      BY DEF TypeInv, FoldersOK
    <3>2. [docs[s][l] EXCEPT !.status = l].status = l /\ l # "none"
      BY <3>1 DEF Docs, Place
    <3>3. ASSUME NEW r \in Sprint, NEW m \in Place
          PROVE  docs'[r][m] = IF r = s /\ m = l THEN [docs[s][l] EXCEPT !.status = l]
                               ELSE docs[r][m]
      BY <2>2, <3>1
    <3>4. \A r \in Sprint, m \in Place : HasDoc(r, m) => docs[r][m].status # "none"
      BY DEF PromiseInv, SprintsKept, Located
    <3>5. ASSUME NEW r \in Sprint, NEW m \in Place
          PROVE  (HasDoc(r, m)' <=> HasDoc(r, m))
                 /\ (HasDoc(r, m) => docs'[r][m].status # "none")
      <4>1. CASE r = s /\ m = l
        <5>1. docs'[r][m].status = l
          BY <3>2, <3>3, <4>1
        <5>2. HasDoc(r, m)'
          BY <3>2, <5>1 DEF HasDoc, NoDoc
        <5> QED
          BY <2>2, <3>2, <4>1, <5>1, <5>2
      <4>2. CASE ~(r = s /\ m = l)
        <5>1. docs'[r][m] = docs[r][m]
          BY <3>3, <4>2
        <5> QED
          BY <3>4, <5>1 DEF HasDoc, NoDoc
      <4> QED
        BY <4>1, <4>2
    <3> QED
      BY <1>0, <3>5 DEF SameTree
  <2> QED
    BY <1>1, <2>1, <2>2
<1>3. SameTasks /\ SamePromise
  BY <1>0 DEF SameTasks, SamePromise
<1>4. pc[p] \in Moved /\ "record" \in Moved /\ "record" \in {"stamp", "record", "list"}
  BY <1>0 DEF Moved
<1>5. PromiseInv'
  BY <1>0, <1>2, <1>3, <1>4, GotoPromised
<1> QED
  BY <1>3, <1>5, QuietPromised

\* There is nothing left to sweep.
LEMMA SweepPromised ==
  ASSUME OneByOne, TypeInv, TypeInv', PromiseInv, NEW p \in Proc, Sweep(p)
  PROVE  Promised
<1>0. pc[p] = "sweep" /\ Goto(p, "stamp") /\ Works /\ UNCHANGED <<sprints, tasks>>
  BY DEF Sweep, database
<1>1. PICK s \in Sprint, l \in Place, to \in Place :
         /\ s = job[p].sprint /\ l = job[p].from /\ to = job[p].to
         /\ Located(s) /\ folders[s] = {to} /\ l # to /\ sprints[s].status = l
         /\ FoldersOK /\ TasksOK
  <2>1. pc[p] \in OnTheMove /\ pc[p] \in Moved
    BY <1>0 DEF OnTheMove, Moved
  <2>2. /\ folders[job[p].sprint] = {job[p].to}
        /\ sprints[job[p].sprint].status = job[p].from
        /\ <<job[p].from, job[p].to>> \in Moves
    BY <2>1, MoverFacts DEF MoveReady
  <2>3. job[p].from # job[p].to
    BY <2>2, MoveFacts, Zenon
  <2> QED
    BY <2>1, <2>2, <2>3, MoverFacts
<1>2. ~HasDoc(s, l) /\ l \notin folders[s] /\ inner[s] = {}
  BY <1>1 DEF Located, Place
<1>3. UNCHANGED <<folders, inner, docs>>
  <2>1. docs[s][l] = NoDoc
    BY <1>2 DEF HasDoc
  <2> QED
    BY <1>1, <1>2, <2>1 DEF Sweep, FoldersOK
<1>4. UNCHANGED files
  <2>1. ASSUME NEW t \in Task PROVE ~(files[t].dir.place = l /\ files[t].dir.sprint = s)
    <3>1. FileKept(t)
      BY DEF PromiseInv, TasksKept
    <3>2. l # "tasks"
      BY DEF Place
    <3> QED
      BY <1>2, <3>1, <3>2, DirFacts DEF FileKept
  <2> QED
    BY <1>1, <2>1 DEF Sweep, TasksOK
<1>5. SameTree /\ SameTasks /\ SamePromise
  BY <1>0, <1>3, <1>4, SameDocs DEF SameTasks, SamePromise
<1>6. pc[p] \in Moved /\ "stamp" \in Moved /\ "stamp" \in {"stamp", "record", "list"}
  BY <1>0 DEF Moved
<1>7. PromiseInv'
  BY <1>0, <1>5, <1>6, GotoPromised
<1> QED
  BY <1>5, <1>7, QuietPromised

LEMMA DirIs ==
  ASSUME NEW d \in Dirs, d.deep = FALSE
  PROVE  d = Folder(d.place, d.sprint)
  BY DEF Dirs, Folder

LEMMA MovePromised ==
  ASSUME OneByOne, TypeInv, TypeInv', PromiseInv, NEW p \in Proc, MoveSprint(p)
  PROVE  Promised
<1>0. pc[p] = "move" /\ UNCHANGED <<sprints, tasks>> /\ (Fault \/ Works) /\ pc[p] \in OnTheMove
  BY DEF MoveSprint, database, OnTheMove
<1>1. PICK s \in Sprint, from \in Place, to \in Place :
         /\ s = job[p].sprint /\ from = job[p].from /\ to = job[p].to
         /\ Located(s) /\ Settled(s) /\ sprints[s].status = from
         /\ <<from, to>> \in Moves /\ from # to /\ from # "none"
         /\ FoldersOK /\ TasksOK
  <2>1. job[p].from # "none"
    BY <1>0, MoverFacts DEF Place
  <2> QED
    BY <1>0, <2>1, MoverFacts, MoveFacts DEF MoveReady, Before, Moved
<1>2. PICK l \in Place : folders[s] = {l} /\ \A m \in Place : HasDoc(s, m) <=> m = l
  BY <1>1 DEF Located
<1>3. faults = 0 => folders[s] = {from}
  <2>1. \A q \in Proc : pc[q] \notin Moved
    BY <1>0 DEF OneByOne, Moved
  <2> QED
    BY <1>1, <2>1 DEF Settled
<1>4. SamePromise
  BY <1>0 DEF SamePromise
<1>5. CASE UNCHANGED <<folders, inner, docs, files>> /\ Return(p)
           /\ (Fault \/ (from \notin folders[s]))
  <2>1. SameTree /\ SameTasks
    BY <1>0, <1>5, SameDocs DEF SameTasks
  <2>2. faults' # 0
    BY <1>0, <1>3, <1>5, FaultFacts
  <2> QED
    BY <1>0, <1>4, <1>5, <2>1, <2>2, QuietReturn, QuietPromised
<1>6. CASE /\ UNCHANGED <<folders, inner, docs, files>> /\ Goto(p, "stamp")
           /\ to \in folders[s]
  <2>1. SameTree /\ SameTasks
    BY <1>0, <1>6, SameDocs DEF SameTasks
  <2>2. pc'[p] = "stamp" /\ job'[p] = job[p]
    BY <1>6, Now DEF Goto
  <2>3. MoveReady(p)'
    <3>1. MoveReady(p)
      BY <1>0, MoverFacts
    <3> QED
      BY <1>0, <1>1, <1>2, <1>6, <2>2, <3>1
      DEF MoveReady, Before, Moved, After, OnTheMove
  <2>4. BindReady(p)' /\ SaveReady(p)' /\ AssignReady(p)'
    BY <2>2, ReadyOnTheMove DEF BindReady, Binding, OnTheMove
  <2>5. \A t \in Task : Awaits(p, t) => Awaits(p, t)'
    BY <1>0, <1>6, <2>2 DEF Awaits, Assigning, Binding
  <2> QED
    BY <1>0, <1>4, <2>1, <2>2, <2>3, <2>4, <2>5, QuietStep, QuietPromised DEF Moved
<1>7. CASE from \in folders[s] /\ MoveTree(s, from, to) /\ Goto(p, "sweep")
  <2>1. pc'[p] = "sweep" /\ job'[p] = job[p]
    BY <1>7, Now DEF Goto
  <2>2. /\ folders'[s] = {to} /\ inner'[s] = {}
        /\ docs'[s] = [docs[s] EXCEPT ![to] = docs[s][from], ![from] = NoDoc]
        /\ \A r \in Sprint : r # s => UNCHANGED <<sprints[r], folders[r], inner[r], docs[r]>>
    BY <1>0, <1>1, <1>2, <1>7 DEF MoveTree, FoldersOK, Located
  <2>3. Located(s)'
    <3>1. HasDoc(s, from) /\ docs[s][from].status # "none"
      BY <1>1, <1>2, <1>7 DEF Located
    <3>2. /\ docs'[s][to] = docs[s][from] /\ docs'[s][from] = NoDoc
          /\ \A m \in Place : m # from /\ m # to => docs'[s][m] = docs[s][m]
      BY <1>1, <2>2 DEF FoldersOK
    <3>3. /\ HasDoc(s, to)' /\ ~HasDoc(s, from)'
          /\ \A m \in Place : m # from /\ m # to => ~HasDoc(s, m)'
      BY <1>1, <1>2, <1>7, <3>1, <3>2 DEF HasDoc, NoDoc
    <3>4. /\ \A m \in Place : HasDoc(s, m)' <=> m = to
          /\ docs'[s][to].status # "none"
          /\ sprints'[s].status = from
      BY <1>0, <1>1, <3>1, <3>2, <3>3
    <3> QED
      BY <1>1, <2>2, <3>4 DEF Located
  <2>4. Settled(s)'
    BY <1>1, <2>1 DEF Settled, Moved
  <2>5. SprintsKept'
    BY <1>0, <1>1, <2>2, <2>3, <2>4, OtherSprints
  <2>6. MoveReady(p)'
    <3>1. MoveReady(p)
      BY <1>0, MoverFacts
    <3> QED
      BY <1>0, <1>1, <2>1, <2>2, <3>1 DEF MoveReady, Before, Moved, After, OnTheMove
  <2>7. BindReady(p)' /\ SaveReady(p)' /\ AssignReady(p)'
    BY <2>1, ReadyOnTheMove DEF BindReady, Binding, OnTheMove
  <2>8. ASSUME NEW t \in Task
        PROVE  /\ \/ files[t].dir = Unassigned /\ files'[t].dir = Unassigned
                  \/ /\ files[t].dir # Unassigned /\ files'[t].dir # Unassigned
                     /\ files'[t].dir.sprint = files[t].dir.sprint
               /\ FileKept(t)'
    <3>1. FileKept(t) /\ files[t] \in Records
      BY <1>1 DEF PromiseInv, TasksKept, TasksOK
    <3> DEFINE g == [files[t] EXCEPT !.dir.place = to, !.dir.deep = @ \/ FALSE]
    <3>2. files'[t] = IF files[t].dir.place = from /\ files[t].dir.sprint = s
                      THEN g ELSE files[t]
      BY <1>7 DEF MoveTree, Carry
    <3>3. CASE files[t].dir = Unassigned
      <4>1. files'[t].dir = Unassigned
        BY <3>2, <3>3, DirFacts DEF Place
      <4> QED
        BY <3>3, <4>1 DEF FileKept, Unassigned
    <3>4. ASSUME NEW r \in Sprint, NEW m \in Place, files[t].dir = Folder(m, r), m \in folders[r]
          PROVE  /\ files[t].dir # Unassigned /\ files'[t].dir # Unassigned
                 /\ files'[t].dir.sprint = files[t].dir.sprint
                 /\ FileKept(t)'
      <4>1. CASE r = s
        <5>1. m = from
          BY <1>2, <1>7, <3>4, <4>1
        <5>2. g.dir = Folder(to, s)
          <6>1. files[t].dir = [place |-> m, sprint |-> s, deep |-> FALSE]
            BY <3>4, <4>1 DEF Folder
          <6>2. files[t].dir.deep = FALSE /\ files[t].dir.sprint = s /\ files[t].dir.place = m
            BY <6>1
          <6>3. (files[t].dir.deep \/ FALSE) = FALSE
            BY <6>2
          <6>4. g.dir = [files[t].dir EXCEPT !.place = to, !.deep = files[t].dir.deep \/ FALSE]
            BY <3>1 DEF Records
          <6> HIDE DEF g
          <6>5. g.dir = [files[t].dir EXCEPT !.place = to, !.deep = FALSE]
            BY <6>3, <6>4, Zenon
          <6>6. g.dir.place = to /\ g.dir.sprint = s /\ g.dir.deep = FALSE /\ g.dir \in Dirs
            BY <3>1, <6>2, <6>5 DEF Records, Dirs
          <6> QED
            BY <6>6, DirIs
        <5>3. files'[t].dir = Folder(to, s)
          <6>1. files'[t] = g
            BY <3>2, <3>4, <4>1, <5>1, DirFacts
          <6> HIDE DEF g
          <6> QED
            BY <5>2, <6>1
        <5>4. Folder(to, s) # Unassigned /\ Folder(to, s).sprint = s /\ files[t].dir.sprint = s
              /\ files[t].dir # Unassigned
          BY <3>4, <4>1, DirFacts
        <5>5. tasks'[t].sprint \in {s, NoSprint}
          BY <1>0, <3>1, <5>4 DEF FileKept
        <5> QED
          BY <2>2, <5>3, <5>4, <5>5 DEF FileKept, Folder
      <4>2. CASE r # s
        <5>1. files'[t] = files[t]
          BY <3>2, <3>4, <4>2, DirFacts
        <5>2. files[t].dir # Unassigned
          BY <3>4, DirFacts
        <5>3. m \in folders'[r]
          BY <2>2, <3>4, <4>2
        <5> QED
          BY <1>0, <3>1, <3>4, <5>1, <5>2, <5>3 DEF FileKept, Folder, Unassigned
      <4> QED
        BY <4>1, <4>2
    <3> QED
      BY <3>1, <3>3, <3>4 DEF FileKept
  <2>9. ASSUME NEW t \in Task, Half(t)', faults' = 0 PROVE Awaits(p, t)'
    <3>1. Half(t)
      BY <1>0, <2>8, <2>9 DEF Half, Unassigned
    <3>2. Awaits(p, t)
      BY <1>0, <2>9, <3>1, AloneAwaits, FaultFacts
    <3>3. files'[t].dir.sprint = files[t].dir.sprint
      BY <2>8, <3>1 DEF Half
    <3> QED
      BY <1>0, <2>1, <3>2, <3>3 DEF Awaits, Assigning, Binding
  <2>10. TasksKept'
    BY <2>8, <2>9 DEF TasksKept, HalfAwaited
  <2> QED
    BY <1>4, <2>5, <2>6, <2>7, <2>10, QuietPromised DEF PromiseInv, CommandsReady, OneByOne
<1>8. ~(from \in folders[s] /\ to \in folders[s])
  BY <1>1, <1>2
<1> QED
  BY <1>1, <1>5, <1>6, <1>7, <1>8 DEF MoveSprint

LEMMA RecordPromised ==
  ASSUME OneByOne, TypeInv, TypeInv', PromiseInv, NEW p \in Proc, Record(p)
  PROVE  Promised
<1>0. /\ pc[p] = "record" /\ pc[p] \in OnTheMove /\ (Fault \/ Works)
      /\ UNCHANGED <<tasks, folders, inner, docs, files>>
  <2>1. pc[p] \in OnTheMove /\ (Fault \/ Works) /\ UNCHANGED <<tasks, folders, inner, docs, files>>
    BY DEF Record, disk, OnTheMove
  <2>2. pc[p] # "db-only"
    BY <2>1, MoverFacts DEF MoveReady
  <2> QED
    BY <2>1, <2>2 DEF Record
<1>1. PICK s \in Sprint, from \in Place, to \in Place :
         /\ s = job[p].sprint /\ from = job[p].from /\ to = job[p].to
         /\ Located(s) /\ sprints[s].status = from /\ folders[s] = {to}
         /\ <<from, to>> \in Moves /\ from # "none"
         /\ sprints \in [Sprint -> Rows]
  <2>1. job[p].from # "none"
    BY <1>0, MoverFacts DEF Place
  <2> QED
    BY <1>0, <2>1, MoverFacts DEF MoveReady, Before, Moved, TasksOK
<1>2. CASE Fault /\ Return(p) /\ UNCHANGED sprints
  <2>1. SameTree /\ SameTasks /\ SamePromise
    BY <1>0, <1>2, SameDocs DEF SameTasks, SamePromise
  <2> QED
    BY <1>0, <1>2, <2>1, FaultFacts, QuietReturn, QuietPromised
<1>3. CASE /\ Works /\ Goto(p, "paths")
           /\ sprints' = [sprints EXCEPT ![s] = [status |-> to, folder |-> to]]
  <2>1. pc'[p] = "paths" /\ job'[p] = job[p]
    BY <1>3, Now DEF Goto
  <2>2. sprints'[s].status = to /\ \A r \in Sprint : r # s => sprints'[r] = sprints[r]
    BY <1>1, <1>3
  <2>3. [Promise!Next]_(Promise!vars)
    <3> DEFINE r == [status |-> to, folder |-> to]
    <3>1. r.status = to
      OBVIOUS
    <3>2. sprints' = [sprints EXCEPT ![s] = r]
      BY <1>3
    <3> HIDE DEF r
    <3> QED
      BY <1>0, <1>1, <3>1, <3>2, Advances
  <2>4. Located(s)' /\ Settled(s)'
    <3>1. \A l \in Place : HasDoc(s, l)' <=> HasDoc(s, l)
      BY <1>0 DEF HasDoc, NoDoc
    <3>2. to # "none"
      BY DEF Place
    <3> QED
      BY <1>0, <1>1, <2>2, <3>1, <3>2 DEF Located, Settled
  <2>5. SprintsKept'
    BY <1>0, <1>1, <2>2, <2>4, OtherSprints
  <2>6. MoveReady(p)'
    <3>1. MoveReady(p)
      BY <1>0, MoverFacts
    <3> QED
      BY <1>0, <1>1, <2>1, <2>2, <3>1 DEF MoveReady, Before, Moved, After, OnTheMove
  <2>7. BindReady(p)' /\ SaveReady(p)' /\ AssignReady(p)'
    BY <2>1, ReadyOnTheMove DEF BindReady, Binding, OnTheMove
  <2>8. ASSUME NEW t \in Task PROVE FileKept(t)' /\ (Half(t)' <=> Half(t))
    <3>1. FileKept(t)
      BY DEF PromiseInv, TasksKept
    <3> QED
      BY <1>0, <3>1 DEF FileKept, Half
  <2>9. ASSUME NEW t \in Task, Half(t)', faults' = 0 PROVE Awaits(p, t)'
    <3>1. Awaits(p, t)
      BY <1>0, <2>8, <2>9, AloneAwaits, FaultFacts
    <3> QED
      BY <1>0, <2>1, <3>1 DEF Awaits, Assigning, Binding
  <2>10. TasksKept'
    BY <2>8, <2>9 DEF TasksKept, HalfAwaited
  <2> QED
    BY <2>3, <2>5, <2>6, <2>7, <2>10 DEF Promised, PromiseInv, CommandsReady, OneByOne
<1>4. \/ Fault /\ Return(p) /\ UNCHANGED sprints
      \/ /\ Works /\ Goto(p, "paths")
         /\ sprints' = [sprints EXCEPT ![s] = [status |-> to, folder |-> to]]
  <2>1. sprints[s].status # "none"
    BY <1>1
  <2> QED
    BY <1>0, <1>1, <2>1 DEF Record
<1> QED
  BY <1>2, <1>3, <1>4

\* A row gets another path and nothing else.
LEMMA PathOnly ==
  ASSUME TypeInv, NEW t \in Task, NEW d, tasks' = [tasks EXCEPT ![t].dir = d]
  PROVE  \A u \in Task : /\ tasks'[u].sprint = tasks[u].sprint
                         /\ tasks'[u].status = tasks[u].status
<1>1. ASSUME NEW u \in Task
      PROVE  tasks'[u].sprint = tasks[u].sprint /\ tasks'[u].status = tasks[u].status
  <2> DEFINE g == [tasks[u] EXCEPT !.dir = d]
  <2>1. tasks[u] \in Records /\ tasks \in [Task -> Records]
    BY DEF TypeInv, TasksOK
  <2>2. g.sprint = tasks[u].sprint /\ g.status = tasks[u].status
    BY <2>1 DEF Records
  <2>3. tasks'[u] = IF u = t THEN g ELSE tasks[u]
    BY <2>1
  <2> HIDE DEF g
  <2> QED
    BY <2>2, <2>3
<1> QED
  BY <1>1

LEMMA PathsPromised ==
  ASSUME OneByOne, TypeInv, TypeInv', PromiseInv, NEW p \in Proc, UpdateTaskPathsForSprint(p)
  PROVE  Promised
<1>0. /\ pc[p] = "paths" /\ Goto(p, "list") /\ (Fault \/ Works)
      /\ UNCHANGED <<sprints, folders, inner, docs, files>>
  BY DEF UpdateTaskPathsForSprint, disk
<1>1. \A t \in Task : /\ tasks'[t].sprint = tasks[t].sprint
                      /\ tasks'[t].status = tasks[t].status
  <2>1. CASE UNCHANGED tasks
    BY <2>1
  <2>2. CASE tasks' = [t \in Task |->
               IF /\ tasks[t].sprint = job[p].sprint
                  /\ tasks[t].dir.place = job[p].from /\ tasks[t].dir.sprint = job[p].sprint
               THEN [tasks[t] EXCEPT !.dir.place = job[p].to] ELSE tasks[t]]
    <3>1. ASSUME NEW t \in Task
          PROVE  tasks'[t].sprint = tasks[t].sprint /\ tasks'[t].status = tasks[t].status
      <4> DEFINE g == [tasks[t] EXCEPT !.dir.place = job[p].to]
      <4>1. tasks[t] \in Records
        BY DEF TypeInv, TasksOK
      <4>2. g.sprint = tasks[t].sprint /\ g.status = tasks[t].status
        BY <4>1 DEF Records
      <4>3. tasks'[t] = g \/ tasks'[t] = tasks[t]
        BY <2>2
      <4> HIDE DEF g
      <4> QED
        BY <4>2, <4>3
    <3> QED
      BY <3>1
  <2> QED
    BY <2>1, <2>2 DEF UpdateTaskPathsForSprint
<1>2. SameTree /\ SameTasks /\ SamePromise
  BY <1>0, <1>1, SameDocs DEF SameTasks, SamePromise
<1>3. PromiseInv'
  BY <1>0, <1>2, GotoPromised
<1> QED
  BY <1>2, <1>3, QuietPromised

\* A step of a mover whose Sprint has its new status.
LEMMA BindsOn ==
  ASSUME OneByOne, TypeInv, TypeInv', PromiseInv, SameTree, SameTasks, Fault \/ Works,
         NEW p \in Proc, pc[p] \in After, NEW l \in After, NEW j, Continue(p, l, j),
         Same(p, j), j.sprint = job[p].sprint,
         l \in {"sync", "force"} => job[p].cmd = "complete",
         BindReady(p)',
         faults' = 0 => \A t \in Task : Half(t) /\ Awaits(p, t) => Awaits(p, t)'
  PROVE  PromiseInv'
<1>1. pc[p] \in OnTheMove /\ l \in OnTheMove /\ pc[p] \notin Moved
  BY DEF After, OnTheMove, Moved
<1>2. MoveReady(p)' /\ SaveReady(p)' /\ AssignReady(p)'
  BY <1>1, MovesOn DEF SameTree
<1> QED
  BY <1>1, <1>2, QuietStep

LEMMA ListPromised ==
  ASSUME OneByOne, TypeInv, TypeInv', PromiseInv, NEW p \in Proc, ListFiles(p)
  PROVE  Promised
<1>0. /\ pc[p] = "list" /\ pc[p] \in After /\ pc[p] \in OnTheMove /\ Works
      /\ UNCHANGED <<sprints, tasks, folders, inner, docs, files>>
  BY DEF ListFiles, disk, database, After, OnTheMove
<1>1. PICK s \in Sprint, to \in Place :
         /\ s = job[p].sprint /\ to = job[p].to /\ job[p] \in Job
         /\ sprints[s].status = to /\ Settled(s)
  BY <1>0, MoverFacts DEF MoveReady
<1>2. SameTree /\ SameTasks /\ SamePromise
  BY <1>0, SameDocs DEF SameTasks, SamePromise
<1> DEFINE d == Folder(to, s)
           T == {[task |-> t, dir |-> d] : t \in {u \in Task : files[u].dir = d}}
<1>3. Continue(p, "bind", [job[p] EXCEPT !.todo = T])
  BY <1>1 DEF ListFiles
<1>4. /\ \A e \in T : e.dir = d /\ files[e.task].dir = d
      /\ \A t \in Task : files[t].dir = d => \E e \in T : e.task = t
  <2> DEFINE e(t) == [task |-> t, dir |-> d]
  <2>1. \A t \in Task : e(t).task = t /\ e(t).dir = d
    OBVIOUS
  <2>2. T = {e(t) : t \in {u \in Task : files[u].dir = d}}
    OBVIOUS
  <2> HIDE DEF e, T, d
  <2> QED
    BY <2>1, <2>2
<1> HIDE DEF T
<1>5. pc'[p] = "bind" /\ job'[p] = [job[p] EXCEPT !.todo = T]
  BY <1>3, Now
<1>6. /\ Same(p, [job[p] EXCEPT !.todo = T]) /\ [job[p] EXCEPT !.todo = T].sprint = s
      /\ job'[p].todo = T /\ job'[p].sprint = s /\ job'[p].to = to
  <2> DEFINE j == [job[p] EXCEPT !.todo = T]
  <2>1. /\ j.todo = T /\ j.sprint = s /\ j.to = to
        /\ j.cmd = job[p].cmd /\ j.from = job[p].from
    BY <1>1 DEF Job
  <2> HIDE DEF j
  <2> QED
    BY <1>1, <1>5, <2>1 DEF Same, j
<1>7. BindReady(p)'
  BY <1>0, <1>4, <1>5, <1>6 DEF BindReady, Binding
<1>8. ASSUME faults' = 0, NEW t \in Task, Half(t), Awaits(p, t) PROVE Awaits(p, t)'
  <2>1. files[t].dir.sprint = s /\ files[t].dir # Unassigned
    BY <1>0, <1>1, <1>8 DEF Awaits, Half, Assigning, Binding
  <2>2. folders[s] = {to}
    <3>1. faults = 0 /\ to # "none"
      BY <1>0, <1>8 DEF Works, Place
    <3> QED
      BY <1>0, <1>1, <3>1 DEF Settled, OneByOne, Moved
  <2>3. files[t].dir = d
    <3>1. PICK r \in Sprint, m \in Place : m \in folders[r] /\ files[t].dir = Folder(m, r)
      BY <2>1 DEF PromiseInv, TasksKept, FileKept
    <3>2. r = s
      BY <2>1, <3>1, DirFacts
    <3> QED
      BY <2>2, <3>1, <3>2
  <2> QED
    BY <1>4, <1>5, <1>6, <2>3 DEF Awaits, Binding
<1>9. PromiseInv'
  BY <1>0, <1>1, <1>2, <1>3, <1>6, <1>7, <1>8, BindsOn DEF After
<1> QED
  BY <1>2, <1>9, QuietPromised

LEMMA BindPromised ==
  ASSUME OneByOne, TypeInv, TypeInv', PromiseInv, NEW p \in Proc, Bind(p)
  PROVE  Promised
<1>0. /\ pc[p] = "bind" /\ pc[p] \in After /\ pc[p] \in OnTheMove /\ Works
      /\ UNCHANGED <<sprints, tasks, folders, inner, docs, files>>
      /\ pc[p] \notin Moved
  BY DEF Bind, disk, database, After, OnTheMove, Moved
<1>1. /\ job[p] \in Job /\ BindReady(p)
      /\ \A t \in Task : Awaits(p, t) <=> \E e \in job[p].todo : e.task = t
  BY <1>0, MoverFacts DEF Awaits, Assigning, Binding
<1>2. SameTree /\ SameTasks /\ SamePromise
  BY <1>0, SameDocs DEF SameTasks, SamePromise
<1>3. CASE job[p].todo = {} /\ Return(p)
  BY <1>0, <1>1, <1>2, <1>3, QuietReturn, QuietPromised
<1>4. ASSUME job[p].todo = {}, NEW l \in {"sync", "focus"}, Goto(p, l),
             l = "sync" => job[p].cmd = "complete"
      PROVE  Promised
  <2>1. pc'[p] = l /\ job'[p] = job[p] /\ Same(p, job[p])
    BY <1>4, Now DEF Goto, Same
  <2>2. BindReady(p)'
    BY <2>1 DEF BindReady, Binding
  <2>3. PromiseInv'
    BY <1>0, <1>1, <1>2, <1>4, <2>1, <2>2, BindsOn DEF Goto, After
  <2> QED
    BY <1>2, <2>3, QuietPromised
<1>5. ASSUME NEW e \in job[p].todo,
             Continue(p, "bind-sprint", [Rest(p, e) EXCEPT !.task = e.task])
      PROVE  Promised
  <2> DEFINE j == [Rest(p, e) EXCEPT !.task = e.task]
  <2>1. pc'[p] = "bind-sprint" /\ job'[p] = j
    BY <1>5, Now
  <2>2. /\ j.cmd = job[p].cmd /\ j.from = job[p].from /\ j.to = job[p].to
        /\ j.sprint = job[p].sprint /\ j.task = e.task /\ j.todo = job[p].todo \ {e}
    BY <1>1 DEF Rest, Job
  <2> HIDE DEF j
  <2>3. BindReady(p)'
    <3>1. \A f \in job[p].todo : f.dir = Folder(job[p].to, job[p].sprint)
                                 /\ files[f.task].dir = Folder(job[p].to, job[p].sprint)
      BY <1>0, <1>1 DEF BindReady, Binding
    <3> QED
      BY <1>0, <1>5, <2>1, <2>2, <3>1 DEF BindReady, Binding
  <2>4. \A t \in Task : Awaits(p, t) => Awaits(p, t)'
    BY <1>1, <2>1, <2>2 DEF Awaits, Binding
  <2>5. Same(p, j)
    BY <2>2 DEF Same
  <2>6. PromiseInv'
    BY <1>0, <1>2, <1>5, <2>2, <2>3, <2>4, <2>5, BindsOn DEF After, j
  <2> QED
    BY <1>2, <2>6, QuietPromised
<1>6. ASSUME NEW e \in job[p].todo PROVE files[e.task].dir = e.dir
  BY <1>0, <1>1 DEF BindReady, Binding
<1> QED
  BY <1>3, <1>4, <1>5, <1>6 DEF Bind, Return

\* A Task joins a Sprint there is, or is in it already.
LEMMA Joins ==
  ASSUME TypeInv, NEW t \in Task, NEW s \in Sprint, sprints[s].status # "none",
         tasks' = [tasks EXCEPT ![t].sprint = s],
         tasks[t].sprint \in {s, NoSprint}, UNCHANGED sprints
  PROVE  /\ [Promise!Next]_(Promise!vars)
         /\ \A u \in Task : tasks'[u].sprint = IF u = t THEN s ELSE tasks[u].sprint
<1> DEFINE member == [u \in Task |-> tasks[u].sprint]
<1>1. tasks \in [Task -> Records]
  BY DEF TypeInv, TasksOK
<1>2. ASSUME NEW u \in Task
      PROVE  /\ tasks'[u].sprint = IF u = t THEN s ELSE tasks[u].sprint
             /\ tasks'[u].status = tasks[u].status
  <2> DEFINE g == [tasks[u] EXCEPT !.sprint = s]
  <2>1. g.sprint = s /\ g.status = tasks[u].status
    BY <1>1 DEF Records
  <2>2. tasks'[u] = IF u = t THEN g ELSE tasks[u]
    BY <1>1
  <2> HIDE DEF g
  <2> QED
    BY <2>1, <2>2
<1>3. [u \in Task |-> tasks'[u].sprint] = [member EXCEPT ![t] = s]
  BY <1>2
<1>4. [u \in Task |-> tasks'[u].status] = [u \in Task |-> tasks[u].status]
  BY <1>2
<1>5. CASE member[t] = NoSprint
  <2>1. Promise!Join(t, s)
    BY <1>3, <1>4, <1>5 DEF Promise!Join
  <2> QED
    BY <1>2, <2>1 DEF Promise!Next
<1>6. CASE member[t] = s
  <2>1. SamePromise
    BY <1>2, <1>6 DEF SamePromise
  <2> QED
    BY <1>2, <2>1, PromiseStutters
<1> QED
  BY <1>5, <1>6

LEMMA BindSprintPromised ==
  ASSUME OneByOne, TypeInv, TypeInv', PromiseInv, NEW p \in Proc, BindSprint(p)
  PROVE  Promised
<1>0. /\ pc[p] = "bind-sprint" /\ pc[p] \in After /\ pc[p] \in OnTheMove /\ (Fault \/ Works)
      /\ UNCHANGED <<sprints, folders, inner, docs, files>>
  BY DEF BindSprint, disk, After, OnTheMove
<1>1. PICK s \in Sprint, t \in Task, to \in Place :
         /\ s = job[p].sprint /\ t = job[p].task /\ to = job[p].to
         /\ sprints[s].status = to /\ files[t].dir = Folder(to, s)
         /\ \A e \in job[p].todo : e.dir = Folder(to, s) /\ files[e.task].dir = Folder(to, s)
         /\ FileKept(t)
  <2>1. job[p].task \in Task
    BY <1>0, MoverFacts DEF JobOK, Assigning, OnTheMove
  <2>2. FileKept(job[p].task)
    BY <2>1 DEF PromiseInv, TasksKept
  <2> QED
    BY <1>0, <2>1, <2>2, MoverFacts DEF MoveReady, BindReady, Binding
<1>2. SameTree /\ Same(p, job[p])
  BY <1>0, SameDocs DEF Same
<1>3. ASSUME NEW l \in {"bind", "bind-path"}, Goto(p, l)
      PROVE  /\ SaveReady(p)' /\ MoveReady(p)' /\ BindReady(p)' /\ AssignReady(p)'
             /\ \A u \in Task : u # t /\ Awaits(p, u) => Awaits(p, u)'
  <2>1. pc'[p] = l /\ job'[p] = job[p]
    BY <1>3, Now DEF Goto
  <2>2. SaveReady(p)' /\ MoveReady(p)' /\ AssignReady(p)'
    <3>1. l \in OnTheMove /\ l \in After
      BY DEF After, OnTheMove
    <3> QED
      BY <1>0, <1>2, <1>3, <3>1, MovesOn DEF Goto
  <2>3. BindReady(p)'
    BY <1>0, <1>1, <2>1 DEF BindReady, Binding
  <2>4. \A u \in Task : u # t /\ Awaits(p, u) => Awaits(p, u)'
    BY <1>0, <1>1, <2>1 DEF Awaits, Binding, Assigning
  <2> QED
    BY <2>2, <2>3, <2>4
<1>4. CASE Fault /\ Goto(p, "bind") /\ UNCHANGED tasks
  <2>1. SameTasks /\ SamePromise
    BY <1>0, <1>4 DEF SameTasks, SamePromise
  <2>2. pc[p] \notin Moved /\ faults' # 0
    BY <1>0, <1>4, FaultFacts DEF Moved
  <2> QED
    BY <1>0, <1>2, <1>3, <1>4, <2>1, <2>2, QuietStep, QuietPromised
<1>5. CASE Works /\ Goto(p, "bind-path") /\ tasks' = [tasks EXCEPT ![t].sprint = s]
  <2>1. files[t].dir # Unassigned /\ files[t].dir.sprint = s /\ tasks[t].sprint \in {s, NoSprint}
        /\ s # NoSprint
    BY <1>1, DirFacts, SprintAssumption DEF FileKept
  <2>2. sprints[s].status # "none"
    BY <1>1 DEF Place
  <2>3. /\ [Promise!Next]_(Promise!vars)
        /\ \A u \in Task : tasks'[u].sprint = IF u = t THEN s ELSE tasks[u].sprint
    BY <1>0, <1>5, <2>1, <2>2, Joins
  <2>4. ASSUME NEW u \in Task
        PROVE  FileKept(u)' /\ (Half(u)' => u # t /\ Half(u))
    <3>1. FileKept(u)
      BY DEF PromiseInv, TasksKept
    <3> QED
      BY <1>0, <2>1, <2>3, <3>1 DEF FileKept, Half
  <2>5. ASSUME NEW u \in Task, Half(u)', faults' = 0 PROVE Awaits(p, u)'
    BY <1>3, <1>5, <2>4, <2>5, AloneAwaits DEF Works
  <2>6. TasksKept'
    BY <2>4, <2>5 DEF TasksKept, HalfAwaited
  <2>7. SprintsKept'
    <3>1. \A r \in Sprint : Located(r)'
      BY <1>2, TreeStays DEF PromiseInv
    <3>2. ASSUME NEW r \in Sprint PROVE Settled(r)'
      <4>1. Settled(r)
        BY DEF PromiseInv, SprintsKept
      <4> QED
        BY <1>0, <1>5, <4>1 DEF Settled, Works, OneByOne, Moved
    <3> QED
      BY <3>1, <3>2 DEF SprintsKept
  <2> QED
    BY <1>3, <1>5, <2>3, <2>6, <2>7 DEF Promised, PromiseInv, CommandsReady, OneByOne
<1> QED
  BY <1>1, <1>4, <1>5 DEF BindSprint

LEMMA BindPathPromised ==
  ASSUME OneByOne, TypeInv, TypeInv', PromiseInv, NEW p \in Proc, BindPath(p)
  PROVE  Promised
<1>0. /\ pc[p] = "bind-path" /\ pc[p] \in After /\ pc[p] \in OnTheMove /\ (Fault \/ Works)
      /\ UNCHANGED <<sprints, folders, inner, docs, files>> /\ Goto(p, "bind")
  BY DEF BindPath, disk, After, OnTheMove
<1>1. PICK t \in Task : t = job[p].task
  BY <1>0, MoverFacts DEF JobOK, Assigning, OnTheMove
<1>2. \A u \in Task : tasks'[u].sprint = tasks[u].sprint /\ tasks'[u].status = tasks[u].status
  <2>1. UNCHANGED tasks \/ \E d : tasks' = [tasks EXCEPT ![t].dir = d]
    BY <1>1 DEF BindPath
  <2> QED
    BY <2>1, PathOnly
<1>3. SameTree /\ SameTasks /\ SamePromise /\ Same(p, job[p])
  BY <1>0, <1>2, SameDocs DEF SameTasks, SamePromise, Same
<1>4. pc'[p] = "bind" /\ job'[p] = job[p]
  BY <1>0, Now DEF Goto
<1>5. BindReady(p)'
  BY <1>0, <1>4, MoverFacts DEF BindReady, Binding
<1>6. \A u \in Task : Awaits(p, u) => Awaits(p, u)'
  BY <1>0, <1>4 DEF Awaits, Assigning, Binding
<1>7. PromiseInv'
  BY <1>0, <1>3, <1>4, <1>5, <1>6, BindsOn DEF Goto, After
<1> QED
  BY <1>3, <1>7, QuietPromised

LEMMA SyncPromised ==
  ASSUME OneByOne, TypeInv, TypeInv', PromiseInv, NEW p \in Proc, ListForSync(p)
  PROVE  Promised
<1>0. /\ pc[p] = "sync" /\ pc[p] \in After /\ pc[p] \in OnTheMove /\ (Fault \/ Works)
      /\ UNCHANGED <<sprints, tasks, folders, inner, docs, files>>
      /\ \A t \in Task : ~Awaits(p, t)
  BY DEF ListForSync, disk, database, After, OnTheMove, Awaits, Assigning, Binding
<1>1. job[p] \in Job /\ job[p].cmd = "complete"
  BY <1>0, MoverFacts DEF MoveReady
<1>2. SameTree /\ SameTasks /\ SamePromise
  BY <1>0, SameDocs DEF SameTasks, SamePromise
<1>3. ASSUME NEW l \in {"force", "focus"}, NEW j, Continue(p, l, j), Same(p, j),
             j.sprint = job[p].sprint,
             l = "force" => \A e \in j.todo : tasks[e.task].sprint = j.sprint
      PROVE  Promised
  <2>1. pc'[p] = l /\ job'[p] = j
    BY <1>3, Now
  <2>2. BindReady(p)'
    BY <1>0, <1>3, <2>1 DEF BindReady, Binding
  <2>3. PromiseInv'
    BY <1>0, <1>1, <1>2, <1>3, <2>2, BindsOn DEF After
  <2> QED
    BY <1>2, <2>3, QuietPromised
<1>4. CASE Goto(p, "focus")
  BY <1>3, <1>4 DEF Goto, Same
<1>5. CASE Continue(p, "force", [job[p] EXCEPT !.todo =
                                   {Entry(t) : t \in Visits("complete", job[p].sprint)}])
  <2> DEFINE T == {Entry(t) : t \in Visits("complete", job[p].sprint)}
             j == [job[p] EXCEPT !.todo = T]
  <2>1. \A e \in T : tasks[e.task].sprint = job[p].sprint
    BY DEF Visits, Entry
  <2> HIDE DEF T
  <2>2. /\ j.todo = T /\ j.sprint = job[p].sprint
        /\ j.cmd = job[p].cmd /\ j.from = job[p].from /\ j.to = job[p].to
    BY <1>1 DEF Job
  <2>3. Continue(p, "force", j)
    BY <1>5 DEF T
  <2> HIDE DEF j
  <2> QED
    BY <1>3, <2>1, <2>2, <2>3 DEF Same
<1> QED
  BY <1>4, <1>5 DEF ListForSync

\* The completion of a Sprint finishes a Task of it.
LEMMA Finishes ==
  ASSUME TypeInv, NEW t \in Task, NEW s \in Sprint, sprints[s].status = "completed",
         tasks[t].sprint = s, tasks' = [tasks EXCEPT ![t].status = "done"], UNCHANGED sprints
  PROVE  /\ [Promise!Next]_(Promise!vars)
         /\ \A u \in Task : tasks'[u].sprint = tasks[u].sprint
<1>1. tasks \in [Task -> Records] /\ s # NoSprint
  BY SprintAssumption DEF TypeInv, TasksOK
<1>2. ASSUME NEW u \in Task
      PROVE  /\ tasks'[u].sprint = tasks[u].sprint
             /\ tasks'[u].status = IF u = t THEN "done" ELSE tasks[u].status
  <2> DEFINE g == [tasks[u] EXCEPT !.status = "done"]
  <2>1. g.sprint = tasks[u].sprint /\ g.status = "done"
    BY <1>1 DEF Records
  <2>2. tasks'[u] = IF u = t THEN g ELSE tasks[u]
    BY <1>1
  <2> HIDE DEF g
  <2> QED
    BY <2>1, <2>2
<1>3. [u \in Task |-> tasks'[u].sprint] = [u \in Task |-> tasks[u].sprint]
  BY <1>2
<1>4. [u \in Task |-> tasks'[u].status]
        = [[u \in Task |-> tasks[u].status] EXCEPT ![t] = "done"]
  BY <1>2
<1>5. Promise!Finish(t)
  BY <1>1, <1>3, <1>4 DEF Promise!Finish
<1> QED
  BY <1>2, <1>5 DEF Promise!Next

LEMMA ForcePromised ==
  ASSUME OneByOne, TypeInv, TypeInv', PromiseInv, NEW p \in Proc, ForceStatus(p)
  PROVE  Promised
<1>0. /\ pc[p] = "force" /\ pc[p] \in After /\ pc[p] \in OnTheMove /\ (Fault \/ Works)
      /\ UNCHANGED <<sprints, folders, inner, docs, files>>
      /\ \A t \in Task : ~Awaits(p, t)
  BY DEF ForceStatus, disk, After, OnTheMove, Awaits, Assigning, Binding
<1>1. PICK s \in Sprint :
         /\ s = job[p].sprint /\ job[p] \in Job /\ job[p].cmd = "complete"
         /\ sprints[s].status = "completed"
         /\ \A e \in job[p].todo : tasks[e.task].sprint = s /\ e.task \in Task
  <2>1. /\ MoveReady(p) /\ BindReady(p) /\ job[p].sprint \in Sprint /\ job[p] \in Job
        /\ \A e \in job[p].todo : e.task \in Task
    BY <1>0, MoverFacts
  <2>2. job[p].cmd = "complete" /\ job[p].to = "completed"
        /\ sprints[job[p].sprint].status = job[p].to
    BY <1>0, <2>1 DEF MoveReady
  <2>3. \A e \in job[p].todo : tasks[e.task].sprint = job[p].sprint
    BY <1>0, <2>1 DEF BindReady
  <2> QED
    BY <2>1, <2>2, <2>3
<1>2. [Promise!Next]_(Promise!vars) /\ \A u \in Task : tasks'[u].sprint = tasks[u].sprint
  <2>1. CASE UNCHANGED tasks
    <3>1. SamePromise
      BY <1>0, <2>1 DEF SamePromise
    <3> QED
      BY <2>1, <3>1, PromiseStutters
  <2>2. ASSUME NEW e \in job[p].todo, tasks' = [tasks EXCEPT ![e.task].status = "done"]
        PROVE  [Promise!Next]_(Promise!vars)
               /\ \A u \in Task : tasks'[u].sprint = tasks[u].sprint
    BY <1>0, <1>1, <2>2, Finishes
  <2> QED
    BY <2>1, <2>2 DEF ForceStatus
<1>3. SameTree /\ SameTasks
  BY <1>0, <1>2, SameDocs DEF SameTasks
<1>4. ASSUME NEW l \in {"force", "focus"}, NEW T \in SUBSET job[p].todo,
             NEW j, j = [job[p] EXCEPT !.todo = T], Continue(p, l, j)
      PROVE  PromiseInv'
  <2>1. pc'[p] = l /\ job'[p] = j
    BY <1>4, Now
  <2>2. /\ j.todo = T /\ j.sprint = job[p].sprint
        /\ j.cmd = job[p].cmd /\ j.from = job[p].from /\ j.to = job[p].to
    BY <1>1, <1>4 DEF Job
  <2>3. Same(p, j)
    BY <2>2 DEF Same
  <2>4. BindReady(p)'
    BY <1>0, <1>1, <1>2, <1>4, <2>1, <2>2 DEF BindReady, Binding
  <2> QED
    BY <1>0, <1>1, <1>3, <1>4, <2>2, <2>3, <2>4, BindsOn DEF After
<1>5. CASE Goto(p, "focus")
  <2>1. job[p] = [job[p] EXCEPT !.todo = job[p].todo]
    BY <1>1 DEF Job
  <2>2. Continue(p, "focus", job[p])
    BY <1>5 DEF Goto
  <2>3. PromiseInv'
    BY <1>4, <2>1, <2>2
  <2> QED
    BY <1>2, <2>3 DEF Promised
<1>6. ASSUME NEW e \in job[p].todo, Continue(p, "force", Rest(p, e))
      PROVE  Promised
  <2>1. Rest(p, e) = [job[p] EXCEPT !.todo = job[p].todo \ {e}]
    BY DEF Rest
  <2>2. PromiseInv'
    BY <1>4, <1>6, <2>1
  <2> QED
    BY <1>2, <2>2 DEF Promised
<1> QED
  BY <1>5, <1>6 DEF ForceStatus

LEMMA FocusPromised ==
  ASSUME OneByOne, TypeInv, TypeInv', PromiseInv, NEW p \in Proc, UpdateCurrentFocus(p)
  PROVE  Promised
<1>0. /\ pc[p] = "focus" /\ Return(p) /\ (Fault \/ Works)
      /\ UNCHANGED <<sprints, tasks, folders, inner, docs, files>>
      /\ pc[p] \notin Moved /\ \A t \in Task : ~Awaits(p, t)
  BY DEF UpdateCurrentFocus, database, Moved, Awaits, Assigning, Binding
<1>1. SameTree /\ SameTasks /\ SamePromise
  BY <1>0, SameDocs DEF SameTasks, SamePromise
<1> QED
  BY <1>0, <1>1, QuietReturn, QuietPromised

LEMMA ReconcilePromised ==
  ASSUME OneByOne, TypeInv, TypeInv', PromiseInv, NEW p \in Proc,
         Compare(p) \/ ListDrift(p) \/ HealDrift(p)
  PROVE  Promised
<1>0. /\ pc[p] \in {"compare", "drift", "heal"} /\ (Fault \/ Works)
      /\ UNCHANGED <<sprints, folders, inner, docs, files>>
  BY DEF Compare, ListDrift, HealDrift, disk, database
<1>1. /\ pc[p] # "idle" /\ pc[p] \notin Moved /\ job[p] \in Job /\ JobOK(pc[p], job[p])
      /\ SaveReady(p) /\ (\A t \in Task : ~Awaits(p, t))
  BY <1>0, JobInHand
  DEF TypeInv, ControlOK, Moved, Awaits, Assigning, Binding, PromiseInv, CommandsReady
<1>2. \A u \in Task : tasks'[u].sprint = tasks[u].sprint /\ tasks'[u].status = tasks[u].status
  <2>1. \/ UNCHANGED tasks
        \/ \E e \in job[p].todo : tasks' = [tasks EXCEPT ![e.task].dir = files[e.task].dir]
    BY DEF Compare, ListDrift, HealDrift, database
  <2>2. \A e \in job[p].todo : e.task \in Task
    BY <1>1 DEF Job
  <2> QED
    BY <2>1, <2>2, PathOnly
<1>3. SameTree /\ SameTasks /\ SamePromise
  BY <1>0, <1>2, SameDocs DEF SameTasks, SamePromise
<1>4. ASSUME NEW l \in {"drift", "heal", "save"}, NEW j, Continue(p, l, j),
             j.cmd = job[p].cmd, j.sprint = job[p].sprint, j.row = job[p].row
      PROVE  Promised
  <2>1. pc'[p] = l /\ job'[p] = j
    BY <1>4, Now
  <2>2. MoveReady(p)' /\ BindReady(p)' /\ AssignReady(p)'
    BY <2>1, ReadySaving
  <2>3. SaveReady(p)'
    <3>1. job[p].cmd = "reconcile"
      BY <1>0, <1>1 DEF JobOK
    <3> QED
      BY <1>0, <1>1, <1>4, <2>1, <3>1 DEF SaveReady, HasDoc, NoDoc
  <2> QED
    BY <1>0, <1>1, <1>3, <2>2, <2>3, QuietStep, QuietPromised
<1>5. ASSUME NEW l \in {"drift", "heal", "save"}, NEW T, NEW to,
             \/ Continue(p, l, [job[p] EXCEPT !.to = to])
             \/ Continue(p, l, [job[p] EXCEPT !.todo = T])
             \/ Goto(p, l)
      PROVE  Promised
  <2>1. /\ [job[p] EXCEPT !.to = to].cmd = job[p].cmd
        /\ [job[p] EXCEPT !.to = to].sprint = job[p].sprint
        /\ [job[p] EXCEPT !.to = to].row = job[p].row
    BY <1>1 DEF Job
  <2>2. /\ [job[p] EXCEPT !.todo = T].cmd = job[p].cmd
        /\ [job[p] EXCEPT !.todo = T].sprint = job[p].sprint
        /\ [job[p] EXCEPT !.todo = T].row = job[p].row
    BY <1>1 DEF Job
  <2> QED
    BY <1>4, <1>5, <2>1, <2>2 DEF Goto
<1>6. CASE Return(p)
  BY <1>0, <1>1, <1>3, <1>6, QuietReturn, QuietPromised
<1>7. \/ Return(p)
      \/ \E l \in {"drift", "heal", "save"} : \E T, to :
            \/ Continue(p, l, [job[p] EXCEPT !.to = to])
            \/ Continue(p, l, [job[p] EXCEPT !.todo = T])
            \/ Goto(p, l)
  BY DEF Compare, ListDrift, HealDrift, Rest, Return
<1> QED
  BY <1>5, <1>6, <1>7

\* What a command has in hand while it assigns or unassigns a Task.
LEMMA AssignFacts ==
  ASSUME TypeInv, PromiseInv, NEW p \in Proc, pc[p] \in Assigning
  PROVE  /\ job[p] \in Job /\ JobOK(pc[p], job[p])
         /\ job[p].sprint \in Sprint /\ job[p].task \in Task
         /\ job[p].cmd \in {"assign", "unassign"}
         /\ job[p].cmd = "assign" => job[p].from \in Place
         /\ AssignReady(p) /\ Located(job[p].sprint) /\ FileKept(job[p].task)
         /\ pc[p] \notin Moved /\ pc[p] # "idle"
         /\ \A t \in Task : Awaits(p, t) => job[p].cmd = "assign" /\ t = job[p].task
<1>1. JobOK(pc[p], job[p]) /\ job[p] \in Job
  BY JobInHand DEF TypeInv
<1>2. /\ job[p].sprint \in Sprint /\ job[p].task \in Task
      /\ job[p].cmd \in {"assign", "unassign"}
      /\ job[p].cmd = "assign" => job[p].from \in Place
      /\ pc[p] \notin Moved /\ pc[p] # "idle"
  BY <1>1 DEF JobOK, Assigning, Moved
<1>3. AssignReady(p) /\ Located(job[p].sprint) /\ FileKept(job[p].task)
  BY <1>2 DEF PromiseInv, CommandsReady, SprintsKept, TasksKept
<1>4. \A t \in Task : Awaits(p, t) => job[p].cmd = "assign" /\ t = job[p].task
  BY DEF Awaits, Assigning, Binding
<1> QED
  BY <1>1, <1>2, <1>3, <1>4

\* Only what the job has behind it changes.
SameTask(p, j) == /\ j.cmd = job[p].cmd /\ j.sprint = job[p].sprint /\ j.task = job[p].task
                  /\ j.from = job[p].from /\ j.old = job[p].old

LEMMA SameTaskUpdates ==
  ASSUME TypeInv, NEW p \in Proc
  PROVE  SameTask(p, job[p]) /\ \A c : SameTask(p, Achieved(p, c))
<1>1. job[p] \in Job
  BY DEF TypeInv, ControlOK
<1>2. ASSUME NEW c PROVE SameTask(p, Achieved(p, c))
  <2>1. Achieved(p, c) = [job[p] EXCEPT !.behind = job[p].behind \cup {c}]
    BY DEF Achieved
  <2> QED
    BY <1>1, <2>1 DEF SameTask, Job
<1> QED
  BY <1>2 DEF SameTask

\* A compensation begins with the fault, or is under way.
LEMMA UndoesAfterFault ==
  ASSUME TypeInv, PromiseInv, NEW p \in Proc, pc[p] \in Assigning,
         Fault \/ (Works /\ pc[p] \in Undoing)
  PROVE  faults' # 0 /\ (job[p].cmd = "assign" => job[p].old = Unassigned)
<1>1. AssignReady(p)
  BY AssignFacts
<1>2. CASE Works /\ pc[p] \in Undoing
  BY <1>1, <1>2 DEF AssignReady, Works
<1>3. CASE Fault
  <2>1. faults' # 0 /\ faults < MaxFaults /\ faults \in Nat /\ MaxFaults \in Nat
    BY <1>3, FaultFacts
  <2>2. job[p].cmd = "assign" => MaxFaults <= 1
    BY <1>1 DEF AssignReady
  <2>3. job[p].cmd = "assign" => faults = 0
    BY <2>1, <2>2
  <2> QED
    BY <1>1, <2>1, <2>3 DEF AssignReady
<1> QED
  BY <1>2, <1>3

\* A step of an assignment that moves no file and binds no row.
LEMMA AssignsOn ==
  ASSUME OneByOne, TypeInv, TypeInv', PromiseInv, SameTree, SameTasks, Fault \/ Works,
         NEW p \in Proc, pc[p] \in Assigning, NEW l \in Assigning, NEW j, Continue(p, l, j),
         SameTask(p, j), l \notin {"rename", "set-path"},
         l \in Joining => pc[p] \in Joining, l \in Placed => pc[p] \in Placed,
         l \in Undoing => Fault \/ pc[p] \in Undoing
  PROVE  PromiseInv'
<1>1. l # "idle"
  BY DEF Assigning
<1>2. pc'[p] = l /\ job'[p] = j
  BY <1>1, Now
<1>3. PICK s \in Sprint, t \in Task : s = job[p].sprint /\ t = job[p].task
  BY AssignFacts
<1>4. New(p)' = New(p)
  BY <1>2 DEF New, SameTask
<1>5. l \in Undoing => faults' # 0 /\ (job[p].cmd = "assign" => job[p].old = Unassigned)
  BY UndoesAfterFault
<1>6. faults' = 0 => faults = 0
  BY FaultFacts
<1>7. tasks'[t].sprint = tasks[t].sprint /\ files'[t].dir = files[t].dir
      /\ sprints'[s] = sprints[s] /\ folders'[s] = folders[s]
  BY DEF SameTree, SameTasks
<1>8. AssignReady(p)'
  <2>1. AssignReady(p)
    BY AssignFacts
  <2>2. /\ job'[p].cmd = job[p].cmd /\ job'[p].sprint = s /\ job'[p].task = t
        /\ job'[p].from = job[p].from /\ job'[p].old = job[p].old
    BY <1>2, <1>3 DEF SameTask
  <2>3. pc'[p] \in Assigning /\ job'[p].cmd = "assign" =>
          /\ sprints'[s].status # "none" /\ folders'[s] = {job'[p].from}
          /\ tasks'[t].sprint \in {s, NoSprint}
          /\ pc'[p] \in Joining => tasks'[t].sprint = NoSprint
          /\ faults' = 0 \/ pc'[p] \in Undoing => job'[p].old = Unassigned
          /\ MaxFaults <= 1
    BY <1>2, <1>3, <1>5, <1>6, <1>7, <2>1, <2>2 DEF AssignReady
  <2>4. pc'[p] \in Assigning /\ job'[p].cmd = "unassign" =>
          /\ tasks'[t].sprint \in {s, NoSprint}
          /\ job'[p].old = Unassigned \/ \E m \in Place : job'[p].old = Folder(m, s)
    BY <1>2, <1>3, <1>7, <2>1, <2>2 DEF AssignReady
  <2>5. pc'[p] \in Placed => files'[t].dir = New(p)'
    BY <1>2, <1>3, <1>4, <1>7, <2>1 DEF AssignReady
  <2> QED
    BY <1>2, <1>3, <1>5, <2>2, <2>3, <2>4, <2>5 DEF AssignReady
<1>9. SaveReady(p)' /\ MoveReady(p)' /\ BindReady(p)'
  BY <1>2, ReadyAssigning
<1>10. \A u \in Task : Awaits(p, u) => Awaits(p, u)'
  BY <1>2, AssignFacts DEF Awaits, SameTask
<1>11. pc[p] \notin Moved
  BY AssignFacts
<1> QED
  BY <1>8, <1>9, <1>10, <1>11, QuietStep

\* Another set of rows leaves a SPRINT.md in its place.
LEMMA EditTree ==
  ASSUME TypeInv, PromiseInv, NEW p \in Proc, job[p].sprint \in Sprint, NEW rows,
         Edit(p, rows), UNCHANGED <<sprints, folders, inner>>
  PROVE  SameTree
<1>1. PICK s \in Sprint : s = job[p].sprint
  OBVIOUS
<1> DEFINE found == {l \in Place : SprintDir(s, l) /\ HasDoc(s, l)}
           D == [l \in Place |-> IF l \in found THEN [docs[s][l] EXCEPT !.rows = rows[l]]
                                 ELSE docs[s][l]]
<1>2. docs' = [docs EXCEPT ![s] = D]
  BY <1>1 DEF Edit
<1>3. docs \in [Sprint -> [Place -> Docs]]
  BY DEF TypeInv, FoldersOK
<1>4. ASSUME NEW l \in Place
      PROVE  /\ l \in found => D[l].status = docs[s][l].status /\ HasDoc(s, l)
             /\ l \notin found => D[l] = docs[s][l]
  <2>1. docs[s][l] \in Docs
    BY <1>3
  <2>2. [docs[s][l] EXCEPT !.rows = rows[l]].status = docs[s][l].status
    BY <2>1 DEF Docs
  <2> QED
    BY <2>2
<1> HIDE DEF D, found
<1>5. \A r \in Sprint : docs'[r] = IF r = s THEN D ELSE docs[r]
  BY <1>2, <1>3
<1>6. \A r \in Sprint, l \in Place : HasDoc(r, l) => docs[r][l].status # "none"
  BY DEF PromiseInv, SprintsKept, Located
<1>7. ASSUME NEW r \in Sprint, NEW l \in Place
      PROVE  /\ HasDoc(r, l)' <=> HasDoc(r, l)
             /\ HasDoc(r, l) => docs'[r][l].status # "none"
  <2>1. CASE docs'[r][l] = docs[r][l]
    BY <1>6, <2>1 DEF HasDoc, NoDoc
  <2>2. CASE r = s /\ l \in found
    <3>1. docs'[r][l].status = docs[r][l].status /\ HasDoc(r, l)
      BY <1>4, <1>5, <2>2
    <3>2. docs'[r][l].status # "none"
      BY <1>6, <3>1
    <3>3. NoDoc.status = "none"
      BY DEF NoDoc
    <3> QED
      BY <3>1, <3>2, <3>3 DEF HasDoc, NoDoc
  <2> QED
    BY <1>4, <1>5, <2>1, <2>2
<1> QED
  BY <1>7 DEF SameTree

LEMMA TagPromised ==
  ASSUME OneByOne, TypeInv, TypeInv', PromiseInv, NEW p \in Proc,
         Tag(p) \/ List(p) \/ EditRow(p) \/ DropRow(p) \/ Relist(p) \/ Untag(p)
  PROVE  Promised
<1>0. /\ pc[p] \in Assigning /\ (Fault \/ Works) /\ UNCHANGED <<database, folders, inner>>
  BY DEF Tag, List, EditRow, DropRow, Relist, Untag, Assigning
<1>1. job[p].sprint \in Sprint /\ job[p].task \in Task /\ AssignReady(p)
      /\ job[p].cmd \in {"assign", "unassign"}
  BY <1>0, AssignFacts
<1>2. SameTree
  <2>1. UNCHANGED docs \/ \E rows : Edit(p, rows)
    BY DEF Tag, List, EditRow, DropRow, Relist, Untag
  <2> QED
    BY <1>0, <1>1, <2>1, SameDocs, EditTree DEF database
<1>3. \A t \in Task : files'[t].dir = files[t].dir
  <2>1. PICK u \in Task : UNCHANGED files \/ \E v : files' = [files EXCEPT ![u].sprint = v]
    BY <1>1 DEF Tag, List, EditRow, DropRow, Relist, Untag
  <2>2. ASSUME NEW v, files' = [files EXCEPT ![u].sprint = v], NEW t \in Task
        PROVE  files'[t].dir = files[t].dir
    <3> DEFINE g == [files[t] EXCEPT !.sprint = v]
    <3>1. files \in [Task -> Records] /\ files[t] \in Records
      BY DEF TypeInv, TasksOK
    <3>2. g.dir = files[t].dir
      BY <3>1 DEF Records
    <3>3. files'[t] = IF t = u THEN g ELSE files[t]
      BY <2>2, <3>1
    <3> HIDE DEF g
    <3> QED
      BY <3>2, <3>3
  <2> QED
    BY <2>1, <2>2
<1>4. SameTasks /\ SamePromise
  BY <1>0, <1>3 DEF SameTasks, SamePromise, database
<1>5. ASSUME NEW l \in Assigning, NEW j, Continue(p, l, j), SameTask(p, j),
             l \notin {"rename", "set-path"},
             l \in Joining => pc[p] \in Joining, l \in Placed => pc[p] \in Placed,
             l \in Undoing => Fault \/ pc[p] \in Undoing
      PROVE  Promised
  <2>1. PromiseInv'
    BY <1>0, <1>2, <1>4, <1>5, AssignsOn
  <2> QED
    BY <1>4, <2>1, QuietPromised
<1>6. SameTask(p, job[p]) /\ \A c : SameTask(p, Achieved(p, c))
  BY SameTaskUpdates
<1>7. ASSUME NEW l \in {"unlist", "row", "set-sprint"}, pc[p] \in {"tag", "unlist", "row"},
             NEW c, Continue(p, l, Achieved(p, c)) \/ Goto(p, l)
      PROVE  Promised
  <2>1. l \in Assigning /\ l \notin {"rename", "set-path"} /\ l \notin Undoing
        /\ pc[p] \in Joining /\ pc[p] \in Placed
    BY <1>7 DEF Assigning, Undoing, Joining, Placed
  <2> QED
    BY <1>5, <1>6, <1>7, <2>1 DEF Goto
<1>8. ASSUME NEW l \in Undoing, Goto(p, l), Fault \/ pc[p] \in Undoing
      PROVE  Promised
  <2>1. l \in Assigning /\ l \notin {"rename", "set-path"} /\ l \notin Joining /\ l \notin Placed
    BY DEF Assigning, Undoing, Joining, Placed
  <2> QED
    BY <1>5, <1>6, <1>8, <2>1 DEF Goto
<1>9. CASE Tag(p)
  <2>1. files[job[p].task].dir = New(p)
    BY <1>1, <1>9 DEF Tag, AssignReady, Placed
  <2>2. Recovers(p) \in Undoing
    BY DEF Recovers, Undoing
  <2>3. \/ Fault /\ Goto(p, Recovers(p))
        \/ \E l \in {"unlist", "row"} : Continue(p, l, Achieved(p, "tag"))
    BY <1>9, <2>1 DEF Tag
  <2>4. pc[p] = "tag"
    BY <1>9 DEF Tag
  <2> QED
    BY <1>7, <1>8, <2>2, <2>3, <2>4
<1>10. CASE List(p) \/ EditRow(p)
  <2>1. \E l \in {"unlist", "row", "set-sprint"}, c \in {"unlist", "row"} :
           Continue(p, l, Achieved(p, c)) \/ Goto(p, l)
    BY <1>10 DEF List, EditRow
  <2>2. pc[p] \in {"tag", "unlist", "row"}
    BY <1>10 DEF List, EditRow
  <2> QED
    BY <1>7, <2>1, <2>2
<1>11. CASE DropRow(p) \/ Relist(p) \/ Untag(p)
  <2>1. pc[p] \in Undoing /\ \E l \in {"relist", "untag", "put-back"} : Goto(p, l)
    BY <1>11 DEF DropRow, Relist, Untag, Undoing
  <2>2. {"relist", "untag", "put-back"} \subseteq Undoing
    BY DEF Undoing
  <2> QED
    BY <1>8, <2>1, <2>2
<1> QED
  BY <1>9, <1>10, <1>11

LEMMA SprintsStay ==
  ASSUME OneByOne, TypeInv, PromiseInv, SameTree, Fault \/ Works, NEW p \in Proc,
         pc[p] \notin Moved
  PROVE  SprintsKept'
<1>1. \A s \in Sprint : Located(s)'
  BY TreeStays DEF PromiseInv
<1>2. ASSUME NEW s \in Sprint PROVE Settled(s)'
  <2>1. Settled(s) /\ UNCHANGED <<sprints, folders>>
    BY DEF PromiseInv, SprintsKept, SameTree
  <2>2. faults' = 0 => faults = 0
    BY FaultFacts
  <2> QED
    BY <2>1, <2>2 DEF Settled, OneByOne
<1> QED
  BY <1>1, <1>2 DEF SprintsKept

\* An assignment that touches one Task leaves the others alone.
LEMMA OtherTasks ==
  ASSUME OneByOne, TypeInv, PromiseInv, UNCHANGED folders, Fault \/ Works, NEW p \in Proc,
         pc[p] \in Assigning, NEW t \in Task, t = job[p].task,
         \A u \in Task : u # t => /\ tasks'[u].sprint = tasks[u].sprint
                                  /\ files'[u].dir = files[u].dir,
         FileKept(t)',
         faults' = 0 /\ Half(t)' => Awaits(p, t)'
  PROVE  TasksKept'
<1>1. ASSUME NEW u \in Task, u # t
      PROVE  FileKept(u)' /\ (faults' = 0 => ~Half(u)')
  <2>1. FileKept(u) /\ tasks'[u].sprint = tasks[u].sprint /\ files'[u].dir = files[u].dir
    BY <1>1 DEF PromiseInv, TasksKept
  <2>2. Half(u)' <=> Half(u)
    BY <2>1 DEF Half
  <2>3. ~Awaits(p, u)
    BY <1>1, AssignFacts
  <2>4. faults' = 0 => ~Half(u)
    BY <2>3, AloneAwaits, FaultFacts
  <2> QED
    BY <2>1, <2>2, <2>4 DEF FileKept
<1> QED
  BY <1>1 DEF TasksKept, HalfAwaited

LEMMA RenamePromised ==
  ASSUME OneByOne, TypeInv, TypeInv', PromiseInv, NEW p \in Proc, Rename(p)
  PROVE  Promised
<1>0. pc[p] = "rename" /\ pc[p] \in Assigning /\ (Fault \/ Works)
      /\ UNCHANGED <<sprints, tasks, inner, docs>>
  BY DEF Rename, Assigning, database
<1>1. PICK s \in Sprint, t \in Task :
         /\ s = job[p].sprint /\ t = job[p].task /\ AssignReady(p) /\ FileKept(t)
         /\ job[p].cmd \in {"assign", "unassign"}
         /\ job[p].cmd = "assign" => job[p].from \in Place
         /\ files[t].dir = job[p].old /\ pc[p] \notin Moved
  <2>1. files[job[p].task].dir = job[p].old
    BY <1>0, AssignFacts DEF AssignReady
  <2> QED
    BY <1>0, <2>1, AssignFacts
<1>2. job[p].cmd = "assign" =>
         /\ folders[s] = {job[p].from} /\ sprints[s].status # "none"
         /\ tasks[t].sprint = NoSprint /\ MaxFaults <= 1
         /\ faults = 0 => job[p].old = Unassigned
  BY <1>0, <1>1 DEF AssignReady, Joining
<1>3. UNCHANGED folders
  <2>1. CASE job[p].cmd = "assign"
    <3>1. folders' = [folders EXCEPT ![s] = folders[s] \cup {job[p].from}]
      BY <1>1, <2>1 DEF Rename
    <3>2. folders[s] \cup {job[p].from} = folders[s] /\ folders \in [Sprint -> SUBSET Place]
      BY <1>2, <2>1 DEF TypeInv, FoldersOK
    <3> QED
      BY <3>1, <3>2
  <2> QED
    BY <2>1 DEF Rename
<1>4. SameTree /\ SamePromise
  BY <1>0, <1>3, SameDocs DEF SamePromise
<1>5. CASE Fault /\ Return(p) /\ UNCHANGED files
  <2>1. SameTasks
    BY <1>0, <1>5 DEF SameTasks
  <2> QED
    BY <1>4, <1>5, <2>1, FaultFacts, QuietReturn, QuietPromised
<1>6. CASE Works /\ Goto(p, "tag") /\ files' = [files EXCEPT ![t].dir = New(p)]
  <2>1. pc'[p] = "tag" /\ job'[p] = job[p]
    BY <1>6, Now DEF Goto
  <2>2. New(p)' = New(p)
    BY <2>1 DEF New
  <2>3. files'[t].dir = New(p) /\ \A u \in Task : u # t => files'[u] = files[u]
    <3>1. files \in [Task -> Records]
      BY DEF TypeInv, TasksOK
    <3>2. [files[t] EXCEPT !.dir = New(p)].dir = New(p)
      BY <3>1 DEF Records
    <3> QED
      BY <1>6, <3>1, <3>2
  <2>4. FileKept(t)' /\ (job[p].cmd = "unassign" => ~Half(t)')
    <3>1. CASE job[p].cmd = "assign"
      <4>1. files'[t].dir = Folder(job[p].from, s) /\ tasks'[t].sprint = NoSprint
        BY <1>0, <1>1, <1>2, <2>3, <3>1 DEF New
      <4>2. job[p].from \in folders'[s]
        BY <1>2, <1>3, <3>1
      <4> QED
        BY <1>1, <3>1, <4>1, <4>2 DEF FileKept
    <3>2. CASE job[p].cmd = "unassign"
      BY <2>3, <3>2 DEF New, FileKept, Half
    <3> QED
      BY <1>1, <3>1, <3>2
  <2>5. Half(t)' => Awaits(p, t)'
    BY <1>1, <2>1, <2>4 DEF Awaits, Assigning
  <2>6. TasksKept'
    BY <1>0, <1>1, <1>3, <2>3, <2>4, <2>5, OtherTasks
  <2>7. SaveReady(p)' /\ MoveReady(p)' /\ BindReady(p)'
    BY <2>1, ReadyAssigning DEF Assigning
  <2>8. AssignReady(p)'
    <3>1. AssignReady(p)
      BY <1>1
    <3>2. tasks'[t].sprint = tasks[t].sprint /\ sprints' = sprints /\ folders' = folders
          /\ faults' = faults /\ job'[p] = job[p]
      BY <1>0, <1>3, <1>6, <2>1 DEF Works
    <3> QED
      BY <1>0, <1>1, <1>2, <2>1, <2>2, <2>3, <3>1, <3>2
      DEF AssignReady, Joining, Undoing, Assigning
  <2> QED
    BY <1>0, <1>1, <1>4, <2>6, <2>7, <2>8, SprintsStay, QuietPromised
    DEF PromiseInv, CommandsReady, OneByOne
<1> QED
  BY <1>1, <1>5, <1>6 DEF Rename

LEMMA SetSprintPromised ==
  ASSUME OneByOne, TypeInv, TypeInv', PromiseInv, NEW p \in Proc, SetSprint(p)
  PROVE  Promised
<1>0. pc[p] = "set-sprint" /\ pc[p] \in Assigning /\ (Fault \/ Works)
      /\ UNCHANGED <<sprints, folders, inner, docs, files>>
  BY DEF SetSprint, Assigning, disk
<1>1. PICK s \in Sprint, t \in Task :
         /\ s = job[p].sprint /\ t = job[p].task /\ AssignReady(p) /\ FileKept(t)
         /\ job[p].cmd \in {"assign", "unassign"} /\ pc[p] \notin Moved
  BY <1>0, AssignFacts
<1>2. SameTree
  BY <1>0, SameDocs
<1>3. CASE Fault /\ Goto(p, Recovers(p)) /\ UNCHANGED tasks
  <2>1. SameTasks /\ SamePromise
    BY <1>0, <1>3 DEF SameTasks, SamePromise
  <2>2. /\ Recovers(p) \in Undoing /\ Recovers(p) \in Assigning
        /\ Recovers(p) \notin Joining /\ Recovers(p) \notin Placed
        /\ Recovers(p) \notin {"rename", "set-path"}
    BY DEF Recovers, Undoing, Assigning, Joining, Placed
  <2>3. PromiseInv'
    BY <1>0, <1>2, <1>3, <2>1, <2>2, SameTaskUpdates, AssignsOn DEF Goto
  <2> QED
    BY <2>1, <2>3, QuietPromised
<1>4. CASE Works /\ Goto(p, "set-path")
           /\ tasks' = [tasks EXCEPT ![t].sprint = New(p).sprint]
  <2>1. pc'[p] = "set-path" /\ job'[p] = job[p] /\ faults' = faults
    BY <1>4, Now DEF Goto, Works
  <2>2. New(p)' = New(p) /\ files'[t].dir = New(p)
    BY <1>0, <1>1, <2>1 DEF New, AssignReady, Placed
  <2>3. /\ [Promise!Next]_(Promise!vars)
        /\ \A u \in Task : tasks'[u].sprint = IF u = t THEN New(p).sprint ELSE tasks[u].sprint
    <3>1. CASE job[p].cmd = "assign"
      <4>1. New(p).sprint = s
        BY <1>1, <3>1, DirFacts DEF New
      <4>2. sprints[s].status # "none" /\ tasks[t].sprint \in {s, NoSprint}
        BY <1>0, <1>1, <3>1 DEF AssignReady
      <4> QED
        BY <1>0, <1>4, <4>1, <4>2, Joins
    <3>2. CASE job[p].cmd = "unassign"
      <4>1. New(p).sprint = NoSprint
        BY <3>2, DirFacts DEF New
      <4> QED
        BY <1>0, <1>4, <4>1, Leaves
    <3> QED
      BY <1>1, <3>1, <3>2
  <2>4. FileKept(t)' /\ ~Half(t)'
    <3>1. CASE job[p].cmd = "assign"
      <4>1. New(p) = Folder(job[p].from, s) /\ s # NoSprint
        BY <1>1, <3>1, SprintAssumption DEF New
      <4>2. tasks'[t].sprint = s /\ files'[t].dir.sprint = s
        BY <2>2, <2>3, <4>1, DirFacts
      <4>3. files'[t].dir = files[t].dir /\ folders' = folders
        BY <1>0
      <4> QED
        BY <1>1, <4>1, <4>2, <4>3 DEF FileKept, Half
    <3>2. CASE job[p].cmd = "unassign"
      BY <2>2, <3>2 DEF New, FileKept, Half
    <3> QED
      BY <1>1, <3>1, <3>2
  <2>5. TasksKept'
    BY <1>0, <1>1, <2>3, <2>4, OtherTasks
  <2>6. SaveReady(p)' /\ MoveReady(p)' /\ BindReady(p)'
    BY <2>1, ReadyAssigning DEF Assigning
  <2>7. AssignReady(p)'
    <3>1. AssignReady(p) /\ sprints' = sprints /\ folders' = folders
      BY <1>0, <1>1
    <3>2. job[p].cmd = "assign" => New(p).sprint = s
      BY <1>1, DirFacts DEF New
    <3>3. job[p].cmd = "unassign" => New(p).sprint = NoSprint
      BY DirFacts DEF New
    <3>4. job[p].cmd = "assign" => tasks'[t].sprint = s
      BY <2>3, <3>2
    <3>5. job[p].cmd = "unassign" => tasks'[t].sprint = NoSprint
      BY <2>3, <3>3
    <3> QED
      BY <1>0, <1>1, <2>1, <2>2, <3>1, <3>4, <3>5
      DEF AssignReady, Joining, Undoing, Assigning
  <2> QED
    BY <1>1, <1>2, <2>3, <2>5, <2>6, <2>7, <1>0, SprintsStay
    DEF Promised, PromiseInv, CommandsReady, OneByOne
<1> QED
  BY <1>1, <1>3, <1>4 DEF SetSprint

LEMMA SetPathPromised ==
  ASSUME OneByOne, TypeInv, TypeInv', PromiseInv, NEW p \in Proc, SetPath(p)
  PROVE  Promised
<1>0. pc[p] = "set-path" /\ pc[p] \in Assigning /\ (Fault \/ Works)
      /\ UNCHANGED <<sprints, folders, inner, docs, files>>
  BY DEF SetPath, Assigning, disk
<1>1. PICK s \in Sprint, t \in Task :
         /\ s = job[p].sprint /\ t = job[p].task /\ AssignReady(p) /\ pc[p] \notin Moved
         /\ \A u \in Task : Awaits(p, u) => job[p].cmd = "assign" /\ u = t
  BY <1>0, AssignFacts
<1>2. \A u \in Task : tasks'[u].sprint = tasks[u].sprint /\ tasks'[u].status = tasks[u].status
  <2>1. UNCHANGED tasks \/ \E d : tasks' = [tasks EXCEPT ![t].dir = d]
    BY <1>1 DEF SetPath
  <2> QED
    BY <2>1, PathOnly
<1>3. SameTree /\ SameTasks /\ SamePromise
  BY <1>0, <1>2, SameDocs DEF SameTasks, SamePromise
<1>4. CASE Fault /\ Goto(p, Recovers(p))
  <2>1. /\ Recovers(p) \in Undoing /\ Recovers(p) \in Assigning
        /\ Recovers(p) \notin Joining /\ Recovers(p) \notin Placed
        /\ Recovers(p) \notin {"rename", "set-path"}
    BY DEF Recovers, Undoing, Assigning, Joining, Placed
  <2>2. PromiseInv'
    BY <1>0, <1>3, <1>4, <2>1, SameTaskUpdates, AssignsOn DEF Goto
  <2> QED
    BY <1>3, <2>2, QuietPromised
<1>5. CASE Works /\ Return(p)
  <2>1. job[p].cmd = "assign" => tasks[t].sprint # NoSprint
    BY <1>0, <1>1, SprintAssumption DEF AssignReady
  <2>2. \A u \in Task : ~(Half(u) /\ Awaits(p, u))
    BY <1>1, <2>1 DEF Half
  <2> QED
    BY <1>0, <1>1, <1>3, <1>5, <2>2, QuietReturn, QuietPromised
<1> QED
  BY <1>4, <1>5 DEF SetPath

LEMMA PutBackPromised ==
  ASSUME OneByOne, TypeInv, TypeInv', PromiseInv, NEW p \in Proc, PutBack(p)
  PROVE  Promised
<1>0. pc[p] = "put-back" /\ pc[p] \in Assigning /\ pc[p] \in Undoing /\ (Fault \/ Works)
      /\ UNCHANGED <<sprints, tasks, folders, inner, docs>> /\ Return(p)
  BY DEF PutBack, Assigning, Undoing, database
<1>1. PICK s \in Sprint, t \in Task :
         /\ s = job[p].sprint /\ t = job[p].task /\ AssignReady(p) /\ FileKept(t)
         /\ job[p].cmd \in {"assign", "unassign"} /\ pc[p] \notin Moved
  BY <1>0, AssignFacts
<1>2. PICK old : old = job[p].old
  OBVIOUS
<1>3. faults' # 0 /\ (job[p].cmd = "assign" => old = Unassigned)
  BY <1>0, <1>2, UndoesAfterFault
<1>4. SameTree /\ SamePromise
  BY <1>0, SameDocs DEF SamePromise
<1>5. CASE UNCHANGED files
  <2>1. SameTasks
    BY <1>0, <1>5 DEF SameTasks
  <2> QED
    BY <1>0, <1>3, <1>4, <2>1, QuietReturn, QuietPromised
<1>6. CASE /\ files' = [files EXCEPT ![t].dir = old]
           /\ old = Unassigned \/ old.place \in folders[old.sprint]
  <2>1. files'[t].dir = old /\ \A u \in Task : u # t => files'[u] = files[u]
    <3>1. files \in [Task -> Records]
      BY DEF TypeInv, TasksOK
    <3>2. [files[t] EXCEPT !.dir = old].dir = old
      BY <3>1 DEF Records
    <3> QED
      BY <1>6, <3>1, <3>2
  <2>2. FileKept(t)'
    <3>1. CASE old = Unassigned
      BY <2>1, <3>1 DEF FileKept, Unassigned
    <3>2. CASE old # Unassigned
      <4>1. PICK m \in Place : old = Folder(m, s)
        BY <1>0, <1>1, <1>2, <1>3, <3>2 DEF AssignReady
      <4>2. tasks[t].sprint \in {s, NoSprint}
        BY <1>0, <1>1 DEF AssignReady
      <4>3. m \in folders'[s] /\ files'[t].dir = Folder(m, s) /\ files'[t].dir.sprint = s
            /\ tasks'[t].sprint \in {s, NoSprint}
        BY <1>0, <1>6, <2>1, <3>2, <4>1, <4>2, DirFacts
      <4> QED
        BY <1>1, <4>1, <4>3 DEF FileKept
    <3> QED
      BY <3>1, <3>2
  <2>3. TasksKept'
    BY <1>0, <1>1, <1>3, <2>1, <2>2, OtherTasks
  <2> QED
    BY <1>0, <1>1, <1>4, <2>3, IdleReady, SprintsStay, QuietPromised
    DEF PromiseInv, CommandsReady, OneByOne
<1>7. \/ UNCHANGED files
      \/ /\ files' = [files EXCEPT ![t].dir = old]
         /\ old = Unassigned \/ old.place \in folders[old.sprint]
  BY <1>1, <1>2 DEF PutBack
<1> QED
  BY <1>5, <1>6, <1>7

LEMMA CrashPromised ==
  ASSUME OneByOne, TypeInv, TypeInv', PromiseInv, NEW p \in Proc, Crash(p)
  PROVE  Promised
<1>1. Fault /\ Return(p) /\ UNCHANGED <<sprints, tasks, folders, inner, docs, files>>
  BY DEF Crash, database, disk
<1>2. SameTree /\ SameTasks /\ SamePromise
  BY <1>1, SameDocs DEF SameTasks, SamePromise
<1> QED
  BY <1>1, <1>2, FaultFacts, QuietReturn, QuietPromised

\* Nothing in hand changes while no command takes a step.
LEMMA Untouched ==
  ASSUME PromiseInv, SameTree, SameTasks, UNCHANGED <<pc, job, faults>>, TypeInv
  PROVE  PromiseInv'
<1>1. ASSUME NEW s \in Sprint PROVE Located(s)' /\ Settled(s)'
  <2>1. Located(s)'
    BY TreeStays DEF PromiseInv
  <2>2. Settled(s)
    BY DEF PromiseInv, SprintsKept
  <2> QED
    BY <2>1, <2>2 DEF Settled, SameTree
<1>2. (\A t \in Task : FileKept(t)' /\ (Half(t)' <=> Half(t)))
  BY TasksStay DEF PromiseInv, SameTree
<1>3. ASSUME NEW p \in Proc, NEW t \in Task PROVE Awaits(p, t)' <=> Awaits(p, t)
  BY DEF Awaits, SameTasks
<1>4. HalfAwaited'
  BY <1>2, <1>3 DEF HalfAwaited, PromiseInv, TasksKept
<1>5. ASSUME NEW p \in Proc
      PROVE  SaveReady(p)' /\ MoveReady(p)' /\ BindReady(p)' /\ AssignReady(p)'
  <2>1. SaveReady(p) /\ MoveReady(p) /\ BindReady(p) /\ AssignReady(p)
        /\ JobOK(pc[p], job[p]) /\ job[p] \in Job
    BY DEF PromiseInv, CommandsReady, TypeInv, ControlOK
  <2>2. SaveReady(p)'
    <3>1. pc[p] # "idle" => job[p].sprint \in Sprint
      BY <2>1 DEF JobOK
    <3>2. \A s \in Sprint, l \in Place : HasDoc(s, l) => HasDoc(s, l)'
      BY DEF SameTree
    <3>3. pc[p] = "save" /\ job[p].cmd = "create" => HasDoc(job[p].sprint, "backlog")'
      <4>1. "backlog" \in Place
        BY DEF Place
      <4> QED
        BY <2>1, <3>1, <3>2, <4>1 DEF SaveReady, HasDoc, NoDoc
    <3>4. pc[p] # "idle" /\ job[p].cmd = "reconcile" =>
             job[p].row.status \in Place /\ HasDoc(job[p].sprint, job[p].row.status)'
      BY <2>1, <3>1, <3>2 DEF SaveReady, HasDoc, NoDoc
    <3> QED
      BY <2>1, <3>3, <3>4 DEF SaveReady, SameTree, HasDoc
  <2>3. MoveReady(p)'
    BY <2>1 DEF MoveReady, SameTree
  <2>4. BindReady(p)'
    <3>1. \A e \in job[p].todo : e.task \in Task
      BY <2>1 DEF Job
    <3>2. pc[p] = "bind-sprint" => job[p].task \in Task
      BY <2>1 DEF JobOK
    <3> QED
      BY <2>1, <3>1, <3>2 DEF BindReady, SameTasks
  <2>5. AssignReady(p)'
    <3>1. pc[p] \in Assigning => job[p].task \in Task
      BY <2>1 DEF JobOK
    <3>2. New(p)' = New(p)
      BY DEF New
    <3> QED
      BY <2>1, <3>1, <3>2 DEF AssignReady, SameTree, SameTasks, Placed, Assigning, Undoing
  <2> QED
    BY <2>2, <2>3, <2>4, <2>5
<1> QED
  BY <1>1, <1>2, <1>4, <1>5 DEF PromiseInv, SprintsKept, CommandsReady, TasksKept

LEMMA ProgressPromised ==
  ASSUME TypeInv, PromiseInv, NEW t \in Task, Progress(t)
  PROVE  Promised
<1>0. UNCHANGED <<sprints, folders, inner, docs, pc, job, faults>>
  BY DEF Progress, control
<1> DEFINE st == IF tasks[t].status = "todo" THEN "in-progress" ELSE "done"
<1>1. tasks \in [Task -> Records] /\ files \in [Task -> Records]
  BY DEF TypeInv, TasksOK
<1>2. ASSUME NEW u \in Task
      PROVE  /\ tasks'[u].sprint = tasks[u].sprint
             /\ tasks'[u].status = IF u = t THEN st ELSE tasks[u].status
             /\ files'[u].dir = files[u].dir
  <2> DEFINE g == [tasks[t] EXCEPT !.status = st, !.dir = files[t].dir]
             h == [files[t] EXCEPT !.status = st]
  <2>1. g.sprint = tasks[t].sprint /\ g.status = st /\ h.dir = files[t].dir
    BY <1>1 DEF Records
  <2>2. /\ tasks' = [tasks EXCEPT ![t].status = st, ![t].dir = files[t].dir]
        /\ files' = [files EXCEPT ![t].status = st]
    BY DEF Progress
  <2>3. /\ tasks'[t] = g /\ files'[t] = h
        /\ u # t => tasks'[u] = tasks[u] /\ files'[u] = files[u]
    BY <1>1, <2>2
  <2> HIDE DEF g, h, st
  <2> QED
    BY <2>1, <2>3
<1>3. SameTree /\ SameTasks
  BY <1>0, <1>2, SameDocs DEF SameTasks
<1>4. Promise!DoWork(t)
  <2>1. [u \in Task |-> tasks'[u].sprint] = [u \in Task |-> tasks[u].sprint]
    BY <1>2
  <2>2. [u \in Task |-> tasks'[u].status] = [[u \in Task |-> tasks[u].status] EXCEPT ![t] = st]
    BY <1>2
  <2>3. tasks[t].status = "todo" \/ tasks[t].status = "in-progress"
    BY DEF Progress
  <2> QED
    BY <1>0, <2>1, <2>2, <2>3 DEF Promise!DoWork
<1> QED
  BY <1>0, <1>3, <1>4, Untouched DEF Promised, Promise!Next

LEMMA StepPromised ==
  ASSUME OneByOne, Unforced, TypeInv, TypeInv', PromiseInv, [Next]_vars
  PROVE  Promised
<1>1. ASSUME NEW p \in Proc, Step(p) PROVE Promised
  <2>1. CASE CreateFolder(p) \/ WriteDocument(p) \/ SaveToDB(p)
    BY <2>1, CreatePromised
  <2>2. CASE Collect(p) \/ WriteFrontmatter(p) \/ ReturnTask(p)
    BY <2>2, CollectPromised, ReturnPromised
  <2>3. CASE MoveSprint(p) \/ Sweep(p) \/ Stamp(p) \/ Record(p)
    BY <2>3, MovePromised, SweepPromised, StampPromised, RecordPromised
  <2>4. CASE \/ UpdateTaskPathsForSprint(p) \/ ListFiles(p)
             \/ Bind(p) \/ BindSprint(p) \/ BindPath(p)
    BY <2>4, PathsPromised, ListPromised, BindPromised, BindSprintPromised, BindPathPromised
  <2>5. CASE ListForSync(p) \/ ForceStatus(p) \/ UpdateCurrentFocus(p)
    BY <2>5, SyncPromised, ForcePromised, FocusPromised
  <2>6. CASE Compare(p) \/ ListDrift(p) \/ HealDrift(p)
    BY <2>6, ReconcilePromised
  <2>7. CASE \/ Tag(p) \/ List(p) \/ EditRow(p) \/ DropRow(p) \/ Relist(p) \/ Untag(p)
             \/ Rename(p) \/ SetSprint(p) \/ SetPath(p) \/ PutBack(p)
    BY <2>7, TagPromised, RenamePromised, SetSprintPromised, SetPathPromised, PutBackPromised
  <2> QED
    BY <1>1, <2>1, <2>2, <2>3, <2>4, <2>5, <2>6, <2>7 DEF Step
<1>2. ASSUME UNCHANGED vars PROVE Promised
  <2>1. SameTree /\ SameTasks /\ SamePromise /\ UNCHANGED <<pc, job, faults>>
    BY <1>2, SameDocs DEF vars, SameTasks, SamePromise
  <2> QED
    BY <2>1, Untouched, QuietPromised
<1> QED
  BY <1>1, <1>2, BeginPromised, CrashPromised, ProgressPromised DEF Next

\* Commands that run one at a time take a Sprint only through the statuses the
\* promise allows, let a Task join only a Sprint there is, and mark one done only
\* from in-progress or with its Sprint completed, whatever command fails or
\* crashes halfway: for any number of Sprints, Tasks, commands and faults, as long
\* as no menu forces a status or writes it to the database only, and one that
\* assigns Tasks comes with at most one fault.  With two, an assignment to one Sprint
\* may crash and one to another fail at its last statement: its compensation puts the
\* file back into the folder of the first and leaves the row with the second, and
\* `sprint start` of the first takes the Task from there.
THEOREM CommandsKeepPromise ==
  ASSUME OneByOne, Unforced
  PROVE  Spec => SprintPromiseKept
<1>1. Init => TypeInv /\ PromiseInv
  BY TypeInvInit, PromiseInvInit
<1>2. TypeInv /\ PromiseInv /\ [Next]_vars => TypeInv' /\ PromiseInv'
  BY TypeInvStep, StepPromised DEF Promised
<1>3. TypeInv /\ PromiseInv /\ [Next]_vars => [Promise!Next]_(Promise!vars)
  BY TypeInvStep, StepPromised DEF Promised
<1>4. Init => Promise!Init
  <2> SUFFICES ASSUME Init PROVE Promise!Init
    OBVIOUS
  <2>1. \A s \in Sprint : sprints[s].status \in {"none", "backlog"}
    BY DEF Init, NewRow, NoJob
  <2>2. \A t \in Task : tasks[t].status = "todo" /\ tasks[t].sprint = Enrolled[t]
    BY DEF Init
  <2>3. \A t \in Task : Enrolled[t] \in Sprint \cup {NoSprint}
    BY SprintAssumption
  <2> QED
    BY <2>1, <2>2, <2>3 DEF Promise!Init
<1> QED
  BY <1>1, <1>2, <1>3, <1>4, PTL DEF Spec, SprintPromiseKept, Promise!Spec
-----------------------------------------------------------------------------
(* All records agree.  At rest every record of a Sprint and of a Task says *)
(* the same; a command under way differs from that in what its label has   *)
(* behind it.                                                              *)

Calm == faults = 0 /\ menu \cap Discards = {}
Standing == Place \ {"discarded"}
Early == {"collect", "frontmatter", "move"}
Ended == {"paths", "list", "bind", "bind-sprint", "bind-path", "sync", "force", "focus"}
Halfway == {"rename", "tag", "unlist", "row", "set-sprint", "set-path"}

\* What there is of a Sprint: nothing; its folder with or without SPRINT.md; a row
\* that says row, a folder at place, a SPRINT.md there that says stamp.
Absent(s) == sprints[s] = NoJob.row /\ folders[s] = {} /\ \A l \in Place : docs[s][l] = NoDoc
Begun(s, doc) ==
  /\ sprints[s] = NoJob.row
  /\ folders[s] = {"backlog"}
  /\ \A l \in Place : docs[s][l] = IF l = "backlog" THEN doc ELSE NoDoc
Stands(s, row, place, stamp) ==
  /\ sprints[s] = [status |-> row, folder |-> row]
  /\ folders[s] = {place}
  /\ \A l \in Place : HasDoc(s, l) <=> l = place
  /\ docs[s][place].status = stamp
AtRest(s) == Absent(s) \/ \E l \in Standing : Stands(s, l, l, l)

\* The Sprint a command is about.
Underway(p, s) ==
  LET l == pc[p]
      j == job[p]
  IN  /\ l = "folder" => Absent(s)
      /\ l = "document" => Begun(s, NoDoc)
      /\ l = "save" /\ j.cmd = "create" => Begun(s, NewDoc)
      /\ l = "save" /\ j.cmd # "create" => AtRest(s)
      /\ l \in Assigning \cup {"compare", "drift", "heal"} => AtRest(s)
      /\ l \in OnTheMove => \A a, b \in Place : a = j.from /\ b = j.to =>
           /\ l \in Early => Stands(s, a, a, a)
           /\ l \in {"sweep", "stamp"} => Stands(s, a, b, a)
           /\ l = "record" => Stands(s, a, b, b)
           /\ l \in Ended => Stands(s, b, b, b)
About(p, s) == pc[p] # "idle" /\ s = job[p].sprint
SprintsHeld(p) ==
  \A s \in Sprint : /\ inner[s] = {}
                    /\ About(p, s) => Underway(p, s)
                    /\ ~About(p, s) => AtRest(s)

\* SPRINT.md lists t if it is the one of m; the file of t is in the folder of m.
Listed(t, m) == \A s \in Sprint, l \in Place : t \in docs[s][l].rows <=> s = m /\ HasDoc(s, l)
Home(t, m) == IF m = NoSprint THEN files[t].dir = Unassigned
              ELSE \E l \in folders[m] : files[t].dir = Folder(l, m)
Exists(m) == m # NoSprint => sprints[m].status # "none"

\* A Task that a command does not assign: only complete is ahead of its status, and
\* only a move of its Sprint of its path.
Member(t, m) == /\ files[t].sprint = m /\ Home(t, m) /\ Listed(t, m) /\ Exists(m)
                /\ t \in backlog <=> m = NoSprint
Late(t, p) == /\ pc[p] \in OnTheMove \ {"collect", "focus"} /\ job[p].cmd = "complete"
              /\ files[t].status = "done"
              /\ pc[p] = "force" => Entry(t) \in job[p].todo
Strayed(t, p) == /\ pc[p] \in {"sweep", "stamp", "record", "paths"}
                 /\ tasks[t].dir = Folder(job[p].from, job[p].sprint)
Staying(t, p) ==
  /\ \A m \in Sprint \cup {NoSprint} : m = tasks[t].sprint => Member(t, m)
  /\ tasks[t].status = files[t].status \/ (tasks[t].sprint = job[p].sprint /\ Late(t, p))
  /\ tasks[t].dir = files[t].dir \/ (tasks[t].sprint = job[p].sprint /\ Strayed(t, p))

\* The Task that is assigned or unassigned: each record says where it was until the
\* step that changes that record is done.
By(p, done) == IF done <=> job[p].cmd = "assign" THEN job[p].sprint ELSE NoSprint
Changing(t, p) ==
  LET l == pc[p]
      assign == job[p].cmd = "assign"
  IN  /\ tasks[t].sprint = By(p, l = "set-path")
      /\ files[t].sprint = By(p, l \notin {"rename", "tag"})
      /\ t \in backlog <=> By(p, \/ l \in {"set-sprint", "set-path"}
                                 \/ l = "row" /\ assign) = NoSprint
      /\ \A m \in Sprint \cup {NoSprint} :
           /\ m = By(p, l # "rename") => Home(t, m)
           /\ m = By(p, \/ l \in {"set-sprint", "set-path"}
                        \/ l = "unlist" /\ ~assign) => Listed(t, m)
      /\ tasks[t].status = files[t].status
      /\ l = "rename" => job[p].old = files[t].dir
InChange(t, p) == pc[p] \in Assigning /\ t = job[p].task
TasksHeld(p) == \A t \in Task : /\ InChange(t, p) => Changing(t, p)
                                /\ ~InChange(t, p) => Staying(t, p)

FocusHeld(p) ==
  focus # NoSprint => \/ sprints[focus].status = "active"
                      \/ pc[p] \in Ended /\ job[p].cmd = "complete" /\ focus = job[p].sprint

\* What commands have in hand.
JobHeld(p) ==
  LET l == pc[p]
      j == job[p]
  IN  /\ l \in OnTheMove =>
           /\ <<j.cmd, j.to>> \in {<<"start", "active">>, <<"complete", "completed">>}
           /\ j.from \in Standing /\ j.from # j.to
           /\ l \notin {"return", "db-only"}
           /\ l \in {"collect", "frontmatter", "sync", "force"} => j.cmd = "complete"
      /\ l = "frontmatter" => \A e \in j.todo : tasks[e.task].sprint = j.sprint
      /\ l \in Binding =>
           /\ \A e \in j.todo : e.dir = Folder(j.to, j.sprint)
           /\ l # "bind" => files[j.task].dir = Folder(j.to, j.sprint)
      /\ l \in {"compare", "drift", "heal"} \/ (l = "save" /\ j.cmd # "create") =>
            j.row = sprints[j.sprint] /\ sprints[j.sprint].status # "none"
      /\ l = "save" => j.cmd # "force"
      /\ l \in Assigning => /\ l \in Halfway /\ sprints[j.sprint].status # "none"
                            /\ j.cmd = "assign" => j.from \in folders[j.sprint]

Held(p) == SprintsHeld(p) /\ TasksHeld(p) /\ FocusHeld(p) /\ JobHeld(p)
RestInv == Calm => \A p \in Proc : Held(p)

Ground(p) == TypeInv /\ TypeInv' /\ Calm /\ Calm' /\ Held(p)

LEMMA CalmWorks ==
  ASSUME TypeInv, Calm', Fault \/ Works
  PROVE  ~Fault /\ Works
  BY FaultFacts DEF Calm

LEMMA CalmBefore ==
  ASSUME TypeInv, Calm', [Next]_vars
  PROVE  Calm
<1>1. menu' = menu
  BY SameMenu
<1>2. faults' = faults \/ faults' = faults + 1
  <2>1. ASSUME NEW p \in Proc, Begin(p) PROVE faults' = faults
    BY <2>1
    DEF Begin, SprintCreate, SprintStart, SprintComplete, SprintDiscard, SprintUpdate,
        SprintReconcile, TaskAssign, TaskUnassign, BeginCreate, BeginStart, BeginComplete,
        BeginDiscard, BeginUpdate, BeginReconcile, BeginAssign, BeginUnassign
  <2>2. ASSUME NEW p \in Proc, Step(p) PROVE Fault \/ Works
    <3>1. CASE \/ CreateFolder(p) \/ WriteDocument(p) \/ SaveToDB(p) \/ Collect(p)
               \/ WriteFrontmatter(p) \/ ReturnTask(p) \/ MoveSprint(p) \/ Sweep(p)
               \/ Stamp(p) \/ Record(p)
      BY <3>1 DEF CreateFolder, WriteDocument, SaveToDB, Collect, WriteFrontmatter,
                  ReturnTask, MoveSprint, Sweep, Stamp, Record
    <3>2. CASE \/ UpdateTaskPathsForSprint(p) \/ ListFiles(p) \/ Bind(p) \/ BindSprint(p)
               \/ BindPath(p) \/ ListForSync(p) \/ ForceStatus(p) \/ UpdateCurrentFocus(p)
      BY <3>2 DEF UpdateTaskPathsForSprint, ListFiles, Bind, BindSprint, BindPath,
                  ListForSync, ForceStatus, UpdateCurrentFocus
    <3>3. CASE \/ Compare(p) \/ ListDrift(p) \/ HealDrift(p) \/ Rename(p) \/ Tag(p)
               \/ List(p) \/ EditRow(p)
      BY <3>3 DEF Compare, ListDrift, HealDrift, Rename, Tag, List, EditRow
    <3>4. CASE \/ SetSprint(p) \/ SetPath(p) \/ DropRow(p) \/ Relist(p) \/ Untag(p)
               \/ PutBack(p)
      BY <3>4 DEF SetSprint, SetPath, DropRow, Relist, Untag, PutBack
    <3> QED
      BY <2>2, <3>1, <3>2, <3>3, <3>4 DEF Step
  <2>3. ASSUME NEW p \in Proc, Crash(p) PROVE Fault
    BY <2>3 DEF Crash
  <2>4. ASSUME NEW t \in Task, Progress(t) PROVE faults' = faults
    BY <2>4 DEF Progress
  <2> QED
    BY <2>1, <2>2, <2>3, <2>4 DEF Next, vars, Fault, Works
<1> QED
  BY <1>1, <1>2 DEF Calm, TypeInv, ControlOK

\* Where a command goes.
LEMMA Goes ==
  ASSUME TypeInv, NEW p \in Proc, NEW l, NEW j, Continue(p, l, j)
  PROVE  pc'[p] = l /\ job'[p] = IF l = "idle" THEN NoJob ELSE j
  BY DEF Continue, TypeInv, ControlOK

LEMMA InHand ==
  ASSUME TypeInv, NEW p \in Proc
  PROVE  /\ JobOK(pc[p], job[p]) /\ job[p] \in Job /\ pc[p] \in Label
         /\ \A e \in job[p].todo : e.task \in Task
         /\ pc[p] # "idle" => job[p].sprint \in Sprint
         /\ tasks \in [Task -> Records] /\ files \in [Task -> Records]
         /\ sprints \in [Sprint -> Rows] /\ folders \in [Sprint -> SUBSET Place]
         /\ docs \in [Sprint -> [Place -> Docs]]
         /\ inner \in [Sprint -> SUBSET Place]
<1>1. JobOK(pc[p], job[p]) /\ job[p] \in Job
  BY JobInHand DEF TypeInv
<1> QED
  BY <1>1 DEF JobOK, Job, TypeInv, ControlOK, TasksOK, FoldersOK

\* What a step leaves as it was.
LEMMA SprintStays ==
  ASSUME NEW s \in Sprint, sprints'[s] = sprints[s], folders'[s] = folders[s],
         docs'[s] = docs[s]
  PROVE  /\ AtRest(s)' <=> AtRest(s)
         /\ Absent(s)' <=> Absent(s)
         /\ Begun(s, NoDoc)' <=> Begun(s, NoDoc)
         /\ Begun(s, NewDoc)' <=> Begun(s, NewDoc)
         /\ \A a, b, c \in Place : Stands(s, a, b, c)' <=> Stands(s, a, b, c)
  BY DEF AtRest, Absent, Begun, Stands, HasDoc, Standing

LEMMA MemberStays ==
  ASSUME NEW t \in Task, NEW m \in Sprint \cup {NoSprint},
         UNCHANGED <<sprints, folders, docs>>, files'[t].sprint = files[t].sprint,
         files'[t].dir = files[t].dir, t \in backlog' <=> t \in backlog
  PROVE  /\ Member(t, m)' <=> Member(t, m)
         /\ Home(t, m)' <=> Home(t, m)
         /\ Listed(t, m)' <=> Listed(t, m)
         /\ Exists(m)' <=> Exists(m)
<1>1. Home(t, m)' <=> Home(t, m)
  BY DEF Home
<1>2. Listed(t, m)' <=> Listed(t, m)
  BY DEF Listed, HasDoc
<1>3. Exists(m)' <=> Exists(m)
  BY DEF Exists
<1> QED
  BY <1>1, <1>2, <1>3 DEF Member

LEMMA StandsAtRest ==
  ASSUME NEW s \in Sprint, NEW l \in Standing, Stands(s, l, l, l)
  PROVE  AtRest(s)
  BY DEF AtRest

LEMMA AllAtRest ==
  ASSUME TypeInv, NEW p \in Proc, SprintsHeld(p), pc[p] \notin OnTheMove \cup {"folder", "document"},
         pc[p] = "save" => job[p].cmd # "create", NEW s \in Sprint
  PROVE  AtRest(s) /\ inner[s] = {}
<1>1. pc[p] \in {"idle", "save", "compare", "drift", "heal"} \cup Assigning
  <2>1. pc[p] \in Label
    BY DEF TypeInv, ControlOK
  <2> QED
    BY <2>1 DEF Label, OnTheMove, Assigning
<1>2. CASE About(p, s)
  <2>1. Underway(p, s) /\ pc[p] # "idle" /\ inner[s] = {}
    BY <1>2 DEF SprintsHeld, About
  <2> QED
    BY <1>1, <2>1 DEF Underway
<1>3. CASE ~About(p, s)
  BY <1>3 DEF SprintsHeld
<1> QED
  BY <1>2, <1>3

LEMMA SprintsRest ==
  ASSUME NEW p \in Proc, UNCHANGED inner, \A s \in Sprint : AtRest(s)' /\ inner[s] = {},
         pc'[p] \notin OnTheMove \cup {"folder", "document"},
         pc'[p] = "save" => job'[p].cmd # "create"
  PROVE  SprintsHeld(p)'
BY DEF SprintsHeld, Underway

\* A Task no command is at.
Rested(t) == /\ \A m \in Sprint \cup {NoSprint} : m = tasks[t].sprint => Member(t, m)
             /\ tasks[t].status = files[t].status
             /\ tasks[t].dir = files[t].dir

LEMMA AllRested ==
  ASSUME NEW p \in Proc, TasksHeld(p), NEW t \in Task, ~InChange(t, p), pc[p] \notin OnTheMove
  PROVE  Rested(t)
BY DEF TasksHeld, Staying, Rested, Late, Strayed, OnTheMove

LEMMA RestedStays ==
  ASSUME NEW t \in Task, UNCHANGED <<sprints, folders, docs>>, tasks'[t] = tasks[t],
         files'[t] = files[t], t \in backlog' <=> t \in backlog
  PROVE  Rested(t)' <=> Rested(t)
BY MemberStays DEF Rested

LEMMA TasksRest ==
  ASSUME NEW p \in Proc, \A t \in Task : Rested(t)', pc'[p] \notin Assigning
  PROVE  TasksHeld(p)'
BY DEF TasksHeld, InChange, Rested, Staying

LEMMA FocusStays ==
  ASSUME TypeInv, NEW p \in Proc, UNCHANGED <<sprints, focus>>, FocusHeld(p),
         pc[p] \in Ended /\ job[p].cmd = "complete" =>
            pc'[p] \in Ended /\ job'[p].cmd = "complete" /\ job'[p].sprint = job[p].sprint
  PROVE  FocusHeld(p)'
BY DEF FocusHeld

\* A command that moves a Sprint goes on and changes nothing.
Part(l, m) == \/ l \in Early /\ m \in Early
              \/ l \in {"sweep", "stamp"} /\ m \in {"sweep", "stamp"}
              \/ l \in Ended \ {"paths"} /\ m \in Ended \ {"paths"}

LEMMA WorksAlong ==
  ASSUME NEW p \in Proc, Ground(p), UNCHANGED <<sprints, folders, inner, docs, backlog, focus>>,
         \A t \in Task : /\ tasks'[t].sprint = tasks[t].sprint /\ tasks'[t].dir = tasks[t].dir
                         /\ files'[t].sprint = files[t].sprint /\ files'[t].dir = files[t].dir,
         pc[p] \in OnTheMove,
         Part(pc[p], pc'[p]), Same(p, job'[p]), job'[p].sprint = job[p].sprint,
         \A t \in Task : \/ tasks'[t].status = files'[t].status
                         \/ tasks[t].sprint = job[p].sprint /\ Late(t, p)',
         JobHeld(p)'
  PROVE  Held(p)'
<1>1. /\ pc'[p] \in OnTheMove /\ pc[p] # "idle" /\ pc'[p] # "idle"
      /\ pc[p] \notin Assigning /\ pc'[p] \notin Assigning
  BY DEF Part, Early, Ended, OnTheMove, Assigning
<1>2. SprintsHeld(p)'
  <2>1. ASSUME NEW s \in Sprint
        PROVE  /\ inner'[s] = {} /\ (About(p, s)' <=> About(p, s))
               /\ About(p, s) => Underway(p, s)'
               /\ ~About(p, s) => AtRest(s)'
    <3>1. About(p, s)' <=> About(p, s)
      BY <1>1 DEF About
    <3>2. inner'[s] = {} /\ (~About(p, s) => AtRest(s)')
      BY SprintStays DEF Ground, Held, SprintsHeld
    <3>3. ASSUME About(p, s) PROVE Underway(p, s)'
      <4>1. Underway(p, s)
        BY <3>3 DEF Ground, Held, SprintsHeld
      <4>2. \A a, b, c \in Place : Stands(s, a, b, c)' <=> Stands(s, a, b, c)
        BY SprintStays
      <4>3. job'[p].from = job[p].from /\ job'[p].to = job[p].to
        BY DEF Same
      <4>4. pc'[p] \notin {"folder", "document", "save", "compare", "drift", "heal"}
        BY <1>1 DEF OnTheMove
      <4> QED
        BY <1>1, <4>1, <4>2, <4>3, <4>4 DEF Underway, Part, Early, Ended
    <3> QED
      BY <3>1, <3>2, <3>3
  <2> QED
    BY <2>1 DEF SprintsHeld
<1>3. TasksHeld(p)'
  <2>1. ASSUME NEW t \in Task PROVE Staying(t, p)'
    <3>1. Staying(t, p)
      BY <1>1 DEF Ground, Held, TasksHeld, InChange
    <3>2. \A m \in Sprint \cup {NoSprint} : Member(t, m)' <=> Member(t, m)
      BY MemberStays
    <3>3. Strayed(t, p) => Strayed(t, p)'
      BY DEF Strayed, Part, Same, Early, Ended
    <3> QED
      BY <3>1, <3>2, <3>3 DEF Staying
  <2> QED
    BY <1>1, <2>1 DEF TasksHeld, InChange
<1>4. FocusHeld(p)'
  BY FocusStays DEF Ground, Held, Part, Same, Early, Ended
<1> QED
  BY <1>2, <1>3, <1>4 DEF Held

LEMMA MovesAlong ==
  ASSUME NEW p \in Proc, Ground(p), UNCHANGED <<database, disk>>, pc[p] \in OnTheMove,
         Part(pc[p], pc'[p]), Same(p, job'[p]), job'[p].sprint = job[p].sprint,
         \A t \in Task : Late(t, p) /\ tasks[t].sprint = job[p].sprint => Late(t, p)',
         JobHeld(p)'
  PROVE  Held(p)'
<1>1. pc[p] \notin Assigning
  BY DEF OnTheMove, Assigning
<1>2. \A t \in Task : \/ tasks'[t].status = files'[t].status
                      \/ tasks[t].sprint = job[p].sprint /\ Late(t, p)'
  BY <1>1 DEF Ground, Held, TasksHeld, InChange, Staying, database, disk
<1> QED
  BY <1>2, WorksAlong DEF database, disk

\* Commands begin at rest.
LEMMA IdleRests ==
  ASSUME NEW p \in Proc, Ground(p), pc[p] = "idle"
  PROVE  /\ \A s \in Sprint : AtRest(s) /\ inner[s] = {}
         /\ \A t \in Task : Rested(t)
         /\ focus # NoSprint => sprints[focus].status = "active"
<1>1. \A s \in Sprint : AtRest(s) /\ inner[s] = {}
  BY AllAtRest DEF Ground, Held, OnTheMove
<1>2. \A t \in Task : Rested(t)
  BY AllRested DEF Ground, Held, OnTheMove, InChange, Assigning
<1> QED
  BY <1>1, <1>2 DEF Ground, Held, FocusHeld, Ended

LEMMA RestFacts ==
  ASSUME NEW s \in Sprint, AtRest(s), sprints[s].status # "none"
  PROVE  /\ sprints[s].status \in Standing
         /\ \A l \in Place : l = sprints[s].status => Stands(s, l, l, l)
<1>1. ~Absent(s)
  BY DEF Absent, NoJob
<1>2. PICK l \in Standing : Stands(s, l, l, l)
  BY <1>1 DEF AtRest
<1> QED
  BY <1>2 DEF Stands

LEMMA BeginsAt ==
  ASSUME NEW p \in Proc, Ground(p), pc[p] = "idle", UNCHANGED <<database, disk>>,
         NEW s \in Sprint, job'[p].sprint = s, pc'[p] # "idle", Underway(p, s)', JobHeld(p)',
         TasksHeld(p)'
  PROVE  Held(p)'
<1>1. SprintsHeld(p)'
  <2>1. ASSUME NEW r \in Sprint
        PROVE  inner'[r] = {} /\ AtRest(r)' /\ (About(p, r)' => r = s)
    BY IdleRests, SprintStays DEF database, disk, About
  <2> QED
    BY <2>1 DEF SprintsHeld
<1>2. FocusHeld(p)'
  BY IdleRests DEF FocusHeld, database, disk
<1> QED
  BY <1>1, <1>2 DEF Held

LEMMA RestedAtBegin ==
  ASSUME NEW p \in Proc, Ground(p), pc[p] = "idle", UNCHANGED <<database, disk>>,
         pc'[p] \notin Assigning
  PROVE  TasksHeld(p)'
<1>1. \A t \in Task : Rested(t)'
  BY IdleRests, RestedStays DEF database, disk
<1> QED
  BY <1>1, TasksRest

LEMMA BeginCreateHeld ==
  ASSUME NEW p \in Proc, Ground(p), NEW s \in Sprint, BeginCreate(p, s)
  PROVE  Held(p)'
<1>1. pc[p] = "idle" /\ UNCHANGED <<database, disk>> /\ \A l \in Place : ~HasDoc(s, l)
  BY DEF BeginCreate, Starts
<1>2. pc'[p] = "folder" /\ job'[p].sprint = s
  <2>1. pc'[p] = "folder" /\ job'[p] = Issue(p, "create", s, NoTask)
    BY Goes DEF BeginCreate, Ground
  <2> QED
    BY <2>1, JobIssue DEF AllCommands
<1>3. Absent(s)
  <2>1. AtRest(s)
    BY <1>1, IdleRests
  <2> QED
    BY <1>1, <2>1 DEF AtRest, Stands, Standing
<1>4. Underway(p, s)'
  <2>1. Absent(s)'
    BY <1>1, <1>3, SprintStays DEF database, disk
  <2> QED
    BY <1>2, <2>1 DEF Underway, Assigning, OnTheMove
<1>5. JobHeld(p)'
  BY <1>2 DEF JobHeld, Assigning, OnTheMove, Binding
<1>6. TasksHeld(p)'
  BY <1>1, <1>2, RestedAtBegin DEF Assigning
<1> QED
  BY <1>1, <1>2, <1>4, <1>5, <1>6, BeginsAt

LEMMA BeginMoveHeld ==
  ASSUME NEW p \in Proc, Ground(p), NEW s \in Sprint, BeginStart(p, s) \/ BeginComplete(p, s)
  PROVE  Held(p)'
<1>1. /\ pc[p] = "idle" /\ UNCHANGED <<database, disk>> /\ sprints[s].status # "none"
  BY DEF BeginStart, BeginComplete, Starts
<1>2. PICK from \in Standing : from = sprints[s].status /\ Stands(s, from, from, from)
  BY <1>1, IdleRests, RestFacts DEF Standing
<1>3. PICK cmd \in {"start", "complete"}, to \in Standing :
         /\ from # to /\ <<cmd, to>> \in {<<"start", "active">>, <<"complete", "completed">>}
         /\ Continue(p, IF cmd = "start" THEN "move" ELSE "collect", Moving(p, cmd, s, to))
  BY <1>2 DEF BeginStart, BeginComplete, Standing, Place
<1>4. /\ pc'[p] = IF cmd = "start" THEN "move" ELSE "collect"
      /\ job'[p] = Moving(p, cmd, s, to)
  BY <1>3, Goes DEF Ground
<1>5. /\ job'[p].cmd = cmd /\ job'[p].sprint = s /\ job'[p].from = from /\ job'[p].to = to
  <2>1. PICK j \in Job : j = Issue(p, cmd, s, NoTask) /\ j.cmd = cmd /\ j.sprint = s
    BY JobIssue DEF AllCommands
  <2>2. Moving(p, cmd, s, to) = [j EXCEPT !.from = from, !.to = to]
    BY <1>2, <2>1 DEF Moving
  <2> QED
    BY <1>4, <2>1, <2>2 DEF Job
<1>6. Underway(p, s)'
  <2>1. Stands(s, from, from, from)'
    BY <1>1, <1>2, SprintStays DEF database, disk, Standing
  <2> QED
    BY <1>4, <1>5, <2>1 DEF Underway, Assigning, OnTheMove, Early, Ended
<1>7. JobHeld(p)'
  BY <1>3, <1>4, <1>5 DEF JobHeld, Assigning, OnTheMove, Binding
<1>8. TasksHeld(p)'
  BY <1>1, <1>4, RestedAtBegin DEF Assigning
<1> QED
  BY <1>1, <1>4, <1>5, <1>6, <1>7, <1>8, BeginsAt

LEMMA BeginRepairHeld ==
  ASSUME NEW p \in Proc, Ground(p), NEW s \in Sprint, BeginUpdate(p, s) \/ BeginReconcile(p, s)
  PROVE  Held(p)'
<1>1. pc[p] = "idle" /\ UNCHANGED <<database, disk>>
  BY DEF BeginUpdate, BeginReconcile, Starts
<1>2. AtRest(s)
  BY <1>1, IdleRests
<1>3. PICK cmd, row :
         /\ cmd \in {"update", "reconcile"}
         /\ sprints[s].status # "none" /\ row = sprints[s]
         /\ Continue(p, IF cmd = "update" THEN "save" ELSE "compare",
                     [Issue(p, cmd, s, NoTask) EXCEPT !.row = row])
  <2>1. CASE BeginUpdate(p, s)
    <3>1. "force" \notin menu
      BY DEF Ground, Calm, Discards
    <3> QED
      BY <2>1, <3>1 DEF BeginUpdate, Starts
  <2>2. CASE BeginReconcile(p, s)
    <3>1. PICK l \in Place :
             /\ SprintOnDisk(s, l)
             /\ Continue(p, "compare", [Issue(p, "reconcile", s, NoTask) EXCEPT
                                          !.row = [status |-> l, folder |-> l]])
      BY <2>2 DEF BeginReconcile
    <3>2. HasDoc(s, l)
      BY <3>1 DEF SprintOnDisk, FirstOf
    <3>3. PICK m \in Standing : Stands(s, m, m, m)
      BY <1>2, <3>2 DEF AtRest, Absent, HasDoc
    <3>4. sprints[s] = [status |-> l, folder |-> l] /\ sprints[s].status # "none"
      BY <3>2, <3>3 DEF Stands, Standing, Place
    <3> QED
      BY <3>1, <3>4
  <2> QED
    BY <2>1, <2>2
<1>4. /\ pc'[p] = IF cmd = "update" THEN "save" ELSE "compare"
      /\ job'[p] = [Issue(p, cmd, s, NoTask) EXCEPT !.row = row]
  BY <1>3, Goes DEF Ground
<1>5. job'[p].cmd = cmd /\ job'[p].sprint = s /\ job'[p].row = row
  <2>1. PICK j \in Job : j = Issue(p, cmd, s, NoTask) /\ j.cmd = cmd /\ j.sprint = s
    BY <1>3, JobIssue DEF AllCommands
  <2> QED
    BY <1>4, <2>1 DEF Job
<1>6. Underway(p, s)'
  <2>1. AtRest(s)'
    BY <1>1, <1>2, SprintStays DEF database, disk
  <2> QED
    BY <1>4, <1>5, <2>1 DEF Underway, Assigning, OnTheMove
<1>7. JobHeld(p)'
  BY <1>1, <1>3, <1>4, <1>5 DEF JobHeld, Assigning, OnTheMove, Binding, database
<1>8. TasksHeld(p)'
  BY <1>1, <1>4, RestedAtBegin DEF Assigning
<1> QED
  BY <1>1, <1>4, <1>5, <1>6, <1>7, <1>8, BeginsAt

\* A step of an assignment, the first included.
LEMMA Proceeds ==
  ASSUME NEW p \in Proc, Ground(p), NEW t \in Task, NEW s \in Sprint,
         pc[p] \in Halfway \cup {"idle"}, pc'[p] \in Halfway,
         job'[p].task = t, job'[p].sprint = s, UNCHANGED <<sprints, folders, inner, focus>>,
         sprints[s].status # "none", job'[p].cmd = "assign" => job'[p].from \in folders[s],
         \A r \in Sprint : AtRest(r)', \A u \in Task \ {t} : Rested(u)', Changing(t, p)'
  PROVE  Held(p)'
<1>1. /\ pc[p] \notin OnTheMove \cup {"folder", "document", "save"} \cup Ended
      /\ pc'[p] \notin OnTheMove \cup {"folder", "document", "save"} \cup Binding
      /\ pc'[p] \notin {"compare", "drift", "heal", "frontmatter"}
      /\ pc'[p] \in Assigning
  BY DEF Halfway, OnTheMove, Ended, Binding, Assigning
<1>2. SprintsHeld(p)'
  BY <1>1, AllAtRest, SprintsRest DEF Ground, Held
<1>3. TasksHeld(p)'
  <2>1. ASSUME NEW u \in Task PROVE (InChange(u, p)' <=> u = t) /\ (u # t => Staying(u, p)')
    BY <1>1 DEF InChange, Rested, Staying
  <2> QED
    BY <2>1 DEF TasksHeld
<1>4. FocusHeld(p)'
  BY <1>1, FocusStays DEF Ground, Held
<1>5. JobHeld(p)'
  BY <1>1 DEF JobHeld
<1> QED
  BY <1>2, <1>3, <1>4, <1>5 DEF Held

LEMMA BeginAssignHeld ==
  ASSUME NEW p \in Proc, Ground(p), NEW t \in Task,
         BeginUnassign(p, t) \/ \E s \in Sprint : BeginAssign(p, t, s)
  PROVE  Held(p)'
<1>1. pc[p] = "idle" /\ UNCHANGED <<sprints, disk>> /\ ResolveTaskPath(t)
  BY DEF BeginUnassign, BeginAssign, Starts
<1>2. Rested(t)
  BY <1>1, IdleRests
<1>3. tasks' = tasks
  <2>1. tasks' = [tasks EXCEPT ![t].dir = files[t].dir] /\ files[t].dir = tasks[t].dir
    BY <1>1, <1>2 DEF ResolveTaskPath, Rested
  <2>2. tasks \in [Task -> Records]
    BY InHand DEF Ground
  <2> QED
    BY <2>1, <2>2 DEF Records
<1>4. PICK cmd \in {"assign", "unassign"}, s \in Sprint, j \in Job :
         /\ Continue(p, "rename", j)
         /\ j.cmd = cmd /\ j.sprint = s /\ j.task = t /\ j.old = files[t].dir
         /\ cmd = "assign" => j.from \in folders[s] /\ tasks[t].sprint = NoSprint
         /\ cmd = "unassign" => tasks[t].sprint = s
         /\ sprints[s].status # "none"
  <2>0. files[t].dir \in Dirs
    BY InHand DEF Ground, Records
  <2>1. CASE BeginUnassign(p, t)
    <3>1. PICK s \in Sprint : s = tasks[t].sprint
      BY <2>1, InHand DEF BeginUnassign, Ground, Records
    <3>2. sprints[s].status # "none"
      <4>1. Member(t, s)
        BY <1>2, <3>1 DEF Rested
      <4> QED
        BY <4>1, SprintAssumption DEF Member, Exists
    <3>3. PICK i \in Job : /\ i = Issue(p, "unassign", s, t) /\ i.cmd = "unassign"
                          /\ i.sprint = s /\ i.task = t
      BY JobIssue DEF AllCommands
    <3>4. PICK j : j = [i EXCEPT !.old = files[t].dir] /\ Continue(p, "rename", j)
      BY <2>1, <3>1, <3>3 DEF BeginUnassign
    <3>5. j \in Job /\ j.cmd = "unassign" /\ j.sprint = s /\ j.task = t /\ j.old = files[t].dir
      BY <2>0, <3>3, <3>4 DEF Job
    <3> QED
      BY <3>1, <3>2, <3>4, <3>5
  <2>2. ASSUME NEW s \in Sprint, BeginAssign(p, t, s)
        PROVE  /\ tasks[t].sprint = NoSprint /\ sprints[s].status # "none"
               /\ \E j \in Job : /\ Continue(p, "rename", j)
                                /\ j.cmd = "assign" /\ j.sprint = s /\ j.task = t
                                /\ j.old = files[t].dir /\ j.from \in folders[s]
    <3>1. PICK i \in Job : /\ i = Issue(p, "assign", s, t) /\ i.cmd = "assign"
                          /\ i.sprint = s /\ i.task = t
      BY JobIssue DEF AllCommands
    <3>2. PICK l, j : /\ l \in Place /\ j = [i EXCEPT !.from = l, !.old = files[t].dir]
                     /\ Continue(p, "rename", j) /\ l \in folders[s]
      BY <2>2, <3>1 DEF BeginAssign, SprintDir, FirstOf
    <3>3. j \in Job /\ j.cmd = "assign" /\ j.sprint = s /\ j.task = t
          /\ j.old = files[t].dir /\ j.from = l
      BY <2>0, <3>1, <3>2 DEF Job
    <3> QED
      BY <2>2, <3>2, <3>3 DEF BeginAssign
  <2>3. CASE \E s \in Sprint : BeginAssign(p, t, s)
    BY <2>2, <2>3
  <2> QED
    BY <2>1, <2>3
<1>5. pc'[p] = "rename" /\ job'[p] = j
  BY <1>4, Goes DEF Ground
<1>6. job'[p].cmd = cmd /\ job'[p].sprint = s /\ job'[p].task = t /\ job'[p].old = files[t].dir
  BY <1>4, <1>5
<1>7. \A r \in Sprint : AtRest(r)'
  BY <1>1, IdleRests, SprintStays DEF disk
<1>8. \A u \in Task : Rested(u)'
  BY <1>1, <1>3, IdleRests, RestedStays DEF disk
<1>9. Changing(t, p)'
  <2>1. PICK m \in Sprint \cup {NoSprint} : m = tasks[t].sprint
    BY InHand DEF Ground, Records
  <2>2. Member(t, m)'
    BY <1>3, <1>8, <2>1 DEF Rested
  <2>3. tasks'[t].sprint = m /\ files'[t].sprint = m /\ Home(t, m)' /\ Listed(t, m)'
        /\ (t \in backlog' <=> m = NoSprint)
    BY <1>3, <2>1, <2>2 DEF Member
  <2>4. m = IF cmd = "assign" THEN NoSprint ELSE s
    BY <1>4, <2>1
  <2>5. tasks'[t].status = files'[t].status /\ files'[t].dir = files[t].dir
    BY <1>1, <1>8 DEF Rested, disk
  <2> QED
    BY <1>5, <1>6, <2>3, <2>4, <2>5 DEF Changing, By
<1> QED
  <2>1. UNCHANGED <<sprints, folders, inner, focus>>
    BY <1>1 DEF disk
  <2>2. pc'[p] \in Halfway
    BY <1>5 DEF Halfway
  <2> QED
    BY <1>1, <1>4, <1>5, <1>6, <1>7, <1>8, <1>9, <2>1, <2>2, Proceeds

LEMMA BeginHeld ==
  ASSUME NEW p \in Proc, Ground(p), Begin(p)
  PROVE  Held(p)'
<1>1. CASE SprintCreate(p)
  BY <1>1, BeginCreateHeld DEF SprintCreate
<1>2. CASE SprintStart(p) \/ SprintComplete(p)
  BY <1>2, BeginMoveHeld DEF SprintStart, SprintComplete
<1>3. CASE SprintDiscard(p)
  BY <1>3 DEF SprintDiscard, BeginDiscard, Starts, Ground, Calm, Discards
<1>4. CASE SprintUpdate(p) \/ SprintReconcile(p)
  BY <1>4, BeginRepairHeld DEF SprintUpdate, SprintReconcile
<1>5. CASE TaskAssign(p) \/ TaskUnassign(p)
  BY <1>5, BeginAssignHeld DEF TaskAssign, TaskUnassign
<1> QED
  BY <1>1, <1>2, <1>3, <1>4, <1>5 DEF Begin

LEMMA MakingHeld ==
  ASSUME NEW p \in Proc, Ground(p), pc[p] \in {"folder", "document", "save"},
         NEW s \in Sprint, s = job[p].sprint, job[p].cmd = "create", sprints[s] = NoJob.row,
         \A r \in Sprint \ {s} : sprints'[r] = sprints[r] /\ folders'[r] = folders[r]
                                 /\ docs'[r] = docs[r],
         UNCHANGED <<tasks, files, backlog, focus, inner>>,
         \A l \in Place : docs'[s][l] \in {NoDoc, NewDoc},
         pc'[p] \in {"document", "save", "idle"},
         pc'[p] # "idle" => job'[p] = job[p] /\ Underway(p, s)',
         pc'[p] = "idle" => AtRest(s)'
  PROVE  Held(p)'
<1>1. pc[p] \notin OnTheMove \cup Assigning \cup Ended
      /\ pc'[p] \notin OnTheMove \cup Assigning \cup Binding \cup {"folder"}
  BY DEF OnTheMove, Assigning, Ended, Binding
<1>2. SprintsHeld(p)'
  <2>1. ASSUME NEW r \in Sprint \ {s} PROVE inner'[r] = {} /\ AtRest(r)' /\ ~About(p, r)'
    <3>1. AtRest(r) /\ inner[r] = {}
      BY DEF Ground, Held, SprintsHeld, About
    <3> QED
      BY <3>1, SprintStays DEF About
  <2>2. inner'[s] = {} /\ (About(p, s)' <=> pc'[p] # "idle")
    BY DEF Ground, Held, SprintsHeld, About
  <2> QED
    BY <2>1, <2>2 DEF SprintsHeld
<1>3. TasksHeld(p)'
  <2>1. ASSUME NEW t \in Task PROVE Rested(t)'
    <3>1. Rested(t)
      BY <1>1, AllRested DEF Ground, Held, InChange
    <3>2. PICK m \in Sprint \cup {NoSprint} : m = tasks[t].sprint /\ Member(t, m)
      BY <3>1, InHand DEF Rested, Ground, Records
    <3>3. m # s
      BY <3>2, SprintAssumption DEF Member, Exists, NoJob
    <3>4. Home(t, m)' /\ Exists(m)'
      BY <3>2, <3>3 DEF Member, Home, Exists
    <3>5. Listed(t, m)'
      <4>1. ASSUME NEW r \in Sprint, NEW l \in Place
            PROVE  t \in docs'[r][l].rows <=> r = m /\ HasDoc(r, l)'
        <5>1. CASE r = s
          BY <3>3, <5>1 DEF NoDoc, NewDoc
        <5>2. CASE r # s
          <6>1. t \in docs[r][l].rows <=> r = m /\ HasDoc(r, l)
            BY <3>2 DEF Member, Listed
          <6> QED
            BY <5>2, <6>1 DEF HasDoc
        <5> QED
          BY <5>1, <5>2
      <4> QED
        BY <4>1 DEF Listed
    <3> QED
      BY <3>1, <3>2, <3>4, <3>5 DEF Rested, Member
  <2> QED
    BY <1>1, <2>1, TasksRest
<1>4. FocusHeld(p)'
  <2>1. focus # NoSprint => focus \in Sprint /\ sprints[focus].status = "active"
    BY <1>1 DEF Ground, Held, FocusHeld, TypeInv, TasksOK
  <2>2. focus # NoSprint => focus # s
    BY <2>1 DEF NoJob
  <2> QED
    BY <2>1, <2>2 DEF FocusHeld
<1>5. JobHeld(p)'
  BY <1>1 DEF JobHeld
<1> QED
  BY <1>2, <1>3, <1>4, <1>5 DEF Held

LEMMA CreateHeld ==
  ASSUME NEW p \in Proc, Ground(p), CreateFolder(p) \/ WriteDocument(p)
  PROVE  Held(p)'
<1>1. pc[p] \in {"folder", "document"} /\ UNCHANGED <<sprints, tasks, files, backlog, focus, inner>>
  BY DEF CreateFolder, WriteDocument, database
<1>2. PICK s \in Sprint : s = job[p].sprint
  BY <1>1, InHand DEF Ground
<1>3. job[p].cmd = "create" /\ Underway(p, s) /\ sprints[s] = NoJob.row
  <2>1. Underway(p, s)
    BY <1>1, <1>2 DEF Ground, Held, SprintsHeld, About
  <2>2. job[p].cmd = "create"
    BY <1>1, InHand DEF JobOK, Ground
  <2> QED
    BY <1>1, <2>1, <2>2 DEF Underway, Absent, Begun
<1>4. folders \in [Sprint -> SUBSET Place] /\ docs \in [Sprint -> [Place -> Docs]]
      /\ "backlog" \in Place
  BY InHand DEF Ground, Place
<1>5. CASE CreateFolder(p)
  <2>1. Goto(p, "document") /\ folders' = [folders EXCEPT ![s] = @ \cup {"backlog"}]
        /\ docs' = docs
    BY <1>2, <1>5, CalmWorks DEF CreateFolder, Ground
  <2>2. pc'[p] = "document" /\ job'[p] = job[p]
    BY <2>1, Goes DEF Goto, Ground
  <2>3. Absent(s)
    BY <1>3, <1>5 DEF Underway, CreateFolder
  <2>4. Begun(s, NoDoc)'
    BY <1>1, <1>4, <2>1, <2>3 DEF Absent, Begun
  <2>5. Underway(p, s)'
    BY <2>2, <2>4 DEF Underway, Assigning, OnTheMove
  <2>6. \A l \in Place : docs'[s][l] \in {NoDoc, NewDoc}
    BY <2>1, <2>3 DEF Absent
  <2> QED
    BY <1>1, <1>2, <1>3, <1>4, <2>1, <2>2, <2>5, <2>6, MakingHeld
<1>6. CASE WriteDocument(p)
  <2>0. Begun(s, NoDoc)
    BY <1>3, <1>6 DEF Underway, WriteDocument
  <2>1. Goto(p, "save") /\ docs' = [docs EXCEPT ![s]["backlog"] = NewDoc] /\ folders' = folders
    BY <1>2, <1>6, <2>0, CalmWorks DEF WriteDocument, Ground, Begun
  <2>2. pc'[p] = "save" /\ job'[p] = job[p]
    BY <2>1, Goes DEF Goto, Ground
  <2>3. Begun(s, NewDoc)'
    BY <1>1, <1>4, <2>0, <2>1 DEF Begun
  <2>5. Underway(p, s)'
    BY <1>3, <2>2, <2>3 DEF Underway, Assigning, OnTheMove
  <2>6. \A l \in Place : docs'[s][l] \in {NoDoc, NewDoc}
    BY <2>3 DEF Begun
  <2> QED
    BY <1>1, <1>2, <1>3, <1>4, <2>1, <2>2, <2>5, <2>6, MakingHeld
<1> QED
  BY <1>5, <1>6

LEMMA RepairsHeld ==
  ASSUME NEW p \in Proc, Ground(p), UNCHANGED <<database, disk>>,
         pc[p] \in {"save", "compare", "drift", "heal"}, job[p].cmd # "create",
         pc'[p] \in {"idle", "save", "drift", "heal"},
         pc'[p] # "idle" => /\ job'[p].cmd = job[p].cmd /\ job'[p].sprint = job[p].sprint
                            /\ job'[p].row = job[p].row
  PROVE  Held(p)'
<1>1. /\ pc[p] \notin OnTheMove \cup Assigning \cup Ended \cup {"folder", "document"}
      /\ pc'[p] \notin OnTheMove \cup Assigning \cup Binding \cup {"folder", "document", "frontmatter"}
  BY DEF OnTheMove, Assigning, Ended, Binding
<1>2. SprintsHeld(p)'
  <2>1. \A s \in Sprint : AtRest(s)' /\ inner[s] = {}
    BY <1>1, AllAtRest, SprintStays DEF Ground, Held, database, disk
  <2> QED
    BY <1>1, <2>1, SprintsRest DEF disk
<1>3. TasksHeld(p)'
  <2>1. \A t \in Task : Rested(t)'
    BY <1>1, AllRested, RestedStays DEF Ground, Held, InChange, database, disk
  <2> QED
    BY <1>1, <2>1, TasksRest
<1>4. FocusHeld(p)'
  BY <1>1, FocusStays DEF Ground, Held, database, disk
<1>5. JobHeld(p)'
  <2>1. /\ job[p].row = sprints[job[p].sprint] /\ sprints[job[p].sprint].status # "none"
        /\ pc[p] = "save" => job[p].cmd # "force"
    BY DEF Ground, Held, JobHeld
  <2>2. pc[p] # "save" => job[p].cmd = "reconcile"
    BY InHand DEF JobOK, Ground
  <2> QED
    BY <1>1, <2>1, <2>2 DEF JobHeld, database
<1> QED
  BY <1>2, <1>3, <1>4, <1>5 DEF Held

LEMMA SaveHeld ==
  ASSUME NEW p \in Proc, Ground(p), SaveToDB(p)
  PROVE  Held(p)'
<1>1. /\ pc[p] = "save" /\ UNCHANGED <<tasks, disk>> /\ pc'[p] = "idle"
      /\ sprints' = [sprints EXCEPT ![job[p].sprint] =
                       IF job[p].cmd = "create" THEN NewRow ELSE job[p].row]
  BY Goes, CalmWorks DEF SaveToDB, Return, Goto, Ground
<1>2. PICK s \in Sprint : s = job[p].sprint
  BY <1>1, InHand DEF Ground
<1>3. sprints \in [Sprint -> Rows]
  BY InHand DEF Ground
<1>4. CASE job[p].cmd = "create"
  <2>1. Underway(p, s)
    BY <1>1, <1>2 DEF Ground, Held, SprintsHeld, About
  <2>2. Begun(s, NewDoc)
    BY <1>1, <1>4, <2>1 DEF Underway
  <2>3. sprints' = [sprints EXCEPT ![s] = NewRow]
    BY <1>1, <1>2, <1>4
  <2>4. Stands(s, "backlog", "backlog", "backlog")'
    BY <1>1, <1>3, <2>2, <2>3 DEF Begun, Stands, HasDoc, NewDoc, NoDoc, NewRow, disk, Place
  <2>5. AtRest(s)'
    BY <2>4 DEF AtRest, Standing, Place
  <2>6. sprints[s] = NoJob.row /\ \A l \in Place : docs'[s][l] \in {NoDoc, NewDoc}
    BY <1>1, <2>2 DEF Begun, disk
  <2> QED
    BY <1>1, <1>2, <1>3, <1>4, <2>3, <2>5, <2>6, MakingHeld DEF disk
<1>5. CASE job[p].cmd # "create"
  <2>1. sprints' = [sprints EXCEPT ![s] = sprints[s]]
    BY <1>1, <1>2, <1>5 DEF Ground, Held, JobHeld
  <2>2. UNCHANGED <<database, disk>>
    BY <1>1, <1>3, <2>1 DEF database
  <2> QED
    BY <1>1, <1>5, <2>2, RepairsHeld
<1> QED
  BY <1>4, <1>5

LEMMA ReconcileHeld ==
  ASSUME NEW p \in Proc, Ground(p), Compare(p) \/ ListDrift(p) \/ HealDrift(p)
  PROVE  Held(p)'
<1>1. pc[p] \in {"compare", "drift", "heal"} /\ UNCHANGED <<sprints, disk>> /\ ~Fault
  BY CalmWorks DEF Compare, ListDrift, HealDrift, database, Ground
<1>2. job[p] \in Job /\ job[p].cmd = "reconcile"
  BY <1>1, InHand DEF JobOK, Ground
<1>3. tasks' = tasks
  <2>1. CASE Compare(p) \/ ListDrift(p)
    BY <2>1 DEF Compare, ListDrift, database
  <2>2. CASE HealDrift(p)
    <3>1. ASSUME NEW e \in job[p].todo, tasks' = [tasks EXCEPT ![e.task].dir = files[e.task].dir]
          PROVE  tasks' = tasks
      <4>1. PICK t \in Task : t = e.task
        BY InHand DEF Ground
      <4>2. Rested(t)
        BY <1>1, AllRested DEF Ground, Held, InChange, Assigning, OnTheMove
      <4>3. tasks' = [tasks EXCEPT ![t].dir = tasks[t].dir] /\ tasks \in [Task -> Records]
        BY <3>1, <4>1, <4>2, InHand DEF Rested, Ground
      <4> QED
        BY <4>3 DEF Records
    <3> QED
      BY <1>1, <2>2, <3>1 DEF HealDrift
  <2> QED
    BY <2>1, <2>2
<1>4. PICK l, k :
         /\ l \in {"idle", "save", "drift", "heal"}
         /\ Continue(p, l, k) /\ k.cmd = job[p].cmd /\ k.sprint = job[p].sprint /\ k.row = job[p].row
  <2>1. CASE Compare(p)
    <3>1. PICK k : /\ k = [job[p] EXCEPT !.to = IF sprints[job[p].sprint] = job[p].row
                                                THEN "none" ELSE job[p].row.status]
                   /\ Continue(p, "drift", k)
      BY <2>1 DEF Compare
    <3> QED
      BY <1>2, <3>1 DEF Job
  <2>2. CASE ListDrift(p)
    <3>1. PICK T, k : k = [job[p] EXCEPT !.todo = T] /\ Continue(p, "heal", k)
      BY <2>2 DEF ListDrift
    <3> QED
      BY <1>2, <3>1 DEF Job
  <2>3. CASE HealDrift(p)
    <3>1. CASE Goto(p, IF job[p].to = "none" THEN "idle" ELSE "save")
      BY <3>1 DEF Goto
    <3>2. ASSUME NEW e \in job[p].todo, Continue(p, "heal", Rest(p, e))
          PROVE  \E k : /\ Continue(p, "heal", k) /\ k.cmd = job[p].cmd
                        /\ k.sprint = job[p].sprint /\ k.row = job[p].row
      <4>1. PICK k : k = [job[p] EXCEPT !.todo = job[p].todo \ {e}] /\ k = Rest(p, e)
        BY DEF Rest
      <4>2. k.cmd = job[p].cmd /\ k.sprint = job[p].sprint /\ k.row = job[p].row
        BY <1>2, <4>1 DEF Job
      <4> QED
        BY <3>2, <4>1, <4>2
    <3>3. CASE \E e \in job[p].todo : Continue(p, "heal", Rest(p, e))
      BY <3>2, <3>3
    <3>4. \/ Goto(p, IF job[p].to = "none" THEN "idle" ELSE "save")
          \/ \E e \in job[p].todo : Continue(p, "heal", Rest(p, e))
      BY <2>3 DEF HealDrift
    <3> QED
      BY <3>1, <3>3, <3>4
  <2> QED
    BY <2>1, <2>2, <2>3
<1>5. pc'[p] = l /\ (l # "idle" => job'[p] = k)
  BY <1>4, Goes DEF Ground
<1> QED
  BY <1>1, <1>2, <1>3, <1>4, <1>5, RepairsHeld DEF database

LEMMA MovingFacts ==
  ASSUME NEW p \in Proc, Ground(p), pc[p] \in OnTheMove
  PROVE  /\ job[p] \in Job /\ job[p].sprint \in Sprint /\ job[p].sprint # NoSprint
         /\ job[p].from \in Standing /\ job[p].to \in Standing /\ job[p].from # job[p].to
         /\ <<job[p].cmd, job[p].to>> \in {<<"start", "active">>, <<"complete", "completed">>}
         /\ pc[p] \notin {"return", "db-only"}
         /\ pc[p] \in {"collect", "frontmatter", "sync", "force"} => job[p].cmd = "complete"
         /\ \A s \in Sprint : s = job[p].sprint => Underway(p, s) /\ inner[s] = {}
         /\ \A s \in Sprint : s # job[p].sprint => AtRest(s) /\ inner[s] = {}
         /\ \A t \in Task : Staying(t, p)
         /\ \A e \in job[p].todo : e.task \in Task
<1>1. pc[p] # "idle" /\ pc[p] \notin Assigning
  BY DEF OnTheMove, Assigning
<1>2. \A s \in Sprint : /\ inner[s] = {}
                        /\ s = job[p].sprint => Underway(p, s)
                        /\ s # job[p].sprint => AtRest(s)
  BY <1>1 DEF Ground, Held, SprintsHeld, About
<1>3. \A t \in Task : Staying(t, p)
  BY <1>1 DEF Ground, Held, TasksHeld, InChange
<1>4. /\ <<job[p].cmd, job[p].to>> \in {<<"start", "active">>, <<"complete", "completed">>}
      /\ job[p].from \in Standing /\ job[p].from # job[p].to
      /\ pc[p] \notin {"return", "db-only"}
      /\ pc[p] \in {"collect", "frontmatter", "sync", "force"} => job[p].cmd = "complete"
  BY DEF Ground, Held, JobHeld
<1>5. job[p].to \in Standing
  BY <1>4 DEF Standing, Place
<1>6. /\ job[p] \in Job /\ job[p].sprint \in Sprint /\ job[p].sprint # NoSprint
      /\ \A e \in job[p].todo : e.task \in Task
  BY <1>1, InHand, SprintAssumption DEF Ground
<1> QED
  BY <1>2, <1>3, <1>4, <1>5, <1>6

LEMMA JobAlong ==
  ASSUME NEW p \in Proc, Ground(p), pc[p] \in OnTheMove,
         pc'[p] \in OnTheMove \ {"return", "db-only"},
         Same(p, job'[p]), job'[p].sprint = job[p].sprint,
         pc'[p] \in {"collect", "frontmatter", "sync", "force"} => job[p].cmd = "complete",
         pc'[p] = "frontmatter" => \A e \in job'[p].todo : tasks'[e.task].sprint = job[p].sprint,
         pc'[p] \in Binding =>
            /\ \A e \in job'[p].todo : e.dir = Folder(job[p].to, job[p].sprint)
            /\ pc'[p] # "bind" => files'[job'[p].task].dir = Folder(job[p].to, job[p].sprint)
  PROVE  JobHeld(p)'
<1>1. pc'[p] \notin Assigning \cup {"save", "compare", "drift", "heal"}
  BY DEF OnTheMove, Assigning
<1>2. /\ <<job[p].cmd, job[p].to>> \in {<<"start", "active">>, <<"complete", "completed">>}
      /\ job[p].from \in Standing /\ job[p].from # job[p].to
  BY MovingFacts
<1>3. job'[p].cmd = job[p].cmd /\ job'[p].from = job[p].from /\ job'[p].to = job[p].to
  BY DEF Same
<1> QED
  BY <1>1, <1>2, <1>3 DEF JobHeld

LEMMA InItsSprint ==
  ASSUME NEW p \in Proc, NEW t \in Task, Staying(t, p), TypeInv, NEW l \in Place, NEW s \in Sprint,
         files[t].dir = Folder(l, s)
  PROVE  tasks[t].sprint = s
<1>1. PICK m \in Sprint \cup {NoSprint} : m = tasks[t].sprint /\ Member(t, m)
  BY InHand DEF Staying, Records
<1>2. Home(t, m)
  BY <1>1 DEF Member
<1>3. m # NoSprint
  BY <1>2, DirFacts DEF Home
<1>4. PICK k : files[t].dir = Folder(k, m)
  BY <1>2, <1>3 DEF Home
<1>5. Folder(k, m).sprint = m /\ Folder(l, s).sprint = s
  BY DEF Folder
<1> QED
  BY <1>1, <1>4, <1>5

LEMMA CollectHeld ==
  ASSUME NEW p \in Proc, Ground(p), Collect(p)
  PROVE  Held(p)'
<1>1. pc[p] = "collect" /\ pc[p] \in OnTheMove /\ UNCHANGED <<database, disk>>
  BY DEF Collect, OnTheMove
<1>2. job[p] \in Job /\ job[p].cmd = "complete" /\ job[p].sprint \in Sprint
  BY <1>1, MovingFacts
<1>3. PICK T : /\ T = {Entry(t) : t \in Visits(job[p].cmd, job[p].sprint)}
               /\ Continue(p, "frontmatter", [job[p] EXCEPT !.todo = T])
  BY <1>2, CalmWorks DEF Collect, Ground
<1>4. pc'[p] = "frontmatter" /\ job'[p] = [job[p] EXCEPT !.todo = T]
  BY <1>3, Goes DEF Ground
<1>5. Same(p, job'[p]) /\ job'[p].sprint = job[p].sprint /\ job'[p].todo = T
  BY <1>2, <1>4 DEF Same, Job
<1>6. \A e \in T : tasks[e.task].sprint = job[p].sprint
  BY <1>3 DEF Entry, Visits
<1>7. JobHeld(p)'
  BY <1>1, <1>2, <1>4, <1>5, <1>6, JobAlong DEF OnTheMove, Binding, database
<1>8. Part(pc[p], pc'[p]) /\ \A t \in Task : ~Late(t, p)
  BY <1>1, <1>4 DEF Part, Early, Late
<1> QED
  BY <1>1, <1>5, <1>7, <1>8, MovesAlong

LEMMA RestIs ==
  ASSUME NEW p \in Proc, TypeInv, NEW e
  PROVE  /\ Same(p, Rest(p, e)) /\ Rest(p, e).sprint = job[p].sprint
         /\ Rest(p, e).todo = job[p].todo \ {e} /\ Rest(p, e).row = job[p].row
         /\ Rest(p, e) \in Job
<1>1. job[p] \in Job
  BY InHand
<1>2. Rest(p, e) = [job[p] EXCEPT !.todo = job[p].todo \ {e}] /\ Rest(p, e) \in Job
  BY RestType DEF TypeInv
<1> QED
  BY <1>1, <1>2 DEF Same, Job

LEMMA FrontmatterHeld ==
  ASSUME NEW p \in Proc, Ground(p), WriteFrontmatter(p)
  PROVE  Held(p)'
<1>1. pc[p] = "frontmatter" /\ pc[p] \in OnTheMove
      /\ UNCHANGED <<database, folders, inner, docs, backlog, focus>> /\ ~Fault
  BY CalmWorks DEF WriteFrontmatter, OnTheMove, Ground
<1>2. /\ job[p] \in Job /\ job[p].cmd = "complete" /\ job[p].sprint \in Sprint
      /\ \A t \in Task : Staying(t, p)
      /\ \A e \in job[p].todo : e.task \in Task /\ tasks[e.task].sprint = job[p].sprint
  BY <1>1, MovingFacts DEF Ground, Held, JobHeld
<1>3. ASSUME pc'[p] \in {"frontmatter", "move"}, Same(p, job'[p]),
             job'[p].sprint = job[p].sprint, job'[p].todo \subseteq job[p].todo
      PROVE  /\ Part(pc[p], pc'[p]) /\ JobHeld(p)'
             /\ \A t \in Task : Late(t, p) /\ UNCHANGED files => Late(t, p)'
  <2>1. Part(pc[p], pc'[p])
    BY <1>1, <1>3 DEF Part, Early
  <2>2. JobHeld(p)'
    BY <1>1, <1>2, <1>3, JobAlong DEF OnTheMove, Binding, database
  <2>3. \A t \in Task : Late(t, p) /\ UNCHANGED files => Late(t, p)'
    BY <1>1, <1>2, <1>3 DEF Late, Same, OnTheMove
  <2> QED
    BY <2>1, <2>2, <2>3
<1>4. CASE Goto(p, "move") /\ UNCHANGED files
  <2>1. pc'[p] = "move" /\ job'[p] = job[p]
    BY <1>4, Goes DEF Goto, Ground
  <2>2. Same(p, job'[p])
    BY <2>1 DEF Same
  <2> QED
    BY <1>1, <1>3, <1>4, <2>1, <2>2, MovesAlong DEF disk
<1>5. ASSUME NEW e \in job[p].todo, Continue(p, "frontmatter", Rest(p, e)),
             files' = [files EXCEPT ![e.task].status = "done"] \/ UNCHANGED files
      PROVE  Held(p)'
  <2>1. pc'[p] = "frontmatter" /\ job'[p] = Rest(p, e)
    BY <1>5, Goes DEF Ground
  <2>2. Same(p, job'[p]) /\ job'[p].sprint = job[p].sprint /\ job'[p].todo \subseteq job[p].todo
    BY <2>1, RestIs DEF Ground
  <2>3. CASE UNCHANGED files
    BY <1>1, <1>3, <2>1, <2>2, <2>3, MovesAlong DEF disk
  <2>4. CASE files' = [files EXCEPT ![e.task].status = "done"]
    <3>1. PICK t \in Task : t = e.task /\ tasks[t].sprint = job[p].sprint
      BY <1>2
    <3>2. /\ files' = [files EXCEPT ![t].status = "done"] /\ files \in [Task -> Records]
          /\ UNCHANGED tasks
      BY <1>1, <2>4, <3>1, InHand DEF Ground, database
    <3>3. \A u \in Task : /\ files'[u].sprint = files[u].sprint /\ files'[u].dir = files[u].dir
                          /\ u # t => files'[u].status = files[u].status
                          /\ u = t => files'[u].status = "done"
      BY <3>2 DEF Records
    <3>4. ASSUME NEW u \in Task
          PROVE  \/ tasks'[u].status = files'[u].status
                 \/ tasks[u].sprint = job[p].sprint /\ Late(u, p)'
      <4>1. Staying(u, p)
        BY <1>2
      <4>2. files'[u].status = "done" => Late(u, p)'
        BY <1>1, <1>2, <2>1, <2>2 DEF Late, Same, OnTheMove
      <4> QED
        BY <3>1, <3>2, <3>3, <4>1, <4>2 DEF Staying, Late
    <3> QED
      BY <1>1, <1>3, <2>1, <2>2, <3>2, <3>3, <3>4, WorksAlong DEF database
  <2> QED
    BY <1>5, <2>3, <2>4
<1> QED
  BY <1>1, <1>4, <1>5 DEF WriteFrontmatter

LEMMA SweepHeld ==
  ASSUME NEW p \in Proc, Ground(p), Sweep(p)
  PROVE  Held(p)'
<1>1. pc[p] = "sweep" /\ pc[p] \in OnTheMove /\ UNCHANGED <<database, backlog, focus>>
  BY DEF Sweep, OnTheMove
<1>2. PICK s \in Sprint, from \in Standing, to \in Standing :
         s = job[p].sprint /\ from = job[p].from /\ to = job[p].to /\ from # to
  BY <1>1, MovingFacts
<1>3. Stands(s, from, to, from) /\ inner[s] = {} /\ \A t \in Task : Staying(t, p)
  BY <1>1, <1>2, MovingFacts DEF Underway, Standing
<1>4. /\ folders \in [Sprint -> SUBSET Place] /\ inner \in [Sprint -> SUBSET Place]
      /\ docs \in [Sprint -> [Place -> Docs]] /\ files \in [Task -> Records]
  BY InHand DEF Ground
<1>5. folders' = folders /\ inner' = inner
  BY <1>1, <1>2, <1>3, <1>4 DEF Sweep, Stands
<1>6. docs' = docs
  <2>1. docs[s][from] = NoDoc
    BY <1>2, <1>3 DEF Stands, HasDoc, Standing
  <2>2. docs' = [docs EXCEPT ![s][from] = NoDoc]
    BY <1>1, <1>2 DEF Sweep
  <2> QED
    BY <1>2, <1>4, <2>1, <2>2
<1>7. files' = files
  <2>1. ASSUME NEW t \in Task PROVE ~(files[t].dir.place = from /\ files[t].dir.sprint = s)
    <3>1. PICK m \in Sprint \cup {NoSprint} : m = tasks[t].sprint /\ Member(t, m)
      BY <1>3, InHand DEF Staying, Records, Ground
    <3>2. Home(t, m)
      BY <3>1 DEF Member
    <3>3. CASE m = NoSprint
      BY <1>2, <3>2, <3>3, DirFacts, SprintAssumption DEF Home
    <3>4. CASE m # NoSprint
      <4>1. PICK l \in folders[m] : files[t].dir = Folder(l, m)
        BY <3>2, <3>4 DEF Home
      <4> QED
        BY <1>2, <1>3, <4>1, DirFacts DEF Stands
    <3> QED
      BY <3>3, <3>4
  <2>2. files' = [t \in Task |-> files[t]]
    BY <1>1, <1>2, <2>1 DEF Sweep
  <2> QED
    BY <1>4, <2>2
<1>8. pc'[p] = "stamp" /\ job'[p] = job[p]
  BY Goes DEF Sweep, Goto, Ground
<1>9. Same(p, job'[p]) /\ Part(pc[p], pc'[p])
  BY <1>1, <1>8 DEF Same, Part
<1>10. JobHeld(p)'
  BY <1>1, <1>8, <1>9, JobAlong DEF OnTheMove, Binding
<1>11. \A t \in Task : Late(t, p) => Late(t, p)'
  BY <1>1, <1>7, <1>8 DEF Late, OnTheMove
<1> QED
  BY <1>1, <1>5, <1>6, <1>7, <1>8, <1>9, <1>10, <1>11, MovesAlong DEF disk

LEMMA ListHeld ==
  ASSUME NEW p \in Proc, Ground(p), ListFiles(p)
  PROVE  Held(p)'
<1>1. pc[p] = "list" /\ pc[p] \in OnTheMove /\ UNCHANGED <<database, disk>>
  BY DEF ListFiles, OnTheMove
<1>2. job[p] \in Job
  BY <1>1, MovingFacts
<1>3. PICK T : /\ \A e \in T : e.dir = Folder(job[p].to, job[p].sprint)
               /\ Continue(p, "bind", [job[p] EXCEPT !.todo = T])
  <2> DEFINE d == Folder(job[p].to, job[p].sprint)
             U == {[task |-> t, dir |-> d] : t \in {u \in Task : files[u].dir = d}}
  <2>1. Continue(p, "bind", [job[p] EXCEPT !.todo = U])
    BY DEF ListFiles
  <2>2. \A e \in U : e.dir = d
    OBVIOUS
  <2> HIDE DEF U
  <2> QED
    BY <2>1, <2>2
<1>4. pc'[p] = "bind" /\ job'[p] = [job[p] EXCEPT !.todo = T]
  BY <1>3, Goes DEF Ground
<1>5. Same(p, job'[p]) /\ job'[p].sprint = job[p].sprint /\ job'[p].todo = T
  BY <1>2, <1>4 DEF Same, Job
<1>6. JobHeld(p)'
  BY <1>1, <1>3, <1>4, <1>5, JobAlong DEF OnTheMove
<1>7. Part(pc[p], pc'[p])
  BY <1>1, <1>4 DEF Part, Ended
<1>8. \A t \in Task : Late(t, p) => Late(t, p)'
  BY <1>1, <1>4, <1>5 DEF Late, Same, OnTheMove, disk
<1> QED
  BY <1>1, <1>5, <1>6, <1>7, <1>8, MovesAlong

LEMMA BindHeld ==
  ASSUME NEW p \in Proc, Ground(p), Bind(p)
  PROVE  Held(p)'
<1>1. pc[p] = "bind" /\ pc[p] \in OnTheMove /\ UNCHANGED <<database, disk>>
  BY DEF Bind, OnTheMove
<1>2. /\ job[p] \in Job /\ job[p].cmd \in {"start", "complete"}
      /\ \A e \in job[p].todo : e.dir = Folder(job[p].to, job[p].sprint)
  BY <1>1, MovingFacts DEF Ground, Held, JobHeld, Binding
<1>3. PICK l, k :
         /\ l \in {"sync", "focus", "bind", "bind-sprint"}
         /\ Continue(p, l, k) /\ Same(p, k) /\ k.sprint = job[p].sprint
         /\ k.todo \subseteq job[p].todo
         /\ l = "sync" <=> job[p].cmd = "complete" /\ job[p].todo = {}
         /\ l = "focus" => job[p].cmd = "start"
         /\ l = "bind-sprint" => files[k.task].dir = Folder(job[p].to, job[p].sprint)
  <2>1. CASE job[p].todo = {}
    <3>0. Goto(p, IF job[p].cmd = "complete" THEN "sync"
                  ELSE IF job[p].cmd = "start" \/ job[p].from = "active" THEN "focus"
                  ELSE "idle")
      BY <2>1 DEF Bind
    <3>1. CASE job[p].cmd = "complete"
      <4>1. Continue(p, "sync", job[p])
        BY <3>0, <3>1 DEF Goto
      <4> QED
        BY <2>1, <3>1, <4>1 DEF Same
    <3>2. CASE job[p].cmd = "start"
      <4>1. Continue(p, "focus", job[p])
        BY <3>0, <3>2 DEF Goto
      <4> QED
        BY <2>1, <3>2, <4>1 DEF Same
    <3> QED
      BY <1>2, <3>1, <3>2
  <2>2. ASSUME NEW e \in job[p].todo, files[e.task].dir = e.dir,
               Continue(p, "bind-sprint", [Rest(p, e) EXCEPT !.task = e.task])
        PROVE  \E k : /\ Continue(p, "bind-sprint", k) /\ Same(p, k) /\ k.sprint = job[p].sprint
                      /\ k.todo \subseteq job[p].todo
                      /\ files[k.task].dir = Folder(job[p].to, job[p].sprint)
    <3>1. PICK r \in Job : r = Rest(p, e) /\ Same(p, r) /\ r.sprint = job[p].sprint
                           /\ r.todo \subseteq job[p].todo
      BY RestIs DEF Ground
    <3>2. PICK t \in Task : t = e.task
      BY <1>1, <2>2, MovingFacts
    <3>3. PICK k : k = [r EXCEPT !.task = t] /\ Continue(p, "bind-sprint", k)
      BY <2>2, <3>1, <3>2
    <3>4. k.cmd = r.cmd /\ k.from = r.from /\ k.to = r.to /\ k.sprint = r.sprint
          /\ k.todo = r.todo /\ k.task = t
      BY <3>1, <3>3 DEF Job
    <3> QED
      BY <1>2, <2>2, <3>1, <3>2, <3>3, <3>4 DEF Same
  <2>3. ASSUME NEW e \in job[p].todo, Continue(p, "bind", Rest(p, e))
        PROVE  \E k : /\ Continue(p, "bind", k) /\ Same(p, k) /\ k.sprint = job[p].sprint
                      /\ k.todo \subseteq job[p].todo
    BY <2>3, RestIs DEF Ground
  <2>4. CASE job[p].todo # {} /\ \E e \in job[p].todo :
               /\ files[e.task].dir = e.dir
               /\ Continue(p, "bind-sprint", [Rest(p, e) EXCEPT !.task = e.task])
    BY <2>2, <2>4
  <2>5. CASE job[p].todo # {} /\ \E e \in job[p].todo : Continue(p, "bind", Rest(p, e))
    BY <2>3, <2>5
  <2> QED
    BY <2>1, <2>4, <2>5 DEF Bind
<1>4. pc'[p] = l /\ job'[p] = k
  BY <1>3, Goes DEF Ground
<1>5. Same(p, job'[p]) /\ job'[p].sprint = job[p].sprint
  BY <1>3, <1>4
<1>6. JobHeld(p)'
  BY <1>1, <1>2, <1>3, <1>4, <1>5, JobAlong DEF OnTheMove, Binding, disk
<1>7. Part(pc[p], pc'[p])
  BY <1>1, <1>3, <1>4 DEF Part, Ended
<1>8. \A t \in Task : Late(t, p) => Late(t, p)'
  BY <1>1, <1>3, <1>4 DEF Late, Same, OnTheMove, disk
<1> QED
  BY <1>1, <1>5, <1>6, <1>7, <1>8, MovesAlong

LEMMA BindOneHeld ==
  ASSUME NEW p \in Proc, Ground(p), BindSprint(p) \/ BindPath(p)
  PROVE  Held(p)'
<1>1. /\ pc[p] \in {"bind-sprint", "bind-path"} /\ pc[p] \in OnTheMove
      /\ UNCHANGED <<sprints, disk>> /\ ~Fault
  BY CalmWorks DEF BindSprint, BindPath, OnTheMove, Ground
<1>2. PICK s \in Sprint, t \in Task, to \in Place :
         /\ s = job[p].sprint /\ t = job[p].task /\ to = job[p].to
         /\ files[t].dir = Folder(to, s) /\ Staying(t, p)
  <2>1. job[p].task \in Task /\ job[p].to \in Place
    BY <1>1, InHand DEF JobOK, Ground, OnTheMove
  <2> QED
    BY <1>1, <2>1, MovingFacts DEF Ground, Held, JobHeld, Binding
<1>3. tasks[t].sprint = s /\ tasks[t].dir = Folder(to, s) /\ tasks \in [Task -> Records]
  <2>1. tasks[t].sprint = s
    BY <1>2, InItsSprint DEF Ground
  <2>2. ~Strayed(t, p)
    BY <1>1 DEF Strayed
  <2> QED
    BY <1>2, <2>1, <2>2, InHand DEF Staying, Ground
<1>4. tasks' = tasks
  <2>1. CASE BindSprint(p)
    <3>1. tasks' = [tasks EXCEPT ![t].sprint = s]
      BY <1>1, <1>2, <2>1 DEF BindSprint
    <3> QED
      BY <1>3, <3>1 DEF Records
  <2>2. CASE BindPath(p)
    <3>1. tasks' = [tasks EXCEPT ![t].dir = Folder(to, s)]
      BY <1>1, <1>2, <2>2 DEF BindPath
    <3> QED
      BY <1>3, <3>1 DEF Records
  <2> QED
    BY <2>1, <2>2
<1>5. pc'[p] \in {"bind", "bind-path"} /\ job'[p] = job[p]
  BY <1>1, Goes DEF BindSprint, BindPath, Goto, Ground
<1>6. Same(p, job'[p])
  BY <1>5 DEF Same
<1>7. JobHeld(p)'
  <2>1. /\ \A e \in job[p].todo : e.dir = Folder(job[p].to, job[p].sprint)
        /\ files[job[p].task].dir = Folder(job[p].to, job[p].sprint)
    BY <1>1 DEF Ground, Held, JobHeld, Binding
  <2> QED
    BY <1>1, <1>5, <1>6, <2>1, JobAlong DEF OnTheMove, Binding, disk
<1>8. Part(pc[p], pc'[p])
  BY <1>1, <1>5 DEF Part, Ended
<1>9. \A u \in Task : Late(u, p) => Late(u, p)'
  BY <1>1, <1>5 DEF Late, OnTheMove, disk
<1> QED
  BY <1>1, <1>4, <1>5, <1>6, <1>7, <1>8, <1>9, MovesAlong DEF database

LEMMA SyncHeld ==
  ASSUME NEW p \in Proc, Ground(p), ListForSync(p)
  PROVE  Held(p)'
<1>1. pc[p] = "sync" /\ pc[p] \in OnTheMove /\ UNCHANGED <<database, disk>>
  BY DEF ListForSync, OnTheMove
<1>2. job[p] \in Job /\ job[p].cmd = "complete"
  BY <1>1, MovingFacts
<1>3. PICK T : /\ T = {Entry(t) : t \in Visits("complete", job[p].sprint)}
               /\ Continue(p, "force", [job[p] EXCEPT !.todo = T])
  BY CalmWorks DEF ListForSync, Ground
<1>4. pc'[p] = "force" /\ job'[p] = [job[p] EXCEPT !.todo = T]
  BY <1>3, Goes DEF Ground
<1>5. Same(p, job'[p]) /\ job'[p].sprint = job[p].sprint /\ job'[p].todo = T
  BY <1>2, <1>4 DEF Same, Job
<1>6. JobHeld(p)'
  BY <1>1, <1>2, <1>4, <1>5, JobAlong DEF OnTheMove, Binding
<1>7. Part(pc[p], pc'[p])
  BY <1>1, <1>4 DEF Part, Ended
<1>8. ASSUME NEW t \in Task, Late(t, p), tasks[t].sprint = job[p].sprint PROVE Late(t, p)'
  <2>1. Entry(t) \in T /\ Entry(t)' = Entry(t)
    BY <1>1, <1>3, <1>8 DEF Visits, Entry, database
  <2> QED
    BY <1>1, <1>4, <1>5, <1>8, <2>1 DEF Late, Same, OnTheMove, disk
<1> QED
  BY <1>1, <1>5, <1>6, <1>7, <1>8, MovesAlong

LEMMA ForceHeld ==
  ASSUME NEW p \in Proc, Ground(p), ForceStatus(p)
  PROVE  Held(p)'
<1>1. pc[p] = "force" /\ pc[p] \in OnTheMove /\ UNCHANGED <<sprints, disk>> /\ ~Fault
  BY CalmWorks DEF ForceStatus, OnTheMove, Ground
<1>2. job[p] \in Job /\ job[p].cmd = "complete" /\ \A t \in Task : Staying(t, p)
  BY <1>1, MovingFacts
<1>3. CASE job[p].todo = {} /\ Goto(p, "focus") /\ UNCHANGED tasks
  <2>1. pc'[p] = "focus" /\ job'[p] = job[p]
    BY <1>3, Goes DEF Goto, Ground
  <2>2. Same(p, job'[p]) /\ Part(pc[p], pc'[p])
    BY <1>1, <2>1 DEF Same, Part, Ended
  <2>3. JobHeld(p)'
    BY <1>1, <2>1, <2>2, JobAlong DEF OnTheMove, Binding
  <2>4. \A t \in Task : ~Late(t, p)
    BY <1>1, <1>3 DEF Late
  <2> QED
    BY <1>1, <1>3, <2>1, <2>2, <2>3, <2>4, MovesAlong DEF database
<1>4. ASSUME NEW e \in job[p].todo, Continue(p, "force", Rest(p, e)),
             tasks' = IF files[e.task].dir = e.dir /\ files[e.task].status = "done"
                      THEN [tasks EXCEPT ![e.task].status = "done"] ELSE tasks
      PROVE  Held(p)'
  <2>1. pc'[p] = "force" /\ job'[p] = Rest(p, e)
    BY <1>4, Goes DEF Ground
  <2>2. Same(p, job'[p]) /\ job'[p].sprint = job[p].sprint /\ job'[p].todo = job[p].todo \ {e}
    BY <2>1, RestIs DEF Ground
  <2>3. JobHeld(p)'
    BY <1>1, <1>2, <2>1, <2>2, JobAlong DEF OnTheMove, Binding
  <2>4. Part(pc[p], pc'[p])
    BY <1>1, <2>1 DEF Part, Ended
  <2>5. PICK t \in Task : t = e.task
    BY <1>1, MovingFacts
  <2>6. tasks \in [Task -> Records]
    BY InHand DEF Ground
  <2>7. \A u \in Task : /\ tasks'[u].sprint = tasks[u].sprint /\ tasks'[u].dir = tasks[u].dir
                        /\ u # t => tasks'[u].status = tasks[u].status
                        /\ u = t => tasks'[u].status = IF files[t].dir = e.dir /\ files[t].status = "done"
                                                       THEN "done" ELSE tasks[t].status
    BY <1>4, <2>5, <2>6 DEF Records
  <2>8. ASSUME NEW u \in Task
        PROVE  \/ tasks'[u].status = files[u].status
               \/ tasks[u].sprint = job[p].sprint /\ Late(u, p)'
    <3>1. Staying(u, p) /\ tasks[u].dir = files[u].dir
      BY <1>1, <1>2 DEF Staying, Strayed
    <3>2. CASE tasks[u].status = files[u].status
      BY <2>7, <3>2
    <3>3. CASE tasks[u].status # files[u].status
      <4>1. tasks[u].sprint = job[p].sprint /\ files[u].status = "done" /\ Entry(u) \in job[p].todo
        BY <1>1, <3>1, <3>3 DEF Staying, Late
      <4>2. CASE Entry(u) = e
        <5>1. u = t /\ files[t].dir = e.dir
          BY <2>5, <3>1, <4>2 DEF Entry
        <5> QED
          BY <2>7, <4>1, <5>1
      <4>3. CASE Entry(u) # e
        <5>1. Entry(u)' = Entry(u)
          BY <2>7 DEF Entry
        <5> QED
          BY <1>1, <1>2, <2>1, <2>2, <4>1, <4>3, <5>1 DEF Late, Same, OnTheMove, disk
      <4> QED
        BY <4>2, <4>3
    <3> QED
      BY <3>2, <3>3
  <2> QED
    BY <1>1, <2>2, <2>3, <2>4, <2>7, <2>8, WorksAlong DEF disk
<1> QED
  BY <1>1, <1>3, <1>4 DEF ForceStatus

LEMMA FocusHeldThere ==
  ASSUME NEW p \in Proc, Ground(p), UpdateCurrentFocus(p)
  PROVE  Held(p)'
<1>1. /\ pc[p] = "focus" /\ pc[p] \in OnTheMove
      /\ UNCHANGED <<sprints, tasks, folders, inner, docs, files, backlog>>
      /\ focus' = IF job[p].cmd = "start" THEN job[p].sprint ELSE NoSprint
  BY CalmWorks DEF UpdateCurrentFocus, OnTheMove, Ground, database
<1>2. PICK s \in Sprint, to \in Standing :
         /\ s = job[p].sprint /\ to = job[p].to /\ Underway(p, s)
         /\ job[p].cmd = "start" => to = "active"
         /\ job[p].from \in Place
  BY <1>1, MovingFacts DEF Standing
<1>3. Stands(s, to, to, to)
  BY <1>1, <1>2 DEF Underway, Ended, Standing
<1>4. pc'[p] = "idle"
  BY Goes DEF UpdateCurrentFocus, Return, Goto, Ground
<1>5. SprintsHeld(p)'
  <2>1. \A r \in Sprint : AtRest(r)' /\ inner[r] = {}
    BY <1>1, <1>2, <1>3, MovingFacts, StandsAtRest, SprintStays
  <2> QED
    BY <1>1, <1>4, <2>1, SprintsRest DEF OnTheMove
<1>6. TasksHeld(p)'
  <2>1. \A t \in Task : Rested(t)
    BY <1>1, MovingFacts DEF Staying, Rested, Late, Strayed
  <2>2. \A t \in Task : Rested(t)'
    BY <1>1, <2>1, RestedStays
  <2> QED
    BY <1>4, <2>2, TasksRest DEF Assigning
<1>7. FocusHeld(p)'
  BY <1>1, <1>2, <1>3 DEF FocusHeld, Stands
<1>8. JobHeld(p)'
  BY <1>4 DEF JobHeld, OnTheMove, Assigning, Binding
<1> QED
  BY <1>5, <1>6, <1>7, <1>8 DEF Held

LEMMA GoesOnHeld ==
  ASSUME NEW p \in Proc, Ground(p), pc[p] \in OnTheMove, NEW s \in Sprint, s = job[p].sprint,
         pc'[p] \in OnTheMove \ {"return", "db-only", "collect", "frontmatter", "sync", "force"},
         pc'[p] \notin Binding, job'[p] = job[p], UNCHANGED inner,
         \A r \in Sprint \ {s} : sprints'[r] = sprints[r] /\ folders'[r] = folders[r]
                                 /\ docs'[r] = docs[r],
         Underway(p, s)', \A t \in Task : Staying(t, p)', FocusHeld(p)'
  PROVE  Held(p)'
<1>1. pc'[p] \notin Assigning /\ pc'[p] # "idle"
  BY DEF OnTheMove, Assigning
<1>2. SprintsHeld(p)'
  <2>1. ASSUME NEW r \in Sprint
        PROVE  inner'[r] = {} /\ (About(p, r)' <=> r = s) /\ (r # s => AtRest(r)')
    BY <1>1, MovingFacts, SprintStays DEF About
  <2> QED
    BY <2>1 DEF SprintsHeld
<1>3. TasksHeld(p)'
  BY <1>1 DEF TasksHeld, InChange
<1>4. JobHeld(p)'
  <2>1. Same(p, job'[p])
    BY DEF Same
  <2> QED
    BY <2>1, JobAlong
<1> QED
  BY <1>2, <1>3, <1>4 DEF Held

LEMMA Redirected ==
  ASSUME NEW l, NEW r \in Sprint, NEW to \in Place, NEW e \in Dirs, e = Folder(l, r), NEW d,
         d = [e EXCEPT !.place = to]
  PROVE  d = Folder(to, r)
<1>1. e.deep = FALSE /\ e.sprint = r
  BY DEF Folder
<1>2. d \in Dirs /\ d.place = to /\ d.sprint = r /\ d.deep = FALSE
  BY <1>1 DEF Dirs
<1> QED
  BY <1>2, DirIs

LEMMA StampHeld ==
  ASSUME NEW p \in Proc, Ground(p), Stamp(p)
  PROVE  Held(p)'
<1>1. /\ pc[p] = "stamp" /\ pc[p] \in OnTheMove
      /\ UNCHANGED <<sprints, tasks, folders, inner, files, backlog, focus>> /\ ~Fault
  BY CalmWorks DEF Stamp, OnTheMove, Ground, database
<1>2. PICK s \in Sprint, from \in Standing, to \in Standing :
         s = job[p].sprint /\ from = job[p].from /\ to = job[p].to
  BY <1>1, MovingFacts
<1>3. Stands(s, from, to, from) /\ \A t \in Task : Staying(t, p)
  BY <1>1, <1>2, MovingFacts DEF Underway, Standing
<1>4. docs \in [Sprint -> [Place -> Docs]] /\ docs' = [docs EXCEPT ![s][to].status = to]
  <2>1. HasDoc(s, to)
    BY <1>3 DEF Stands, Standing
  <2> QED
    BY <1>1, <1>2, <2>1, InHand DEF Stamp, Ground
<1>5. pc'[p] = "record" /\ job'[p] = job[p]
  BY Goes DEF Stamp, Goto, Ground
<1>6. \A r \in Sprint, l \in Place :
         /\ docs'[r][l].rows = docs[r][l].rows
         /\ HasDoc(r, l)' <=> HasDoc(r, l)
         /\ r # s => docs'[r] = docs[r]
         /\ r = s /\ l = to => docs'[r][l].status = to
  <2>1. HasDoc(s, to) /\ to # "none"
    BY <1>3 DEF Stands, Standing, Place
  <2>2. docs'[s][to] = [docs[s][to] EXCEPT !.status = to]
    BY <1>2, <1>4 DEF Standing
  <2>3. docs'[s][to].status = to /\ docs'[s][to].rows = docs[s][to].rows
    BY <1>2, <1>4, <2>2 DEF Docs, Standing
  <2>4. \A r \in Sprint, l \in Place : r # s \/ l # to => docs'[r][l] = docs[r][l]
    BY <1>4
  <2>5. \A r \in Sprint : r # s => docs'[r] = docs[r]
    BY <1>4
  <2> QED
    BY <2>1, <2>3, <2>4, <2>5 DEF HasDoc, NoDoc
<1>7. Underway(p, s)'
  <2>1. Stands(s, from, to, to)'
    BY <1>1, <1>2, <1>3, <1>6 DEF Stands, Standing
  <2> QED
    BY <1>2, <1>5, <2>1 DEF Underway, OnTheMove, Assigning, Early, Ended
<1>8. ASSUME NEW t \in Task PROVE Staying(t, p)'
  <2>1. Staying(t, p)
    BY <1>3
  <2>2. ASSUME NEW m \in Sprint \cup {NoSprint}, Member(t, m) PROVE Member(t, m)'
    <3>1. Listed(t, m)'
      BY <1>6, <2>2 DEF Member, Listed
    <3> QED
      BY <1>1, <2>2, <3>1 DEF Member, Home, Exists
  <2>3. (Late(t, p) => Late(t, p)') /\ (Strayed(t, p) => Strayed(t, p)')
    BY <1>1, <1>5 DEF Late, Strayed, OnTheMove
  <2> QED
    BY <1>1, <1>5, <2>1, <2>2, <2>3 DEF Staying
<1>9. FocusHeld(p)'
  BY <1>1, FocusStays DEF Ground, Held, Ended
<1>10. \A r \in Sprint \ {s} : docs'[r] = docs[r]
  BY <1>4
<1> QED
  BY <1>1, <1>2, <1>5, <1>7, <1>8, <1>9, <1>10, GoesOnHeld DEF OnTheMove, Binding

LEMMA RecordHeld ==
  ASSUME NEW p \in Proc, Ground(p), Record(p)
  PROVE  Held(p)'
<1>1. /\ pc[p] = "record" /\ pc[p] \in OnTheMove /\ UNCHANGED <<tasks, disk>> /\ ~Fault
  <2>1. pc[p] \in OnTheMove
    BY DEF Record, OnTheMove
  <2> QED
    BY <2>1, MovingFacts, CalmWorks DEF Record, Ground
<1>2. PICK s \in Sprint, from \in Standing, to \in Standing :
         /\ s = job[p].sprint /\ from = job[p].from /\ to = job[p].to /\ from # to
         /\ <<job[p].cmd, to>> \in {<<"start", "active">>, <<"complete", "completed">>}
  BY <1>1, MovingFacts
<1>3. Stands(s, from, to, to) /\ \A t \in Task : Staying(t, p)
  BY <1>1, <1>2, MovingFacts DEF Underway, Standing
<1>4. /\ sprints \in [Sprint -> Rows]
      /\ sprints' = [sprints EXCEPT ![s] = [status |-> to, folder |-> to]]
  <2>1. sprints[s].status # "none"
    BY <1>3 DEF Stands, Standing, Place
  <2> QED
    BY <1>1, <1>2, <2>1, InHand DEF Record, Ground
<1>5. pc'[p] = "paths" /\ job'[p] = job[p]
  BY <1>1, Goes DEF Record, Goto, Ground
<1>6. Underway(p, s)'
  <2>1. Stands(s, to, to, to)'
    BY <1>1, <1>3, <1>4 DEF Stands, HasDoc, disk
  <2> QED
    BY <1>2, <1>5, <2>1 DEF Underway, OnTheMove, Assigning, Early, Ended
<1>7. ASSUME NEW t \in Task PROVE Staying(t, p)'
  <2>1. Staying(t, p)
    BY <1>3
  <2>2. ASSUME NEW m \in Sprint \cup {NoSprint}, Member(t, m) PROVE Member(t, m)'
    <3>1. Exists(m)'
      BY <1>4, <2>2 DEF Member, Exists, Standing, Place
    <3>2. Home(t, m)' /\ Listed(t, m)'
      BY <1>1, <2>2 DEF Member, Home, Listed, HasDoc, disk
    <3> QED
      BY <1>1, <2>2, <3>1, <3>2 DEF Member, disk
  <2>3. (Late(t, p) => Late(t, p)') /\ (Strayed(t, p) => Strayed(t, p)')
    BY <1>1, <1>5 DEF Late, Strayed, OnTheMove, disk
  <2> QED
    BY <1>1, <1>5, <2>1, <2>2, <2>3 DEF Staying, disk
<1>8. FocusHeld(p)'
  <2>1. focus # NoSprint => focus \in Sprint /\ sprints[focus].status = "active"
    BY <1>1 DEF Ground, Held, FocusHeld, Ended, TypeInv, TasksOK
  <2>2. sprints[s].status = from
    BY <1>3 DEF Stands
  <2> QED
    BY <1>1, <1>2, <1>4, <1>5, <2>1, <2>2 DEF FocusHeld, Ended, disk
<1> QED
  BY <1>1, <1>2, <1>4, <1>5, <1>6, <1>7, <1>8, GoesOnHeld DEF OnTheMove, Binding, disk

LEMMA PathsHeld ==
  ASSUME NEW p \in Proc, Ground(p), UpdateTaskPathsForSprint(p)
  PROVE  Held(p)'
<1>1. /\ pc[p] = "paths" /\ pc[p] \in OnTheMove /\ UNCHANGED <<sprints, disk>> /\ ~Fault
  BY CalmWorks DEF UpdateTaskPathsForSprint, OnTheMove, Ground
<1>2. PICK s \in Sprint, from \in Standing, to \in Standing :
         s = job[p].sprint /\ from = job[p].from /\ to = job[p].to /\ from # to
  BY <1>1, MovingFacts
<1>3. Stands(s, to, to, to) /\ \A t \in Task : Staying(t, p)
  BY <1>1, <1>2, MovingFacts DEF Underway, Ended, Standing
<1>4. pc'[p] = "list" /\ job'[p] = job[p]
  BY Goes DEF UpdateTaskPathsForSprint, Goto, Ground
<1>5. Underway(p, s)'
  <2>1. Stands(s, to, to, to)'
    BY <1>1, <1>3 DEF Stands, HasDoc, disk
  <2> QED
    BY <1>2, <1>4, <2>1 DEF Underway, OnTheMove, Assigning, Early, Ended
<1>6. ASSUME NEW t \in Task PROVE Staying(t, p)'
  <2>1. Staying(t, p) /\ tasks[t] \in Records
    BY <1>3, InHand DEF Ground
  <2>2. tasks'[t] = IF /\ tasks[t].sprint = s
                       /\ tasks[t].dir.place = from /\ tasks[t].dir.sprint = s
                    THEN [tasks[t] EXCEPT !.dir.place = to] ELSE tasks[t]
    BY <1>1, <1>2 DEF UpdateTaskPathsForSprint
  <2>3. /\ tasks'[t].sprint = tasks[t].sprint /\ tasks'[t].status = tasks[t].status
        /\ tasks[t].dir = Folder(from, s) /\ tasks[t].sprint = s => tasks'[t].dir = Folder(to, s)
        /\ tasks[t].dir = Folder(to, s) => tasks'[t].dir = tasks[t].dir
        /\ tasks[t].sprint # s => tasks'[t].dir = tasks[t].dir
    <3>1. CASE tasks[t].sprint = s /\ tasks[t].dir.place = from /\ tasks[t].dir.sprint = s
      <4>1. tasks'[t] = [tasks[t] EXCEPT !.dir.place = to]
        BY <2>2, <3>1
      <4>2. tasks[t].dir # Folder(to, s)
        BY <1>2, <3>1 DEF Folder
      <4>3. PICK f, g : f \in Records /\ f = tasks[t] /\ g = tasks'[t] /\ g = [f EXCEPT !.dir.place = to]
        BY <2>1, <4>1
      <4>5. PICK e, d : /\ e \in Dirs /\ e = f.dir /\ d = [e EXCEPT !.place = to]
                       /\ g = [f EXCEPT !.dir = d]
        BY <4>3 DEF Records
      <4>6. f.dir = Folder(from, s) => d = Folder(to, s)
        <5>1. to \in Place
          BY DEF Standing
        <5>2. SUFFICES ASSUME e = Folder(from, s) PROVE d = Folder(to, s)
          BY <4>5
        <5>3. d = [e EXCEPT !.place = to]
          BY <4>5
        <5> QED
          BY <4>5, <5>1, <5>2, <5>3, Redirected
      <4>7. /\ g.sprint = f.sprint /\ g.status = f.status
            /\ f.dir = Folder(from, s) => g.dir = Folder(to, s)
        BY <4>5, <4>6 DEF Records
      <4> QED
        BY <3>1, <4>2, <4>3, <4>7
    <3>2. CASE ~(tasks[t].sprint = s /\ tasks[t].dir.place = from /\ tasks[t].dir.sprint = s)
      BY <2>2, <3>2 DEF Folder
    <3> QED
      BY <3>1, <3>2
  <2>4. PICK m \in Sprint \cup {NoSprint} : m = tasks[t].sprint /\ Member(t, m)
    BY <2>1 DEF Staying, Records
  <2>5. Member(t, m)'
    BY <1>1, <2>4, MemberStays DEF disk
  <2>6. tasks'[t].dir = files[t].dir
    <3>1. CASE m = s
      <4>1. files[t].dir = Folder(to, s)
        BY <1>3, <2>4, <3>1, SprintAssumption DEF Member, Home, Stands
      <4>2. tasks[t].dir = Folder(to, s) \/ tasks[t].dir = Folder(from, s)
        BY <1>2, <2>1, <4>1 DEF Staying, Strayed
      <4> QED
        BY <2>3, <2>4, <3>1, <4>1, <4>2
    <3>2. CASE m # s
      BY <1>2, <2>1, <2>3, <2>4, <3>2 DEF Staying
    <3> QED
      BY <3>1, <3>2
  <2>7. Late(t, p) => Late(t, p)'
    BY <1>1, <1>4 DEF Late, OnTheMove, disk
  <2> QED
    BY <1>1, <1>4, <2>1, <2>3, <2>4, <2>5, <2>6, <2>7 DEF Staying, disk
<1>7. FocusHeld(p)'
  BY <1>1, <1>4, FocusStays DEF Ground, Held, Ended, disk
<1> QED
  BY <1>1, <1>2, <1>4, <1>5, <1>6, <1>7, GoesOnHeld DEF OnTheMove, Binding, disk

LEMMA MoveHeld ==
  ASSUME NEW p \in Proc, Ground(p), MoveSprint(p)
  PROVE  Held(p)'
<1>1. /\ pc[p] = "move" /\ pc[p] \in OnTheMove /\ UNCHANGED <<database, backlog, focus>> /\ ~Fault
  BY CalmWorks DEF MoveSprint, OnTheMove, Ground
<1>2. PICK s \in Sprint, from \in Standing, to \in Standing :
         s = job[p].sprint /\ from = job[p].from /\ to = job[p].to /\ from # to
  BY <1>1, MovingFacts
<1>3. Stands(s, from, from, from) /\ inner[s] = {} /\ \A t \in Task : Staying(t, p)
  BY <1>1, <1>2, MovingFacts DEF Underway, Early, Standing
<1>4. /\ folders \in [Sprint -> SUBSET Place] /\ inner \in [Sprint -> SUBSET Place]
      /\ docs \in [Sprint -> [Place -> Docs]] /\ files \in [Task -> Records]
      /\ from \in Place /\ to \in Place
  BY InHand DEF Ground, Standing
<1>5. MoveTree(s, from, to) /\ Goto(p, "sweep")
  <2>1. from \in folders[s] /\ to \notin folders[s]
    BY <1>2, <1>3 DEF Stands
  <2> QED
    BY <1>1, <1>2, <2>1 DEF MoveSprint
<1>6. pc'[p] = "sweep" /\ job'[p] = job[p]
  BY <1>5, Goes DEF Goto, Ground
<1>7. folders'[s] = {to} /\ inner' = inner /\ \A r \in Sprint \ {s} : folders'[r] = folders[r]
  BY <1>3, <1>4, <1>5 DEF MoveTree, Stands
<1>8. /\ docs'[s][to] = docs[s][from] /\ docs'[s][from] = NoDoc
      /\ \A l \in Place \ {from, to} : docs'[s][l] = docs[s][l]
      /\ \A r \in Sprint \ {s} : docs'[r] = docs[r]
  <2>1. docs' = [docs EXCEPT ![s] = [docs[s] EXCEPT ![to] = docs[s][from], ![from] = NoDoc]]
    BY <1>5 DEF MoveTree
  <2>2. docs'[s] = [docs[s] EXCEPT ![to] = docs[s][from], ![from] = NoDoc]
    BY <1>4, <2>1
  <2> QED
    BY <1>2, <1>4, <2>1, <2>2
<1>9. Underway(p, s)'
  <2>1. Stands(s, from, to, from)'
    <3>1. \A l \in Place : HasDoc(s, l)' <=> l = to
      BY <1>2, <1>3, <1>4, <1>8 DEF Stands, HasDoc
    <3> QED
      BY <1>1, <1>3, <1>7, <1>8, <3>1 DEF Stands, database
  <2> QED
    BY <1>2, <1>6, <2>1 DEF Underway, OnTheMove, Assigning, Early, Ended
<1>10. ASSUME NEW t \in Task PROVE Staying(t, p)'
  <2>1. Staying(t, p) /\ tasks[t].dir = files[t].dir /\ files[t] \in Records
    BY <1>1, <1>3, <1>4 DEF Staying, Strayed
  <2>2. PICK m \in Sprint \cup {NoSprint} : m = tasks[t].sprint /\ Member(t, m)
    BY <2>1, InHand DEF Staying, Records, Ground
  <2>3. Listed(t, m)'
    <3>1. ASSUME NEW r \in Sprint, NEW l \in Place
          PROVE  t \in docs'[r][l].rows <=> r = m /\ HasDoc(r, l)'
      <4>0. \A k \in Place : t \in docs[r][k].rows <=> r = m /\ HasDoc(r, k)
        BY <2>2 DEF Member, Listed
      <4>1. CASE r # s \/ l \notin {from, to}
        BY <1>8, <4>0, <4>1 DEF HasDoc
      <4>2. CASE r = s /\ l = from
        BY <1>8, <4>2 DEF HasDoc, NoDoc
      <4>3. CASE r = s /\ l = to
        BY <1>4, <1>8, <4>0, <4>3 DEF HasDoc
      <4> QED
        BY <4>1, <4>2, <4>3
    <3> QED
      BY <3>1 DEF Listed
  <2>4. files'[t] = IF files[t].dir.place = from /\ files[t].dir.sprint = s
                    THEN [files[t] EXCEPT !.dir.place = to, !.dir.deep = @ \/ FALSE] ELSE files[t]
    BY <1>5 DEF MoveTree, Carry
  <2>5. Exists(m)' /\ files'[t].sprint = m /\ files'[t].status = files[t].status
    <3>1. Exists(m)'
      BY <1>1, <2>2 DEF Member, Exists, database
    <3>2. files'[t].sprint = files[t].sprint /\ files'[t].status = files[t].status
      BY <2>1, <2>4 DEF Records
    <3> QED
      BY <2>2, <3>1, <3>2 DEF Member
  <2>6. CASE m = s
    <3>1. files[t].dir = Folder(from, s)
      BY <1>3, <2>2, <2>6, SprintAssumption DEF Member, Home, Stands
    <3>2. files'[t].dir = Folder(to, s)
      <4>1. files'[t] = [files[t] EXCEPT !.dir.place = to, !.dir.deep = @ \/ FALSE]
        BY <2>4, <3>1 DEF Folder
      <4>2. PICK f, g : f \in Records /\ f = files[t] /\ g = files'[t]
               /\ g = [f EXCEPT !.dir.place = to, !.dir.deep = @ \/ FALSE]
        BY <2>1, <4>1
      <4>3. PICK e, d :
               /\ e \in Dirs /\ e = f.dir
               /\ d = [e EXCEPT !.place = to, !.deep = e.deep \/ FALSE]
               /\ g = [f EXCEPT !.dir = d]
        BY <4>2 DEF Records
      <4>4. d = Folder(to, s)
        <5>1. e = Folder(from, s) /\ to \in Place
          BY <1>4, <3>1, <4>2, <4>3
        <5>2. (e.deep \/ FALSE) = FALSE
          BY <5>1 DEF Folder
        <5>3. d = [e EXCEPT !.place = to, !.deep = e.deep \/ FALSE]
          BY <4>3
        <5>4. d = [e EXCEPT !.place = to, !.deep = FALSE]
          BY <5>2, <5>3, Zenon
        <5>5. e.sprint = s
          BY <5>1 DEF Folder
        <5>6. d \in Dirs /\ d.place = to /\ d.sprint = s /\ d.deep = FALSE
          BY <4>3, <5>1, <5>4, <5>5 DEF Dirs
        <5> QED
          BY <5>6, DirIs
      <4> QED
        BY <4>2, <4>3, <4>4 DEF Records
    <3>3. Home(t, m)'
      BY <1>7, <2>6, <3>2, SprintAssumption DEF Home
    <3>4. Strayed(t, p)'
      BY <1>1, <1>2, <1>6, <2>1, <3>1 DEF Strayed, database
    <3>5. Late(t, p) => Late(t, p)'
      BY <1>1, <1>6, <2>5 DEF Late, OnTheMove
    <3> QED
      BY <1>1, <1>2, <1>6, <2>1, <2>2, <2>3, <2>5, <2>6, <3>3, <3>4, <3>5
      DEF Staying, Member, database
  <2>7. CASE m # s
    <3>1. ~(files[t].dir.place = from /\ files[t].dir.sprint = s)
      <4>1. CASE m = NoSprint
        BY <2>2, <4>1, <1>2, DirFacts, SprintAssumption DEF Member, Home
      <4>2. CASE m # NoSprint
        <5>1. PICK l \in folders[m] : files[t].dir = Folder(l, m)
          BY <2>2, <4>2 DEF Member, Home
        <5> QED
          BY <2>7, <5>1, DirFacts
      <4> QED
        BY <4>1, <4>2
    <3>2. files'[t] = files[t]
      BY <2>4, <3>1
    <3>3. Home(t, m)'
      BY <1>7, <2>2, <2>7, <3>2 DEF Member, Home
    <3> QED
      BY <1>1, <1>2, <1>6, <2>1, <2>2, <2>3, <2>5, <2>7, <3>2, <3>3
      DEF Staying, Member, database
  <2> QED
    BY <2>6, <2>7
<1>11. FocusHeld(p)'
  BY <1>1, FocusStays DEF Ground, Held, Ended, database
<1> QED
  BY <1>1, <1>2, <1>6, <1>7, <1>8, <1>9, <1>10, <1>11, GoesOnHeld DEF OnTheMove, Binding, database

\* What an assignment under way is about, the Sprint the Task comes from, the one it
\* goes to.
Assigns(p, t, s, old, new) ==
  /\ t = job[p].task /\ s = job[p].sprint /\ sprints[s].status # "none"
  /\ job[p].cmd \in {"assign", "unassign"}
  /\ job[p].cmd = "assign" =>
       job[p].from \in Place /\ job[p].from \in folders[s] /\ old = NoSprint /\ new = s
  /\ job[p].cmd = "unassign" => old = s /\ new = NoSprint
OthersRest(t) == \A u \in Task \ {t} : Rested(u)

LEMMA HalfwayFacts ==
  ASSUME NEW p \in Proc, Ground(p), pc[p] \in Assigning
  PROVE  /\ pc[p] \in Halfway
         /\ \A r \in Sprint : AtRest(r) /\ inner[r] = {}
         /\ \E t \in Task, s \in Sprint, old \in Sprint \cup {NoSprint},
           new \in Sprint \cup {NoSprint} :
              Assigns(p, t, s, old, new) /\ Changing(t, p) /\ OthersRest(t)
<1>1. pc[p] \notin OnTheMove \cup {"folder", "document", "save", "idle"}
  BY DEF OnTheMove, Assigning
<1>2. PICK t \in Task, s \in Sprint :
         /\ t = job[p].task /\ s = job[p].sprint /\ job[p].cmd \in {"assign", "unassign"}
         /\ job[p].cmd = "assign" => job[p].from \in Place
  BY <1>1, InHand DEF JobOK, Ground
<1>3. /\ pc[p] \in Halfway /\ sprints[s].status # "none"
      /\ job[p].cmd = "assign" => job[p].from \in folders[s]
  BY <1>2 DEF Ground, Held, JobHeld
<1>4. Changing(t, p) /\ OthersRest(t)
  BY <1>1, <1>2, AllRested DEF Ground, Held, TasksHeld, InChange, OthersRest
<1>5. \A r \in Sprint : AtRest(r) /\ inner[r] = {}
  BY <1>1, AllAtRest DEF Ground, Held
<1>6. PICK old \in Sprint \cup {NoSprint}, new \in Sprint \cup {NoSprint} :
         Assigns(p, t, s, old, new)
  BY <1>2, <1>3 DEF Assigns
<1>7. \E x \in Task, y \in Sprint, a \in Sprint \cup {NoSprint}, b \in Sprint \cup {NoSprint} :
              Assigns(p, x, y, a, b) /\ Changing(x, p) /\ OthersRest(x)
  BY <1>4, <1>6, Zenon
<1>8. pc[p] \in Halfway
  BY <1>3
<1> QED
  BY <1>8, <1>5, <1>7

\* Where an assignment takes the file.
LEMMA NewFacts ==
  ASSUME NEW p \in Proc, NEW t \in Task, NEW s \in Sprint, NEW old, NEW new,
         Assigns(p, t, s, old, new)
  PROVE  /\ New(p) \in Dirs /\ New(p).sprint = new
         /\ job[p].cmd = "assign" => New(p) = Folder(job[p].from, s)
         /\ job[p].cmd = "unassign" => New(p) = Unassigned
<1>1. CASE job[p].cmd = "assign"
  BY <1>1, DirsType, DirFacts DEF New, Assigns
<1>2. CASE job[p].cmd = "unassign"
  BY <1>2, DirsType, DirFacts DEF New, Assigns
<1> QED
  BY <1>1, <1>2 DEF Assigns

LEMMA InNew ==
  ASSUME NEW p \in Proc, NEW t \in Task, NEW s \in Sprint, NEW old, NEW new,
         Assigns(p, t, s, old, new), AtRest(s)
  PROVE  Home(t, new) <=> files[t].dir = New(p)
<1>1. CASE job[p].cmd = "assign"
  <2>1. PICK l \in Standing : Stands(s, l, l, l)
    BY RestFacts DEF Standing, Assigns
  <2>2. folders[s] = {job[p].from}
    BY <1>1, <2>1 DEF Stands, Assigns
  <2>3. new = s /\ New(p) = Folder(job[p].from, s)
    BY <1>1, NewFacts DEF Assigns
  <2> QED
    BY <2>2, <2>3, SprintAssumption DEF Home
<1>2. CASE job[p].cmd = "unassign"
  BY <1>2, NewFacts DEF Home, Assigns
<1> QED
  BY <1>1, <1>2 DEF Assigns

LEMMA RenameHeld ==
  ASSUME NEW p \in Proc, Ground(p), Rename(p)
  PROVE  Held(p)'
<1>1. /\ pc[p] = "rename" /\ pc[p] \in Assigning
      /\ UNCHANGED <<sprints, tasks, inner, docs, backlog, focus>>
  BY DEF Rename, Assigning, database
<1>2. PICK t \in Task, s \in Sprint, old \in Sprint \cup {NoSprint},
           new \in Sprint \cup {NoSprint} :
         Assigns(p, t, s, old, new) /\ Changing(t, p) /\ OthersRest(t)
  BY <1>1, HalfwayFacts
<1>3. /\ t = job[p].task /\ s = job[p].sprint /\ sprints[s].status # "none"
      /\ job[p].cmd = "assign" => job[p].from \in folders[s]
  BY <1>2 DEF Assigns
<1>4. ~Fault /\ files[t].dir = job[p].old
  <2>1. Fault \/ Works
    BY DEF Rename
  <2> QED
    BY <1>1, <1>2, <2>1, CalmWorks DEF Ground, Changing
<1>5. /\ folders' = folders /\ files \in [Task -> Records]
      /\ files' = [files EXCEPT ![t].dir = New(p)] /\ Goto(p, "tag")
  <2>1. folders \in [Sprint -> SUBSET Place] /\ files \in [Task -> Records]
    BY InHand DEF Ground
  <2>2. folders' = folders
    BY <1>3, <2>1 DEF Rename
  <2> QED
    BY <1>3, <1>4, <2>1, <2>2 DEF Rename
<1>6. pc'[p] = "tag" /\ job'[p] = job[p]
  BY <1>5, Goes DEF Goto, Ground
<1>7. /\ files'[t].dir = New(p) /\ files'[t].sprint = files[t].sprint
      /\ files'[t].status = files[t].status /\ \A u \in Task \ {t} : files'[u] = files[u]
  BY <1>2, <1>5, NewFacts DEF Records
<1>8. \A u \in Task \ {t} : Rested(u)'
  BY <1>1, <1>2, <1>5, <1>7, RestedStays DEF OthersRest
<1>9. \A r \in Sprint : AtRest(r) /\ AtRest(r)'
  <2>1. \A r \in Sprint : AtRest(r)
    BY <1>1, HalfwayFacts
  <2> QED
    BY <1>1, <1>5, <2>1, SprintStays
<1>10. Changing(t, p)'
  <2>1. /\ tasks[t].sprint = old /\ files[t].sprint = old /\ (t \in backlog <=> old = NoSprint)
        /\ Listed(t, old) /\ tasks[t].status = files[t].status
    BY <1>1, <1>2 DEF Changing, By, Assigns
  <2>2. Home(t, new)'
    <3>1. CASE job[p].cmd = "assign"
      <4>1. new = s /\ New(p) = Folder(job[p].from, s) /\ job[p].from \in folders'[s]
        BY <1>2, <1>3, <1>5, <3>1, NewFacts DEF Assigns
      <4> QED
        BY <1>7, <4>1, SprintAssumption DEF Home
    <3>2. CASE job[p].cmd = "unassign"
      <4>1. new = NoSprint /\ New(p) = Unassigned
        BY <1>2, <3>2, NewFacts DEF Assigns
      <4> QED
        BY <1>7, <4>1 DEF Home
    <3> QED
      BY <1>2, <3>1, <3>2 DEF Assigns
  <2>3. Listed(t, old)'
    BY <1>1, <2>1 DEF Listed, HasDoc
  <2> QED
    BY <1>1, <1>2, <1>6, <1>7, <2>1, <2>2, <2>3 DEF Changing, By, Assigns
<1> QED
  BY <1>1, <1>3, <1>5, <1>6, <1>8, <1>9, <1>10, Proceeds DEF Halfway

\* What holds at each step of an assignment.
LEMMA AtChange ==
  ASSUME NEW p \in Proc, Ground(p), pc[p] \in Assigning
  PROVE  \E t \in Task, s \in Sprint, old \in Sprint \cup {NoSprint},
            new \in Sprint \cup {NoSprint} :
           /\ Assigns(p, t, s, old, new) /\ Changing(t, p) /\ OthersRest(t)
           /\ t = job[p].task /\ s = job[p].sprint /\ sprints[s].status # "none"
           /\ job[p].cmd = "assign" => job[p].from \in folders[s]
           /\ New(p) \in Dirs /\ New(p).sprint = new
           /\ pc[p] # "rename" => files[t].dir = New(p) /\ Home(t, new)
<1>1. PICK t \in Task, s \in Sprint, old \in Sprint \cup {NoSprint},
            new \in Sprint \cup {NoSprint} :
         Assigns(p, t, s, old, new) /\ Changing(t, p) /\ OthersRest(t) /\ AtRest(s)
  BY HalfwayFacts
<1>2. New(p) \in Dirs /\ New(p).sprint = new
  BY <1>1, NewFacts
<1>3. ASSUME pc[p] # "rename" PROVE files[t].dir = New(p) /\ Home(t, new)
  <2>1. Home(t, new)
    BY <1>1, <1>3 DEF Changing, By, Assigns
  <2> QED
    BY <1>1, <2>1, InNew
<1>4. /\ t = job[p].task /\ s = job[p].sprint /\ sprints[s].status # "none"
      /\ job[p].cmd = "assign" => job[p].from \in folders[s]
  BY <1>1 DEF Assigns
<1> QED
  BY <1>1, <1>2, <1>3, <1>4

LEMMA AchievedIs ==
  ASSUME TypeInv, NEW p \in Proc, NEW c
  PROVE  /\ Achieved(p, c).cmd = job[p].cmd /\ Achieved(p, c).sprint = job[p].sprint
         /\ Achieved(p, c).task = job[p].task /\ Achieved(p, c).from = job[p].from
<1>1. job[p] \in Job
  BY InHand
<1> QED
  BY <1>1 DEF Achieved, Job

LEMMA TagHeld ==
  ASSUME NEW p \in Proc, Ground(p), Tag(p)
  PROVE  Held(p)'
<1>1. /\ pc[p] = "tag" /\ pc[p] \in Assigning /\ ~Fault
      /\ UNCHANGED <<sprints, tasks, folders, inner, docs, backlog, focus>>
  BY CalmWorks DEF Tag, Assigning, database, Ground
<1>2. PICK t \in Task, s \in Sprint, old \in Sprint \cup {NoSprint},
            new \in Sprint \cup {NoSprint} :
         /\ Assigns(p, t, s, old, new) /\ Changing(t, p) /\ OthersRest(t)
         /\ t = job[p].task /\ s = job[p].sprint /\ sprints[s].status # "none"
         /\ job[p].cmd = "assign" => job[p].from \in folders[s]
         /\ New(p) \in Dirs /\ New(p).sprint = new
         /\ files[t].dir = New(p) /\ Home(t, new)
  BY <1>1, AtChange
<1>3. /\ files' = [files EXCEPT ![t].sprint = new]
      /\ Continue(p, IF job[p].cmd = "assign" THEN "unlist" ELSE "row", Achieved(p, "tag"))
  BY <1>1, <1>2 DEF Tag
<1>4. files'[t].sprint = new /\ files'[t].dir = files[t].dir /\ files'[t].status = files[t].status
      /\ \A u \in Task \ {t} : files'[u] = files[u]
  <2>1. files \in [Task -> Records]
    BY InHand DEF Ground
  <2> QED
    BY <1>3, <2>1 DEF Records
<1>5. /\ pc'[p] = IF job[p].cmd = "assign" THEN "unlist" ELSE "row"
      /\ job'[p].cmd = job[p].cmd /\ job'[p].sprint = s /\ job'[p].task = t
      /\ job'[p].from = job[p].from
  BY <1>2, <1>3, AchievedIs, Goes DEF Ground
<1>6. \A u \in Task \ {t} : Rested(u)'
  BY <1>1, <1>2, <1>4, RestedStays DEF OthersRest
<1>7. \A r \in Sprint : AtRest(r)'
  <2>1. \A r \in Sprint : AtRest(r)
    BY <1>1, HalfwayFacts
  <2> QED
    BY <1>1, <2>1, SprintStays
<1>8. Changing(t, p)'
  <2>1. /\ tasks[t].sprint = old /\ (t \in backlog <=> old = NoSprint)
        /\ Listed(t, old) /\ tasks[t].status = files[t].status
    BY <1>1, <1>2 DEF Changing, By, Assigns
  <2>2. Listed(t, old)' /\ Home(t, new)'
    BY <1>1, <1>2, <1>4, <2>1 DEF Listed, HasDoc, Home
  <2> QED
    BY <1>1, <1>2, <1>4, <1>5, <2>1, <2>2 DEF Changing, By, Assigns
<1>9. pc'[p] \in Halfway /\ pc[p] \in Halfway
  BY <1>1, <1>5 DEF Halfway
<1> QED
  BY <1>1, <1>2, <1>5, <1>6, <1>7, <1>8, <1>9, Proceeds

LEMMA BacklogHeld ==
  ASSUME NEW p \in Proc, Ground(p), List(p)
  PROVE  Held(p)'
<1>1. /\ pc[p] = "unlist" /\ pc[p] \in Assigning /\ ~Fault
      /\ UNCHANGED <<sprints, tasks, folders, inner, docs, files, focus>>
  BY CalmWorks DEF List, Assigning, database, Ground
<1>2. PICK t \in Task, s \in Sprint, old \in Sprint \cup {NoSprint},
            new \in Sprint \cup {NoSprint} :
         /\ Assigns(p, t, s, old, new) /\ Changing(t, p) /\ OthersRest(t)
         /\ t = job[p].task /\ s = job[p].sprint /\ sprints[s].status # "none"
         /\ job[p].cmd = "assign" => job[p].from \in folders[s]
         /\ Home(t, new)
  BY <1>1, AtChange
<1>3. /\ backlog' = IF job[p].cmd = "assign" THEN backlog \ {t} ELSE backlog \cup {t}
      /\ Continue(p, IF job[p].cmd = "assign" THEN "row" ELSE "set-sprint",
                  Achieved(p, "unlist"))
  BY <1>1, <1>2 DEF List
<1>4. /\ pc'[p] = IF job[p].cmd = "assign" THEN "row" ELSE "set-sprint"
      /\ job'[p].cmd = job[p].cmd /\ job'[p].sprint = s /\ job'[p].task = t
      /\ job'[p].from = job[p].from
  BY <1>2, <1>3, AchievedIs, Goes DEF Ground
<1>5. (t \in backlog' <=> new = NoSprint) /\ \A u \in Task \ {t} : u \in backlog' <=> u \in backlog
  BY <1>2, <1>3, SprintAssumption DEF Assigns
<1>6. \A u \in Task \ {t} : Rested(u)'
  BY <1>1, <1>2, <1>5, RestedStays DEF OthersRest
<1>7. \A r \in Sprint : AtRest(r)'
  <2>1. \A r \in Sprint : AtRest(r)
    BY <1>1, HalfwayFacts
  <2> QED
    BY <1>1, <2>1, SprintStays
<1>8. Changing(t, p)'
  <2>1. /\ tasks[t].sprint = old /\ files[t].sprint = new
        /\ tasks[t].status = files[t].status
        /\ job[p].cmd = "assign" => Listed(t, old)
        /\ job[p].cmd = "unassign" => Listed(t, new)
    BY <1>1, <1>2 DEF Changing, By, Assigns
  <2>2. /\ job[p].cmd = "assign" => Listed(t, old)'
        /\ job[p].cmd = "unassign" => Listed(t, new)'
    BY <1>1, <2>1 DEF Listed, HasDoc
  <2>3. Home(t, new)'
    BY <1>1, <1>2 DEF Home
  <2> QED
    BY <1>1, <1>2, <1>4, <1>5, <2>1, <2>2, <2>3 DEF Changing, By, Assigns
<1>9. pc'[p] \in Halfway /\ pc[p] \in Halfway
  BY <1>1, <1>4 DEF Halfway
<1> QED
  BY <1>1, <1>2, <1>4, <1>6, <1>7, <1>8, <1>9, Proceeds

\* An edit reaches the SPRINT.md of the Sprint and leaves its status.
LEMMA EditFacts ==
  ASSUME TypeInv, NEW p \in Proc, NEW s \in Sprint, s = job[p].sprint, AtRest(s),
         sprints[s].status # "none", NEW rows, Edit(p, rows)
  PROVE  /\ \A r \in Sprint : r # s => docs'[r] = docs[r]
         /\ \A r \in Sprint, l \in Place :
              /\ docs'[r][l].status = docs[r][l].status
              /\ HasDoc(r, l)' <=> HasDoc(r, l)
              /\ docs'[r][l].rows = IF r = s /\ HasDoc(r, l) THEN rows[l] ELSE docs[r][l].rows
<1>1. PICK l \in Standing : Stands(s, l, l, l)
  BY RestFacts DEF Standing
<1>2. docs \in [Sprint -> [Place -> Docs]]
  BY InHand
<1>3. \A k \in Place : (SprintDir(s, k) /\ HasDoc(s, k)) <=> k = l
  BY <1>1 DEF Stands, SprintDir, FirstOf, Standing, Place
<1>4. docs' = [docs EXCEPT ![s] =
                 [k \in Place |-> IF k = l THEN [docs[s][k] EXCEPT !.rows = rows[k]]
                                  ELSE docs[s][k]]]
  BY <1>2, <1>3 DEF Edit
<1>5. /\ \A r \in Sprint : r # s => docs'[r] = docs[r]
      /\ \A k \in Place : docs'[s][k] = IF k = l THEN [docs[s][k] EXCEPT !.rows = rows[k]]
                                       ELSE docs[s][k]
  BY <1>2, <1>4
<1>6. /\ docs'[s][l].status = l /\ docs[s][l].status = l /\ docs'[s][l].rows = rows[l]
      /\ HasDoc(s, l) /\ HasDoc(s, l)'
  <2>1. docs[s][l].status = l /\ l # "none" /\ l \in Place
    BY <1>1 DEF Stands, Standing, Place
  <2>2. PICK d : d = docs[s][l] /\ docs'[s][l] = [d EXCEPT !.rows = rows[l]]
    <3>1. docs'[s][l] = [docs[s][l] EXCEPT !.rows = rows[l]]
      BY <1>5, <2>1, Zenon
    <3> QED
      BY <3>1
  <2>3. docs'[s][l].status = l /\ docs'[s][l].rows = rows[l]
    BY <1>2, <2>1, <2>2 DEF Docs
  <2> QED
    BY <2>1, <2>3 DEF HasDoc, NoDoc
<1>7. ASSUME NEW k \in Place, k # l PROVE docs'[s][k] = docs[s][k] /\ ~HasDoc(s, k)
  BY <1>1, <1>5, <1>7 DEF Stands
<1> QED
  BY <1>5, <1>6, <1>7 DEF HasDoc

\* The row of a Task is the only one its marker is found in.
MarkedAlone == \A t \in Task : Marked(t) = {t}

LEMMA EditRowHeld ==
  ASSUME NEW p \in Proc, Ground(p), EditRow(p), MarkedAlone
  PROVE  Held(p)'
<1>1. /\ pc[p] = "row" /\ pc[p] \in Assigning /\ ~Fault
      /\ UNCHANGED <<sprints, tasks, folders, inner, files, backlog, focus>>
  BY CalmWorks DEF EditRow, Assigning, database, Ground
<1>2. PICK t \in Task, s \in Sprint, old \in Sprint \cup {NoSprint},
            new \in Sprint \cup {NoSprint} :
         /\ Assigns(p, t, s, old, new) /\ Changing(t, p) /\ OthersRest(t)
         /\ t = job[p].task /\ s = job[p].sprint /\ sprints[s].status # "none"
         /\ job[p].cmd = "assign" => job[p].from \in folders[s]
         /\ Home(t, new)
  BY <1>1, AtChange
<1>3. PICK rows :
         /\ Edit(p, rows)
         /\ \A l \in Place : rows[l] = IF job[p].cmd = "assign" THEN docs[s][l].rows \cup {t}
                                       ELSE docs[s][l].rows \ {t}
  <2>1. /\ \A l \in Place : RowsWith(p)[l] = docs[s][l].rows \cup {t}
        /\ \A l \in Place : RowsWithout(p)[l] = docs[s][l].rows \ {t}
    BY <1>2 DEF RowsWith, RowsWithout, MarkedAlone
  <2>2. Edit(p, IF job[p].cmd = "assign" THEN RowsWith(p) ELSE RowsWithout(p))
    BY <1>1 DEF EditRow
  <2> QED
    BY <2>1, <2>2
<1>4. /\ pc'[p] = IF job[p].cmd = "assign" THEN "set-sprint" ELSE "unlist"
      /\ job'[p].cmd = job[p].cmd /\ job'[p].sprint = s /\ job'[p].task = t
      /\ job'[p].from = job[p].from
  <2>1. Continue(p, IF job[p].cmd = "assign" THEN "set-sprint" ELSE "unlist", Achieved(p, "row"))
    BY <1>1 DEF EditRow
  <2> QED
    BY <1>2, <2>1, AchievedIs, Goes DEF Ground
<1>5. \A r \in Sprint : AtRest(r)
  BY <1>1, HalfwayFacts
<1>6. /\ \A r \in Sprint : r # s => docs'[r] = docs[r]
      /\ \A r \in Sprint, l \in Place :
           /\ docs'[r][l].status = docs[r][l].status
           /\ HasDoc(r, l)' <=> HasDoc(r, l)
           /\ docs'[r][l].rows = IF r = s /\ HasDoc(r, l) THEN rows[l] ELSE docs[r][l].rows
  BY <1>2, <1>3, <1>5, EditFacts DEF Ground
<1>7. ASSUME NEW r \in Sprint PROVE AtRest(r)'
  <2>1. CASE r = s
    <3>1. PICK l \in Standing : Stands(s, l, l, l)
      BY <1>2, <1>5, RestFacts DEF Standing
    <3>2. Stands(s, l, l, l)'
      BY <1>1, <1>6, <3>1 DEF Stands, Standing
    <3> QED
      BY <2>1, <3>2 DEF AtRest
  <2>2. CASE r # s
    BY <1>1, <1>5, <1>6, <2>2, SprintStays
  <2> QED
    BY <2>1, <2>2
<1>8. ASSUME NEW u \in Task \ {t} PROVE Rested(u)'
  <2>1. Rested(u)
    BY <1>2 DEF OthersRest
  <2>2. \A r \in Sprint, l \in Place : u \in docs'[r][l].rows <=> u \in docs[r][l].rows
    BY <1>3, <1>6
  <2>3. ASSUME NEW m \in Sprint \cup {NoSprint}, Member(u, m) PROVE Member(u, m)'
    <3>1. Listed(u, m)'
      BY <1>6, <2>2, <2>3 DEF Member, Listed
    <3>2. Home(u, m)' /\ Exists(m)'
      BY <1>1, <2>3 DEF Member, Home, Exists
    <3> QED
      BY <1>1, <2>3, <3>1, <3>2 DEF Member
  <2> QED
    BY <1>1, <2>1, <2>3 DEF Rested
<1>9. Changing(t, p)'
  <2>1. /\ tasks[t].sprint = old /\ files[t].sprint = new
        /\ tasks[t].status = files[t].status /\ Listed(t, old)
        /\ job[p].cmd = "assign" => (t \in backlog <=> new = NoSprint)
        /\ job[p].cmd = "unassign" => (t \in backlog <=> old = NoSprint)
    BY <1>1, <1>2 DEF Changing, By, Assigns
  <2>2. Listed(t, new)'
    <3>1. CASE job[p].cmd = "assign"
      <4>1. old = NoSprint /\ new = s
        BY <1>2, <3>1 DEF Assigns
      <4>2. \A r \in Sprint, l \in Place : t \notin docs[r][l].rows
        BY <2>1, <4>1, SprintAssumption DEF Listed
      <4> QED
        BY <1>3, <1>6, <3>1, <4>1, <4>2 DEF Listed
    <3>2. CASE job[p].cmd = "unassign"
      <4>1. old = s /\ new = NoSprint
        BY <1>2, <3>2 DEF Assigns
      <4>2. \A r \in Sprint, l \in Place : t \notin docs'[r][l].rows
        BY <1>3, <1>6, <2>1, <3>2, <4>1 DEF Listed
      <4> QED
        BY <4>1, <4>2, SprintAssumption DEF Listed
    <3> QED
      BY <1>2, <3>1, <3>2 DEF Assigns
  <2>3. Home(t, new)'
    BY <1>1, <1>2 DEF Home
  <2> QED
    BY <1>1, <1>2, <1>4, <2>1, <2>2, <2>3 DEF Changing, By, Assigns
<1>10. pc'[p] \in Halfway /\ pc[p] \in Halfway
  BY <1>1, <1>4 DEF Halfway
<1> QED
  BY <1>1, <1>2, <1>4, <1>7, <1>8, <1>9, <1>10, Proceeds

LEMMA SetSprintHeld ==
  ASSUME NEW p \in Proc, Ground(p), SetSprint(p)
  PROVE  Held(p)'
<1>1. /\ pc[p] = "set-sprint" /\ pc[p] \in Assigning /\ ~Fault
      /\ UNCHANGED <<sprints, folders, inner, docs, files, backlog, focus>>
  BY CalmWorks DEF SetSprint, Assigning, disk, Ground
<1>2. PICK t \in Task, s \in Sprint, old \in Sprint \cup {NoSprint},
            new \in Sprint \cup {NoSprint} :
         /\ Assigns(p, t, s, old, new) /\ Changing(t, p) /\ OthersRest(t)
         /\ t = job[p].task /\ s = job[p].sprint /\ sprints[s].status # "none"
         /\ job[p].cmd = "assign" => job[p].from \in folders[s]
         /\ New(p).sprint = new /\ Home(t, new)
  BY <1>1, AtChange
<1>3. tasks' = [tasks EXCEPT ![t].sprint = new] /\ Goto(p, "set-path")
  BY <1>1, <1>2 DEF SetSprint
<1>4. tasks'[t].sprint = new /\ tasks'[t].status = tasks[t].status
      /\ \A u \in Task \ {t} : tasks'[u] = tasks[u]
  <2>1. tasks \in [Task -> Records]
    BY InHand DEF Ground
  <2> QED
    BY <1>3, <2>1 DEF Records
<1>5. pc'[p] = "set-path" /\ job'[p] = job[p]
  BY <1>3, Goes DEF Goto, Ground
<1>6. \A u \in Task \ {t} : Rested(u)'
  BY <1>1, <1>2, <1>4, RestedStays DEF OthersRest
<1>7. \A r \in Sprint : AtRest(r)'
  <2>1. \A r \in Sprint : AtRest(r)
    BY <1>1, HalfwayFacts
  <2> QED
    BY <1>1, <2>1, SprintStays
<1>8. Changing(t, p)'
  <2>1. /\ files[t].sprint = new /\ (t \in backlog <=> new = NoSprint)
        /\ Listed(t, new) /\ tasks[t].status = files[t].status
    BY <1>1, <1>2 DEF Changing, By, Assigns
  <2>2. Listed(t, new)' /\ Home(t, new)'
    BY <1>1, <1>2, <2>1 DEF Listed, HasDoc, Home
  <2> QED
    BY <1>1, <1>2, <1>4, <1>5, <2>1, <2>2 DEF Changing, By, Assigns
<1>9. pc'[p] \in Halfway /\ pc[p] \in Halfway
  BY <1>1, <1>5 DEF Halfway
<1> QED
  BY <1>1, <1>2, <1>5, <1>6, <1>7, <1>8, <1>9, Proceeds

LEMMA SetPathHeld ==
  ASSUME NEW p \in Proc, Ground(p), SetPath(p)
  PROVE  Held(p)'
<1>1. /\ pc[p] = "set-path" /\ pc[p] \in Assigning /\ ~Fault
      /\ UNCHANGED <<sprints, folders, inner, docs, files, backlog, focus>>
  BY CalmWorks DEF SetPath, Assigning, disk, Ground
<1>2. PICK t \in Task, s \in Sprint, old \in Sprint \cup {NoSprint},
            new \in Sprint \cup {NoSprint} :
         /\ Assigns(p, t, s, old, new) /\ Changing(t, p) /\ OthersRest(t)
         /\ t = job[p].task /\ s = job[p].sprint /\ sprints[s].status # "none"
         /\ files[t].dir = New(p) /\ Home(t, new)
  BY <1>1, AtChange
<1>3. tasks' = [tasks EXCEPT ![t].dir = files[t].dir] /\ pc'[p] = "idle"
  BY <1>1, <1>2, Goes DEF SetPath, Return, Goto, Ground
<1>4. /\ tasks'[t].sprint = tasks[t].sprint /\ tasks'[t].status = tasks[t].status
      /\ tasks'[t].dir = files[t].dir /\ \A u \in Task \ {t} : tasks'[u] = tasks[u]
  <2>1. tasks \in [Task -> Records]
    BY InHand DEF Ground
  <2> QED
    BY <1>3, <2>1 DEF Records
<1>5. \A u \in Task : Rested(u)'
  <2>1. ASSUME NEW u \in Task \ {t} PROVE Rested(u)'
    BY <1>1, <1>2, <1>4, RestedStays DEF OthersRest
  <2>2. Rested(t)'
    <3>1. /\ tasks[t].sprint = new /\ files[t].sprint = new /\ (t \in backlog <=> new = NoSprint)
          /\ Listed(t, new) /\ tasks[t].status = files[t].status
      BY <1>1, <1>2 DEF Changing, By, Assigns
    <3>2. Listed(t, new)' /\ Home(t, new)'
      BY <1>1, <1>2, <3>1 DEF Listed, HasDoc, Home
    <3>3. Exists(new)'
      BY <1>1, <1>2 DEF Exists, Assigns
    <3> QED
      BY <1>1, <1>4, <3>1, <3>2, <3>3 DEF Rested, Member
  <2> QED
    BY <2>1, <2>2
<1>6. SprintsHeld(p)'
  <2>1. \A r \in Sprint : AtRest(r) /\ inner[r] = {}
    BY <1>1, HalfwayFacts
  <2>2. \A r \in Sprint : AtRest(r)'
    BY <1>1, <2>1, SprintStays
  <2> QED
    BY <1>1, <1>3, <2>1, <2>2, SprintsRest DEF OnTheMove
<1>7. TasksHeld(p)'
  BY <1>3, <1>5, TasksRest DEF Assigning
<1>8. FocusHeld(p)'
  BY <1>1, FocusStays DEF Ground, Held, Ended
<1>9. JobHeld(p)'
  BY <1>3 DEF JobHeld, OnTheMove, Assigning, Binding
<1> QED
  BY <1>6, <1>7, <1>8, <1>9 DEF Held

LEMMA ProgressHeld ==
  ASSUME NEW p \in Proc, Ground(p), NEW t \in Task, Progress(t)
  PROVE  Held(p)'
<1>1. UNCHANGED <<sprints, folders, inner, docs, backlog, focus, pc, job>>
  BY DEF Progress, control
<1>2. /\ tasks'[t].status = files'[t].status /\ tasks[t].status = files[t].status
      /\ tasks'[t].sprint = tasks[t].sprint /\ tasks'[t].dir = files[t].dir
      /\ files'[t].sprint = files[t].sprint /\ files'[t].dir = files[t].dir
      /\ \A u \in Task \ {t} : tasks'[u] = tasks[u] /\ files'[u] = files[u]
  <2>1. tasks \in [Task -> Records] /\ files \in [Task -> Records]
    BY InHand DEF Ground
  <2>2. PICK st : /\ tasks' = [tasks EXCEPT ![t].status = st, ![t].dir = files[t].dir]
                  /\ files' = [files EXCEPT ![t].status = st]
    BY DEF Progress
  <2>3. \A u \in Task \ {t} : tasks'[u] = tasks[u] /\ files'[u] = files[u]
    BY <2>1, <2>2
  <2>4. PICK f \in Records : f = tasks[t] /\ tasks'[t] = [f EXCEPT !.status = st, !.dir = files[t].dir]
    BY <2>1, <2>2
  <2>5. PICK g \in Records : g = files[t] /\ files'[t] = [g EXCEPT !.status = st]
    BY <2>1, <2>2
  <2>6. tasks'[t].status = st /\ tasks'[t].sprint = tasks[t].sprint /\ tasks'[t].dir = files[t].dir
    BY <2>4 DEF Records
  <2>7. files'[t].status = st /\ files'[t].sprint = files[t].sprint /\ files'[t].dir = files[t].dir
    BY <2>5 DEF Records
  <2> QED
    BY <2>3, <2>6, <2>7 DEF Progress
<1>3. SprintsHeld(p)'
  <2>1. ASSUME NEW s \in Sprint
        PROVE  inner'[s] = {} /\ (About(p, s)' <=> About(p, s))
               /\ (Underway(p, s)' <=> Underway(p, s)) /\ (AtRest(s)' <=> AtRest(s))
    <3>1. inner'[s] = {} /\ (About(p, s)' <=> About(p, s)) /\ (AtRest(s)' <=> AtRest(s))
      BY <1>1, SprintStays DEF Ground, Held, SprintsHeld, About
    <3>2. Underway(p, s)' <=> Underway(p, s)
      BY <1>1, SprintStays DEF Underway
    <3> QED
      BY <3>1, <3>2
  <2> QED
    BY <2>1 DEF Ground, Held, SprintsHeld
<1>4. TasksHeld(p)'
  <2>1. ASSUME NEW u \in Task
        PROVE  /\ InChange(u, p)' <=> InChange(u, p)
               /\ InChange(u, p) => Changing(u, p)'
               /\ ~InChange(u, p) => Staying(u, p)'
    <3>1. /\ tasks'[u].sprint = tasks[u].sprint
          /\ files'[u].sprint = files[u].sprint /\ files'[u].dir = files[u].dir
          /\ tasks[u].status = files[u].status => tasks'[u].status = files'[u].status
          /\ tasks[u].dir = files[u].dir => tasks'[u].dir = files'[u].dir
          /\ \/ u = t /\ tasks'[u].status = files'[u].status /\ tasks'[u].dir = files'[u].dir
             \/ tasks'[u] = tasks[u] /\ files'[u] = files[u]
      BY <1>2
    <3>2. \A m \in Sprint \cup {NoSprint} :
             /\ Member(u, m)' <=> Member(u, m)
             /\ Home(u, m)' <=> Home(u, m)
             /\ Listed(u, m)' <=> Listed(u, m)
      BY <1>1, <3>1, MemberStays
    <3>3. InChange(u, p)' <=> InChange(u, p)
      BY <1>1 DEF InChange
    <3>4. ASSUME InChange(u, p) PROVE Changing(u, p)'
      <4>1. Changing(u, p)
        BY <3>4 DEF Ground, Held, TasksHeld
      <4> QED
        BY <1>1, <3>1, <3>2, <4>1 DEF Changing, By
    <3>5. ASSUME ~InChange(u, p) PROVE Staying(u, p)'
      <4>1. Staying(u, p)
        BY <3>5 DEF Ground, Held, TasksHeld
      <4>2. \A m \in Sprint \cup {NoSprint} : m = tasks'[u].sprint => Member(u, m)'
        BY <3>1, <3>2, <4>1 DEF Staying
      <4>3. CASE tasks'[u].status = files'[u].status /\ tasks'[u].dir = files'[u].dir
        BY <4>2, <4>3 DEF Staying
      <4>4. CASE tasks'[u] = tasks[u] /\ files'[u] = files[u]
        <5>1. (Late(u, p)' <=> Late(u, p)) /\ (Strayed(u, p)' <=> Strayed(u, p))
          BY <1>1, <4>4 DEF Late, Strayed, Entry
        <5> QED
          BY <1>1, <3>1, <4>1, <4>2, <4>4, <5>1 DEF Staying
      <4> QED
        BY <3>1, <4>3, <4>4
    <3> QED
      BY <3>3, <3>4, <3>5
  <2> QED
    BY <2>1 DEF TasksHeld
<1>5. FocusHeld(p)'
  BY <1>1 DEF Ground, Held, FocusHeld
<1>6. JobHeld(p)'
  <2>1. JobHeld(p) /\ \A e \in job[p].todo : e.task \in Task
    BY InHand DEF Ground, Held
  <2>2. pc[p] \in {"bind-sprint", "bind-path"} => job[p].task \in Task
    BY InHand DEF Ground, JobOK
  <2>3. \A u \in Task : tasks'[u].sprint = tasks[u].sprint /\ files'[u].dir = files[u].dir
    BY <1>2
  <2> QED
    BY <1>1, <2>1, <2>2, <2>3 DEF JobHeld, Binding
<1> QED
  BY <1>3, <1>4, <1>5, <1>6 DEF Held

LEMMA StepHeld ==
  ASSUME NEW p \in Proc, Ground(p), Step(p), MarkedAlone
  PROVE  Held(p)'
<1>1. ~(ReturnTask(p) \/ DropRow(p) \/ Relist(p) \/ Untag(p) \/ PutBack(p))
  <2>1. pc[p] \notin {"return", "drop-row", "relist", "untag", "put-back"}
    BY DEF Ground, Held, JobHeld, OnTheMove, Assigning, Halfway
  <2> QED
    BY <2>1 DEF ReturnTask, DropRow, Relist, Untag, PutBack
<1>2. CASE CreateFolder(p) \/ WriteDocument(p) \/ SaveToDB(p)
  BY <1>2, CreateHeld, SaveHeld
<1>3. CASE Collect(p) \/ WriteFrontmatter(p)
  BY <1>3, CollectHeld, FrontmatterHeld
<1>4. CASE MoveSprint(p) \/ Sweep(p) \/ Stamp(p) \/ Record(p)
  BY <1>4, MoveHeld, SweepHeld, StampHeld, RecordHeld
<1>5. CASE \/ UpdateTaskPathsForSprint(p) \/ ListFiles(p)
           \/ Bind(p) \/ BindSprint(p) \/ BindPath(p)
  BY <1>5, PathsHeld, ListHeld, BindHeld, BindOneHeld
<1>6. CASE ListForSync(p) \/ ForceStatus(p) \/ UpdateCurrentFocus(p)
  BY <1>6, SyncHeld, ForceHeld, FocusHeldThere
<1>7. CASE Compare(p) \/ ListDrift(p) \/ HealDrift(p)
  BY <1>7, ReconcileHeld
<1>8. CASE Rename(p) \/ Tag(p) \/ List(p) \/ EditRow(p) \/ SetSprint(p) \/ SetPath(p)
  BY <1>8, RenameHeld, TagHeld, BacklogHeld, EditRowHeld, SetSprintHeld, SetPathHeld
<1> QED
  BY <1>1, <1>2, <1>3, <1>4, <1>5, <1>6, <1>7, <1>8 DEF Step

LEMMA RestInvInit == Init => RestInv
<1> SUFFICES ASSUME Init, NEW p \in Proc PROVE Held(p)
  BY DEF RestInv
<1>1. pc[p] = "idle"
  BY DEF Init
<1>2. SprintsHeld(p)
  <2>1. ASSUME NEW s \in Sprint PROVE inner[s] = {} /\ AtRest(s)
    <3>1. inner[s] = {}
      BY DEF Init
    <3>2. CASE s \in Created
      <4>1. /\ sprints[s] = [status |-> "backlog", folder |-> "backlog"]
            /\ folders[s] = {"backlog"}
        BY <3>2 DEF Init, NewRow
      <4>2. \A l \in Place \ {"backlog"} : docs[s][l] = NoDoc
        BY <3>2 DEF Init
      <4>3. docs[s]["backlog"].status = "backlog"
        BY <3>2 DEF Init, NewDoc, Place
      <4>4. Stands(s, "backlog", "backlog", "backlog")
        BY <4>1, <4>2, <4>3 DEF Stands, HasDoc, NoDoc
      <4> QED
        BY <3>1, <4>4 DEF AtRest, Standing, Place
    <3>3. CASE s \notin Created
      BY <3>1, <3>3 DEF Init, AtRest, Absent
    <3> QED
      BY <3>2, <3>3
  <2> QED
    BY <1>1, <2>1 DEF SprintsHeld, About
<1>3. TasksHeld(p)
  <2>1. ASSUME NEW t \in Task PROVE Staying(t, p)
    <3>1. PICK m \in Created \cup {NoSprint} : m = Enrolled[t]
      BY SprintAssumption
    <3>2. /\ tasks[t] = [status |-> "todo", sprint |-> m,
                         dir |-> IF m = NoSprint THEN Unassigned ELSE Folder("backlog", m)]
          /\ files[t] = tasks[t]
          /\ t \in backlog <=> m = NoSprint
      BY <3>1 DEF Init
    <3>3. tasks[t].sprint = m /\ files[t].sprint = m /\ files[t].dir = tasks[t].dir
          /\ tasks[t].status = files[t].status
          /\ files[t].dir = IF m = NoSprint THEN Unassigned ELSE Folder("backlog", m)
      BY <3>2
    <3>4. Listed(t, m)
      <4>1. ASSUME NEW s \in Sprint, NEW l \in Place
            PROVE  t \in docs[s][l].rows <=> s = m /\ HasDoc(s, l)
        <5>1. CASE s \in Created /\ l = "backlog"
          <6>1. docs[s][l] = [status |-> "backlog", rows |-> {u \in Task : Enrolled[u] = s}]
            BY <5>1 DEF Init, NewDoc
          <6>2. docs[s][l].rows = {u \in Task : Enrolled[u] = s} /\ HasDoc(s, l)
            BY <6>1 DEF HasDoc, NoDoc
          <6> QED
            BY <3>1, <6>2
        <5>2. CASE ~(s \in Created /\ l = "backlog")
          BY <5>2 DEF Init, NoDoc, HasDoc
        <5> QED
          BY <5>1, <5>2
      <4> QED
        BY <4>1 DEF Listed
    <3>5. Home(t, m) /\ Exists(m)
      <4>1. CASE m = NoSprint
        BY <3>3, <4>1 DEF Home, Exists
      <4>2. CASE m # NoSprint
        <5>1. m \in Created /\ m \in Sprint
          BY <3>1, <4>2, SprintAssumption
        <5>2. sprints[m] = [status |-> "backlog", folder |-> "backlog"] /\ folders[m] = {"backlog"}
          BY <5>1 DEF Init, NewRow
        <5> QED
          BY <3>3, <4>2, <5>2 DEF Home, Exists
      <4> QED
        BY <4>1, <4>2
    <3> QED
      BY <3>1, <3>2, <3>3, <3>4, <3>5 DEF Staying, Member
  <2> QED
    BY <1>1, <2>1 DEF TasksHeld, InChange, Assigning
<1>4. FocusHeld(p)
  BY DEF Init, FocusHeld
<1>5. JobHeld(p)
  BY <1>1 DEF JobHeld, OnTheMove, Assigning, Binding
<1> QED
  BY <1>2, <1>3, <1>4, <1>5 DEF Held

LEMMA RestInvStep ==
  ASSUME OneByOne, MarkedAlone, TypeInv, TypeInv', RestInv, [Next]_vars
  PROVE  RestInv'
<1> SUFFICES ASSUME Calm', NEW p \in Proc PROVE Held(p)'
  BY DEF RestInv
<1>1. Ground(p)
  BY CalmBefore DEF Ground, RestInv
<1>2. CASE Begin(p)
  BY <1>1, <1>2, BeginHeld
<1>3. CASE Step(p)
  BY <1>1, <1>3, StepHeld
<1>4. ASSUME NEW t \in Task, Progress(t) PROVE Held(p)'
  BY <1>1, <1>4, ProgressHeld
<1>5. ~Crash(p)
  BY CalmWorks DEF Crash
<1>6. CASE UNCHANGED vars
  <2>1. UNCHANGED <<sprints, folders, inner, docs, tasks, files, backlog, focus, pc, job>>
    BY <1>6 DEF vars
  <2>2. SprintsHeld(p)'
    <3>1. ASSUME NEW s \in Sprint
          PROVE  /\ inner'[s] = {}
                 /\ About(p, s)' => Underway(p, s)'
                 /\ ~About(p, s)' => AtRest(s)'
      BY <1>1, <2>1, SprintStays DEF Ground, Held, SprintsHeld, About, Underway
    <3> QED
      BY <3>1 DEF SprintsHeld
  <2>3. TasksHeld(p)'
    <3>1. ASSUME NEW t \in Task
          PROVE  /\ InChange(t, p)' => Changing(t, p)'
                 /\ ~InChange(t, p)' => Staying(t, p)'
      <4>1. /\ InChange(t, p) => Changing(t, p)
            /\ ~InChange(t, p) => Staying(t, p)
        BY <1>1 DEF Ground, Held, TasksHeld
      <4>2. \A m \in Sprint \cup {NoSprint} :
               /\ Member(t, m)' <=> Member(t, m)
               /\ Home(t, m)' <=> Home(t, m)
               /\ Listed(t, m)' <=> Listed(t, m)
        BY <2>1, MemberStays
      <4> QED
        BY <2>1, <4>1, <4>2 DEF InChange, Changing, By, Staying, Late, Strayed, Entry
    <3> QED
      BY <3>1 DEF TasksHeld
  <2>4. FocusHeld(p)' /\ JobHeld(p)'
    BY <1>1, <2>1 DEF Ground, Held, FocusHeld, JobHeld
  <2> QED
    BY <2>2, <2>3, <2>4 DEF Held
<1> QED
  BY <1>2, <1>3, <1>4, <1>5, <1>6 DEF Next, OneByOne

LEMMA HeldAgrees ==
  ASSUME TypeInv, NEW p \in Proc, RestInv, OneByOne
  PROVE  RestAgrees
<1> SUFFICES ASSUME Quiet, Calm
             PROVE  /\ \A s \in Sprint : SprintAgrees(s)
                    /\ \A t \in Task : TaskAgrees(t)
                    /\ focus # NoSprint => sprints[focus].status = "active"
  BY DEF RestAgrees, Calm
<1>1. pc[p] = "idle" /\ Held(p)
  BY DEF Quiet, RestInv
<1>2. \A s \in Sprint : AtRest(s) /\ inner[s] = {}
  BY <1>1, AllAtRest DEF Held, OnTheMove
<1>3. \A t \in Task : Rested(t)
  BY <1>1, AllRested DEF Held, OnTheMove, InChange, Assigning
<1>4. focus # NoSprint => sprints[focus].status = "active"
  BY <1>1 DEF Held, FocusHeld, Ended
<1>5. ASSUME NEW s \in Sprint PROVE SprintAgrees(s)
  <2>1. CASE Absent(s)
    BY <1>2, <2>1 DEF Absent, SprintAgrees, NoJob
  <2>2. ASSUME NEW l \in Standing, Stands(s, l, l, l) PROVE SprintAgrees(s)
    <3>1. /\ sprints[s].status = l /\ sprints[s].folder = l /\ l # "none" /\ l \in Place
          /\ folders[s] = {l} /\ docs[s][l].status = l /\ HasDoc(s, l)
      BY <2>2 DEF Stands, Standing, Place
    <3>2. ASSUME NEW t \in Task PROVE tasks[t].sprint = s <=> t \in docs[s][l].rows
      <4>1. PICK m \in Sprint \cup {NoSprint} : m = tasks[t].sprint
        BY InHand DEF Records
      <4>2. Listed(t, m)
        BY <1>3, <4>1 DEF Rested, Member
      <4> QED
        BY <3>1, <4>1, <4>2 DEF Listed
    <3>3. docs[s][l].rows \subseteq Task
      BY <3>1, InHand DEF Docs
    <3>4. {t \in Task : tasks[t].sprint = s} = docs[s][l].rows
      BY <3>2, <3>3
    <3> QED
      BY <1>2, <3>1, <3>4 DEF SprintAgrees
  <2> QED
    BY <1>2, <2>1, <2>2 DEF AtRest
<1>6. ASSUME NEW t \in Task PROVE TaskAgrees(t)
  <2>1. PICK m \in Sprint \cup {NoSprint} : m = tasks[t].sprint /\ Member(t, m)
    BY <1>3, InHand DEF Records, Rested
  <2>2. tasks[t] = files[t]
    <3>1. tasks[t] \in Records /\ files[t] \in Records
      BY InHand
    <3>2. tasks[t].status = files[t].status /\ tasks[t].dir = files[t].dir
          /\ tasks[t].sprint = files[t].sprint
      BY <1>3, <2>1 DEF Rested, Member
    <3> QED
      BY <3>1, <3>2 DEF Records
  <2>3. CASE m = NoSprint
    BY <2>1, <2>2, <2>3 DEF TaskAgrees, Member, Home
  <2>4. CASE m # NoSprint
    <3>1. PICK l \in folders[m] : files[t].dir = Folder(l, m)
      BY <2>1, <2>4 DEF Member, Home
    <3>2. folders[m] = {sprints[m].status}
      <4>1. SprintAgrees(m) /\ sprints[m].status # "none"
        BY <1>5, <2>1, <2>4 DEF Member, Exists
      <4> QED
        BY <4>1 DEF SprintAgrees
    <3> QED
      BY <2>1, <2>2, <2>4, <3>1, <3>2 DEF TaskAgrees, Member
  <2> QED
    BY <2>3, <2>4
<1> QED
  BY <1>4, <1>5, <1>6

\* Between commands that run one at a time, none of them failed and none a discard or
\* a forced status, the database, the folders, SPRINT.md, BACKLOG.md, the Task files
\* and CURRENT-FOCUS.md tell the same: for any number of Sprints, Tasks and commands,
\* as long as no Task depends on one other Task alone.  With such a Task it is false:
\* `task unassign` of T removes every row of SPRINT.md with a cell "| T |", and the
\* last cell of a Task that depends on T is one.
THEOREM SprintRecordsAgree ==
  ASSUME OneByOne, Proc # {}, MarkedAlone
  PROVE  Spec => []RestAgrees
<1>1. Init => TypeInv /\ RestInv
  BY TypeInvInit, RestInvInit
<1>2. TypeInv /\ RestInv /\ [Next]_vars => TypeInv' /\ RestInv'
  BY TypeInvStep, RestInvStep
<1>3. TypeInv /\ RestInv => RestAgrees
  BY HeldAgrees
<1> QED
  BY <1>1, <1>2, <1>3, PTL DEF Spec
-----------------------------------------------------------------------------
(* The compensation of assign.  What an assignment that met no fault, or   *)
(* only the one it now takes back, has changed is behind it.               *)

Restorable(p) ==
  LET l == pc[p]
      j == job[p]
      t == j.task
      s == j.sprint
  IN  /\ j.old = Unassigned
      /\ l # "rename" => files[t].dir = New(p)
      /\ files[t].sprint = NoSprint \/ ("tag" \in j.behind /\ l # "put-back")
      /\ t \in backlog \/ ("unlist" \in j.behind /\ l \notin {"untag", "put-back"})
      /\ \/ \A m \in Place : t \notin docs[s][m].rows
         \/ "row" \in j.behind /\ l \notin {"relist", "untag", "put-back"}
      /\ l = "drop-row" => AtRest(s) /\ sprints[s].status # "none"

\* The file is where the assignment moved it, so that without a fault there is
\* nothing to take back.
UndoHeld(p) ==
  LET l == pc[p] IN
  job[p].cmd = "assign" =>
    /\ l = "tag" => files[job[p].task].dir = New(p)
    /\ l \in Undoing => faults # 0
    /\ faults = 0 /\ l \in Assigning => Restorable(p)
    /\ faults = 1 /\ l \in Undoing => Restorable(p)
UndoInv == menu \cap Discards = {} => \A p \in Proc : UndoHeld(p)

LEMMA UndoElsewhere ==
  ASSUME NEW p \in Proc, pc'[p] \notin Assigning \/ job'[p].cmd # "assign"
  PROVE  UndoHeld(p)'
  BY DEF UndoHeld, Assigning, Undoing

\* Commands that assign nothing never come to the labels of one that does.
LEMMA OthersElsewhere ==
  ASSUME TypeInv, NEW p \in Proc, Step(p), pc[p] \notin Assigning
  PROVE  pc'[p] \notin Assigning
<1>1. ASSUME NEW l, NEW j, Continue(p, l, j) PROVE pc'[p] = l
  BY <1>1, Goes
<1>2. CASE CreateFolder(p) \/ WriteDocument(p) \/ SaveToDB(p) \/ Collect(p)
           \/ WriteFrontmatter(p) \/ ReturnTask(p)
  BY <1>1, <1>2 DEF CreateFolder, WriteDocument, SaveToDB, Collect, WriteFrontmatter,
                    ReturnTask, Return, Goto, Assigning
<1>3. CASE MoveSprint(p) \/ Sweep(p) \/ Stamp(p) \/ Record(p)
           \/ UpdateTaskPathsForSprint(p) \/ ListFiles(p)
  BY <1>1, <1>3 DEF MoveSprint, Sweep, Stamp, Record, UpdateTaskPathsForSprint, ListFiles,
                    Return, Goto, Assigning
<1>4. CASE Bind(p) \/ BindSprint(p) \/ BindPath(p) \/ ListForSync(p) \/ ForceStatus(p)
           \/ UpdateCurrentFocus(p)
  BY <1>1, <1>4 DEF Bind, BindSprint, BindPath, ListForSync, ForceStatus, UpdateCurrentFocus,
                    Return, Goto, Assigning
<1>5. CASE Compare(p) \/ ListDrift(p) \/ HealDrift(p)
  BY <1>1, <1>5 DEF Compare, ListDrift, HealDrift, Return, Goto, Assigning
<1>6. ~(Rename(p) \/ Tag(p) \/ List(p) \/ EditRow(p) \/ SetSprint(p) \/ SetPath(p)
        \/ DropRow(p) \/ Relist(p) \/ Untag(p) \/ PutBack(p))
  BY DEF Rename, Tag, List, EditRow, SetSprint, SetPath, DropRow, Relist, Untag, PutBack,
         Assigning
<1> QED
  BY <1>2, <1>3, <1>4, <1>5, <1>6 DEF Step

LEMMA BeginUndo ==
  ASSUME TypeInv, TypeInv', RestInv, NEW p \in Proc, Begin(p), menu \cap Discards = {}
  PROVE  UndoHeld(p)'
<1>1. ASSUME NEW l, NEW j, Continue(p, l, j) PROVE pc'[p] = l
  BY <1>1, Goes
<1>2. CASE SprintCreate(p) \/ SprintStart(p) \/ SprintComplete(p) \/ SprintDiscard(p)
  <2>1. pc'[p] \notin Assigning
    BY <1>1, <1>2 DEF SprintCreate, SprintStart, SprintComplete, SprintDiscard, BeginCreate,
                      BeginStart, BeginComplete, BeginDiscard, Assigning
  <2> QED
    BY <2>1, UndoElsewhere
<1>3. CASE SprintUpdate(p) \/ SprintReconcile(p)
  <2>1. pc'[p] \notin Assigning
    BY <1>1, <1>3 DEF SprintUpdate, SprintReconcile, BeginUpdate, BeginReconcile, Assigning
  <2> QED
    BY <2>1, UndoElsewhere
<1>4. CASE TaskUnassign(p)
  <2>1. PICK t \in Task : BeginUnassign(p, t)
    BY <1>4 DEF TaskUnassign
  <2>2. tasks[t].sprint \in Sprint /\ files[t].dir \in Dirs
    BY <2>1, InHand DEF BeginUnassign, Records
  <2>3. PICK s \in Sprint : s = tasks[t].sprint
    BY <2>2
  <2>4. job'[p] = [Issue(p, "unassign", s, t) EXCEPT !.old = files[t].dir]
    BY <2>1, <2>3, Goes DEF BeginUnassign
  <2>5. Issue(p, "unassign", s, t) \in Job /\ Issue(p, "unassign", s, t).cmd = "unassign"
    BY <2>3, JobIssue DEF AllCommands
  <2>6. job'[p].cmd = "unassign"
    BY <2>4, <2>5 DEF Job
  <2> QED
    BY <2>6, UndoElsewhere
<1>5. CASE TaskAssign(p)
  <2>1. PICK t \in Task, s \in Sprint : BeginAssign(p, t, s)
    BY <1>5 DEF TaskAssign
  <2>2. PICK l \in Place :
          Continue(p, "rename", [Issue(p, "assign", s, t) EXCEPT !.from = l,
                                                                 !.old = files[t].dir])
    BY <2>1 DEF BeginAssign
  <2>3. /\ pc'[p] = "rename"
        /\ job'[p] = [Issue(p, "assign", s, t) EXCEPT !.from = l, !.old = files[t].dir]
    BY <2>2, Goes
  <2>4. /\ Issue(p, "assign", s, t) \in Job /\ Issue(p, "assign", s, t).sprint = s
        /\ Issue(p, "assign", s, t).task = t
    BY JobIssue DEF AllCommands
  <2>5. job'[p].sprint = s /\ job'[p].task = t /\ job'[p].old = files[t].dir
    BY <2>3, <2>4 DEF Job
  <2>6. UNCHANGED <<files, backlog, docs, faults>> /\ pc[p] = "idle" /\ tasks[t].sprint = NoSprint
    BY <2>1 DEF BeginAssign, Starts, disk
  <2>7. ASSUME faults = 0 PROVE Restorable(p)'
    <3>1. Held(p)
      BY <2>7 DEF RestInv, Calm
    <3>2. Rested(t)
      BY <2>6, <3>1, AllRested DEF Held, OnTheMove, InChange, Assigning
    <3>3. Member(t, NoSprint)
      BY <2>6, <3>2 DEF Rested
    <3>4. /\ files[t].sprint = NoSprint /\ files[t].dir = Unassigned /\ t \in backlog
          /\ Listed(t, NoSprint)
      BY <3>3 DEF Member, Home
    <3>5. \A m \in Place : t \notin docs[s][m].rows
      BY <3>4, SprintAssumption DEF Listed
    <3> QED
      BY <2>3, <2>5, <2>6, <3>4, <3>5 DEF Restorable
  <2> QED
    BY <2>3, <2>6, <2>7 DEF UndoHeld, Undoing
<1> QED
  BY <1>2, <1>3, <1>4, <1>5 DEF Begin
\* What an assignment is about.
LEMMA UndoFacts ==
  ASSUME TypeInv, NEW p \in Proc, pc[p] \in Assigning, job[p].cmd = "assign"
  PROVE  /\ job[p].task \in Task /\ job[p].sprint \in Sprint /\ New(p) \in Dirs
         /\ files \in [Task -> Records] /\ docs \in [Sprint -> [Place -> Docs]]
         /\ Recovers(p) = "drop-row"
         /\ \A c : Achieved(p, c).behind = job[p].behind \cup {c}
<1>1. job[p] \in Job
  BY InHand
<1>2. ASSUME NEW c PROVE Achieved(p, c).behind = job[p].behind \cup {c}
  <2>1. Achieved(p, c) = [job[p] EXCEPT !.behind = job[p].behind \cup {c}]
    BY DEF Achieved
  <2> QED
    BY <1>1, <2>1 DEF Job
<1> QED
  BY <1>2, AssigningFacts, InHand DEF Recovers

\* While no fault was met a compensation begins in a Sprint at rest.
LEMMA UndoAtRest ==
  ASSUME TypeInv, RestInv, NEW p \in Proc, Calm, pc[p] \in Assigning
  PROVE  \A s \in Sprint : s = job[p].sprint => AtRest(s) /\ sprints[s].status # "none"
<1>1. Held(p)
  BY DEF RestInv
<1>2. pc[p] \notin OnTheMove \cup {"folder", "document", "save"}
  BY DEF OnTheMove, Assigning
<1> QED
  BY <1>1, <1>2, AllAtRest DEF Held, JobHeld

\* A step that changes none of what would be taken back.
LEMMA UndoKept ==
  ASSUME TypeInv, NEW p \in Proc, pc[p] \in Halfway \ {"rename"}, SameTask(p, job'[p]),
         job[p].behind \subseteq job'[p].behind, pc'[p] \in Halfway \cup {"drop-row"},
         NEW t, t = job[p].task, NEW s, s = job[p].sprint,
         files'[t].dir = files[t].dir,
         files'[t].sprint = files[t].sprint \/ "tag" \in job'[p].behind,
         (t \in backlog' <=> t \in backlog) \/ "unlist" \in job'[p].behind,
         docs'[s] = docs[s] \/ "row" \in job'[p].behind,
         pc'[p] = "drop-row" => AtRest(s)' /\ sprints'[s].status # "none",
         Restorable(p)
  PROVE  Restorable(p)'
<1>1. New(p)' = New(p)
  BY DEF New, SameTask
<1>2. pc[p] # "rename" /\ pc'[p] \notin {"relist", "untag", "put-back"}
  BY DEF Halfway
<1>3. /\ job[p].old = Unassigned /\ files[t].dir = New(p)
      /\ files[t].sprint = NoSprint \/ "tag" \in job[p].behind
      /\ t \in backlog \/ "unlist" \in job[p].behind
      /\ (\A m \in Place : t \notin docs[s][m].rows) \/ "row" \in job[p].behind
  BY <1>2 DEF Restorable
<1>4. job'[p].old = Unassigned /\ job'[p].task = t /\ job'[p].sprint = s
  BY <1>3 DEF SameTask
<1> QED
  BY <1>1, <1>2, <1>3, <1>4 DEF Restorable

LEMMA RenameUndo ==
  ASSUME TypeInv, NEW p \in Proc, Rename(p), job[p].cmd = "assign", UndoHeld(p)
  PROVE  UndoHeld(p)'
<1>1. pc[p] = "rename" /\ pc[p] \in Assigning /\ UNCHANGED <<docs, backlog>>
  BY DEF Rename, Assigning
<1>2. PICK t \in Task : t = job[p].task
  BY <1>1, UndoFacts
<1>3. CASE Return(p)
  BY <1>3, Goes, UndoElsewhere DEF Return, Goto, Assigning
<1>4. CASE ~Return(p)
  <2>1. Works /\ Goto(p, "tag") /\ files' = [files EXCEPT ![t].dir = New(p)]
    BY <1>2, <1>4 DEF Rename
  <2>2. pc'[p] = "tag" /\ job'[p] = job[p] /\ New(p)' = New(p)
    BY <2>1, Goes DEF Goto, New
  <2>3. files'[t].dir = New(p) /\ files'[t].sprint = files[t].sprint
    BY <1>1, <2>1, UndoFacts DEF Records
  <2>4. faults = 0 => Restorable(p)
    BY <1>1 DEF UndoHeld
  <2>5. ASSUME faults = 0 PROVE Restorable(p)'
    BY <1>1, <1>2, <2>2, <2>3, <2>4, <2>5 DEF Restorable
  <2>6. faults' = faults
    BY <2>1 DEF Works
  <2> QED
    BY <1>2, <2>2, <2>3, <2>5, <2>6 DEF UndoHeld, Undoing
<1> QED
  BY <1>3, <1>4

\* A step of an assignment before its compensation, and its end at a fault.
LEMMA HalfwayUndo ==
  ASSUME TypeInv, RestInv, menu \cap Discards = {}, NEW p \in Proc,
         Tag(p) \/ List(p) \/ EditRow(p) \/ SetSprint(p) \/ SetPath(p),
         job[p].cmd = "assign", UndoHeld(p)
  PROVE  UndoHeld(p)'
<1>1. pc[p] \in Halfway \ {"rename"} /\ pc[p] \in Assigning /\ UNCHANGED <<sprints, folders>>
  BY DEF Tag, List, EditRow, SetSprint, SetPath, Halfway, Assigning, database, disk
<1>2. PICK t \in Task, s \in Sprint : t = job[p].task /\ s = job[p].sprint
  BY <1>1, UndoFacts
<1>3. /\ files \in [Task -> Records] /\ Recovers(p) = "drop-row"
      /\ \A c : /\ SameTask(p, Achieved(p, c))
                /\ Achieved(p, c).behind = job[p].behind \cup {c}
      /\ SameTask(p, job[p])
  BY <1>1, UndoFacts, SameTaskUpdates
<1>4. /\ pc'[p] # "tag"
      /\ \/ pc'[p] = "idle"
         \/ /\ pc'[p] \in Halfway \cup {"drop-row"}
            /\ SameTask(p, job'[p]) /\ job[p].behind \subseteq job'[p].behind
            /\ files'[t].dir = files[t].dir
            /\ files'[t].sprint = files[t].sprint \/ "tag" \in job'[p].behind
            /\ (t \in backlog' <=> t \in backlog) \/ "unlist" \in job'[p].behind
            /\ docs'[s] = docs[s] \/ "row" \in job'[p].behind
            /\ pc'[p] = "drop-row" => UNCHANGED docs /\ Fault
            /\ Fault \/ Works
  <2>1. CASE Tag(p)
    <3>1. files[t].dir = New(p)
      BY <1>2, <2>1 DEF Tag, UndoHeld
    <3>2. CASE Works
      <4>1. /\ files' = [files EXCEPT ![t].sprint = New(p).sprint]
            /\ Continue(p, "unlist", Achieved(p, "tag"))
        BY <1>2, <2>1, <3>1, <3>2, FaultFacts DEF Tag
      <4>2. files'[t].dir = files[t].dir
        BY <1>3, <4>1 DEF Records
      <4>3. pc'[p] = "unlist" /\ job'[p] = Achieved(p, "tag")
        BY <4>1, Goes
      <4> QED
        BY <1>3, <2>1, <3>2, <4>2, <4>3 DEF Tag, Halfway
    <3>3. CASE ~Works
      <4>1. Fault /\ Goto(p, "drop-row") /\ UNCHANGED files
        BY <1>2, <1>3, <2>1, <3>1, <3>3 DEF Tag
      <4>2. pc'[p] = "drop-row" /\ job'[p] = job[p]
        BY <4>1, Goes DEF Goto
      <4> QED
        BY <1>3, <2>1, <4>1, <4>2 DEF Tag
    <3> QED
      BY <3>2, <3>3
  <2>2. CASE List(p)
    <3>1. pc'[p] = "row" /\ job'[p] \in {job[p], Achieved(p, "unlist")} /\ (Fault \/ Works)
      BY <2>2, Goes DEF List, Goto
    <3>2. UNCHANGED backlog \/ job'[p] = Achieved(p, "unlist")
      BY <2>2, Goes DEF List
    <3>3. UNCHANGED <<files, docs>>
      BY <2>2 DEF List
    <3> QED
      BY <1>3, <3>1, <3>2, <3>3 DEF Halfway
  <2>3. CASE EditRow(p)
    <3>1. /\ pc'[p] = "set-sprint" /\ job'[p] \in {job[p], Achieved(p, "row")}
          /\ Fault \/ Works
      BY <2>3, Goes DEF EditRow, Goto
    <3>2. UNCHANGED docs \/ job'[p] = Achieved(p, "row")
      BY <2>3, Goes DEF EditRow
    <3>3. UNCHANGED <<files, backlog>>
      BY <2>3 DEF EditRow
    <3> QED
      BY <1>3, <3>1, <3>2, <3>3 DEF Halfway
  <2>4. CASE SetSprint(p) \/ SetPath(p)
    <3>1. UNCHANGED <<files, docs, backlog>> /\ (Fault \/ Works)
      BY <2>4 DEF SetSprint, SetPath, disk
    <3>2. \/ pc'[p] = "idle"
          \/ pc'[p] = "set-path" /\ job'[p] = job[p]
          \/ pc'[p] = "drop-row" /\ job'[p] = job[p] /\ Fault
      BY <1>3, <2>4, Goes DEF SetSprint, SetPath, Return, Goto
    <3> QED
      BY <1>3, <3>1, <3>2 DEF Halfway
  <2> QED
    BY <2>1, <2>2, <2>3, <2>4
<1>5. CASE pc'[p] = "idle"
  BY <1>5, UndoElsewhere DEF Assigning
<1>6. CASE pc'[p] # "idle"
  <2>1. Fault \/ Works
    BY <1>4, <1>6
  <2>2. faults' = faults \/ (faults' = faults + 1 /\ faults \in Nat)
    BY <2>1 DEF Fault, Works, TypeInv, ControlOK
  <2>3. pc'[p] = "drop-row" => faults' = faults + 1 /\ faults \in Nat
    BY <1>4, <1>6, <2>2 DEF Fault, TypeInv, ControlOK
  <2>4. pc'[p] \in Undoing => pc'[p] = "drop-row"
    BY <1>4, <1>6 DEF Undoing, Halfway
  <2>5. ASSUME faults = 0 PROVE Restorable(p)'
    <3>1. Restorable(p)
      BY <1>1, <2>5 DEF UndoHeld
    <3>2. AtRest(s) /\ sprints[s].status # "none"
      BY <1>1, <1>2, <2>5, UndoAtRest DEF Calm
    <3>3. pc'[p] = "drop-row" => AtRest(s)' /\ sprints'[s].status # "none"
      BY <1>1, <1>4, <1>6, <3>2, SprintStays
    <3> QED
      BY <1>1, <1>2, <1>4, <1>6, <3>1, <3>3, UndoKept
  <2>6. faults' = 0 => faults = 0
    BY <2>2
  <2>7. faults' = 1 /\ pc'[p] \in Undoing => faults = 0
    BY <2>3, <2>4
  <2>8. pc'[p] \in Undoing => faults' # 0
    BY <2>3, <2>4
  <2> QED
    BY <1>4, <2>5, <2>6, <2>7, <2>8 DEF UndoHeld
<1> QED
  BY <1>5, <1>6

\* The compensation, from the last thing done to the first.
LEMMA UndoingUndo ==
  ASSUME TypeInv, NEW p \in Proc, DropRow(p) \/ Relist(p) \/ Untag(p),
         job[p].cmd = "assign", UndoHeld(p)
  PROVE  UndoHeld(p)'
<1>1. pc[p] \in {"drop-row", "relist", "untag"} /\ pc[p] \in Assigning /\ pc[p] \in Undoing
  BY DEF DropRow, Relist, Untag, Assigning, Undoing
<1>2. PICK t \in Task, s \in Sprint : t = job[p].task /\ s = job[p].sprint
  BY <1>1, UndoFacts
<1>3. pc'[p] \in {"relist", "untag", "put-back"} /\ job'[p] = job[p] /\ UNCHANGED sprints
      /\ (Fault \/ Works)
  BY Goes DEF DropRow, Relist, Untag, Goto, database
<1>4. New(p)' = New(p)
  BY <1>3 DEF New
<1>5. faults' = faults \/ (faults' = faults + 1 /\ faults \in Nat)
  BY <1>3 DEF Fault, Works, TypeInv, ControlOK
<1>6. ASSUME Works, Restorable(p) PROVE Restorable(p)'
  <2>1. /\ job[p].old = Unassigned /\ files[t].dir = New(p)
        /\ files[t].sprint = NoSprint \/ "tag" \in job[p].behind
        /\ t \in backlog \/ "unlist" \in job[p].behind
    BY <1>1, <1>2, <1>6 DEF Restorable
  <2>2. CASE DropRow(p)
    <3>1. pc[p] = "drop-row" /\ pc'[p] = "relist" /\ UNCHANGED <<files, backlog>>
      BY <2>2, <1>3, Goes DEF DropRow, Goto
    <3>2. AtRest(s) /\ sprints[s].status # "none"
          /\ ((\A m \in Place : t \notin docs[s][m].rows) \/ "row" \in job[p].behind)
      BY <1>2, <1>6, <3>1 DEF Restorable
    <3>3. \A m \in Place : t \notin docs'[s][m].rows
      <4>1. CASE "row" \in job[p].behind
        <5>1. Edit(p, RowsWithout(p))
          BY <1>6, <2>2, <4>1, FaultFacts DEF DropRow
        <5>2. \A m \in Place : RowsWithout(p)[m] = docs[s][m].rows \ Marked(t)
          BY <1>2 DEF RowsWithout
        <5>3. t \in Marked(t)
          BY DEF Marked
        <5>4. PICK rows : Edit(p, rows) /\ \A m \in Place : t \notin rows[m]
          BY <5>1, <5>2, <5>3
        <5>5. \A m \in Place : docs'[s][m].rows =
                IF HasDoc(s, m) THEN rows[m] ELSE docs[s][m].rows
          BY <1>2, <3>2, <5>4, EditFacts
        <5>6. \A m \in Place : ~HasDoc(s, m) => docs[s][m].rows = {}
          BY DEF HasDoc, NoDoc
        <5> QED
          BY <5>4, <5>5, <5>6
      <4>2. CASE "row" \notin job[p].behind
        <5>1. UNCHANGED docs
          BY <2>2, <4>2 DEF DropRow
        <5> QED
          BY <3>2, <4>2, <5>1
      <4> QED
        BY <4>1, <4>2
    <3> QED
      BY <1>2, <1>3, <1>4, <2>1, <3>1, <3>3 DEF Restorable
  <2>3. CASE Relist(p)
    <3>1. pc[p] = "relist" /\ pc'[p] = "untag" /\ UNCHANGED <<files, docs>>
          /\ backlog' = IF "unlist" \in job[p].behind THEN backlog \cup {t} ELSE backlog
      BY <1>2, <1>6, <2>3, <1>3, Goes, FaultFacts DEF Relist, Goto
    <3>2. t \in backlog'
      BY <2>1, <3>1
    <3>3. \A m \in Place : t \notin docs[s][m].rows
      BY <1>2, <1>6, <3>1 DEF Restorable
    <3> QED
      BY <1>2, <1>3, <1>4, <2>1, <3>1, <3>2, <3>3 DEF Restorable
  <2>4. CASE Untag(p)
    <3>1. pc[p] = "untag" /\ pc'[p] = "put-back" /\ UNCHANGED <<backlog, docs>>
          /\ files' = IF "tag" \in job[p].behind /\ files[t].dir = New(p)
                      THEN [files EXCEPT ![t].sprint = NoSprint] ELSE files
      BY <1>2, <1>6, <2>4, <1>3, Goes, FaultFacts DEF Untag, Goto
    <3>2. files'[t].sprint = NoSprint /\ files'[t].dir = New(p)
      BY <1>1, <2>1, <3>1, UndoFacts DEF Records
    <3>3. t \in backlog /\ \A m \in Place : t \notin docs[s][m].rows
      BY <1>2, <1>6, <3>1 DEF Restorable
    <3> QED
      BY <1>2, <1>3, <1>4, <2>1, <3>1, <3>2, <3>3 DEF Restorable
  <2> QED
    BY <2>2, <2>3, <2>4
<1>7. ASSUME faults' = 0 \/ faults' = 1 PROVE Restorable(p)'
  <2>1. CASE Works
    <3>1. Restorable(p)
      BY <1>1, <1>7, <2>1 DEF Works, UndoHeld
    <3> QED
      BY <1>6, <2>1, <3>1
  <2>2. CASE Fault
    <3>1. faults = 0
      <4>1. faults \in Nat /\ faults' = faults + 1
        BY <2>2 DEF Fault, TypeInv, ControlOK
      <4> QED
        BY <1>7, <4>1
    <3> QED
      BY <1>1, <3>1 DEF UndoHeld
  <2> QED
    BY <1>3, <2>1, <2>2
<1>8. faults' # 0
  BY <1>1, <1>5 DEF UndoHeld
<1> QED
  BY <1>3, <1>7, <1>8 DEF UndoHeld

LEMMA ProgressUndo ==
  ASSUME TypeInv, NEW p \in Proc, NEW t \in Task, Progress(t), UndoHeld(p)
  PROVE  UndoHeld(p)'
<1>1. UNCHANGED <<sprints, folders, docs, backlog, pc, job, faults>>
  BY DEF Progress, control
<1>2. \A u \in Task : files'[u].dir = files[u].dir /\ files'[u].sprint = files[u].sprint
  <2>1. files \in [Task -> Records]
    BY InHand
  <2>2. PICK st : files' = [files EXCEPT ![t].status = st]
    BY DEF Progress
  <2> QED
    BY <2>1, <2>2 DEF Records
<1>3. CASE pc[p] \notin Assigning \/ job[p].cmd # "assign"
  BY <1>1, <1>3, UndoElsewhere
<1>4. CASE pc[p] \in Assigning /\ job[p].cmd = "assign"
  <2>1. PICK u \in Task, s \in Sprint : u = job[p].task /\ s = job[p].sprint
    BY <1>4, UndoFacts
  <2>2. AtRest(s)' <=> AtRest(s)
    BY <1>1, SprintStays
  <2>3. New(p)' = New(p)
    BY <1>1 DEF New
  <2>4. Restorable(p) => Restorable(p)'
    BY <1>1, <1>2, <2>1, <2>2, <2>3 DEF Restorable
  <2> QED
    BY <1>1, <1>2, <2>1, <2>3, <2>4 DEF UndoHeld
<1> QED
  BY <1>3, <1>4

LEMMA UndoInvInit == Init => UndoInv
<1> SUFFICES ASSUME Init, NEW p \in Proc PROVE UndoHeld(p)
  BY DEF UndoInv
<1>1. pc[p] = "idle"
  BY DEF Init
<1> QED
  BY <1>1 DEF UndoHeld, Assigning, Undoing

LEMMA SameCommand ==
  ASSUME TypeInv, NEW p \in Proc, Step(p), pc[p] \in Assigning
  PROVE  job'[p].cmd = job[p].cmd \/ job'[p].cmd = "none"
<1>1. ASSUME NEW l, NEW j, Continue(p, l, j), j.cmd = job[p].cmd
      PROVE  job'[p].cmd = job[p].cmd \/ job'[p].cmd = "none"
  BY <1>1, Goes DEF NoJob
<1>2. ASSUME NEW l, Goto(p, l) PROVE job'[p].cmd = job[p].cmd \/ job'[p].cmd = "none"
  BY <1>1, <1>2 DEF Goto
<1>3. ASSUME NEW l, NEW c, Continue(p, l, Achieved(p, c))
      PROVE  job'[p].cmd = job[p].cmd \/ job'[p].cmd = "none"
  <2>1. Achieved(p, c).cmd = job[p].cmd
    BY InHand DEF Achieved, Job
  <2> QED
    BY <1>1, <1>3, <2>1
<1>4. CASE Rename(p) \/ SetSprint(p) \/ SetPath(p)
  BY <1>2, <1>4 DEF Rename, SetSprint, SetPath, Return
<1>5. CASE DropRow(p) \/ Relist(p) \/ Untag(p) \/ PutBack(p)
  BY <1>2, <1>5 DEF DropRow, Relist, Untag, PutBack, Return
<1>6. CASE Tag(p)
  BY <1>2, <1>3, <1>6 DEF Tag
<1>7. CASE List(p)
  BY <1>2, <1>3, <1>7 DEF List
<1>8. CASE EditRow(p)
  BY <1>2, <1>3, <1>8 DEF EditRow
<1> QED
  BY <1>4, <1>5, <1>6, <1>7, <1>8
  DEF Step, CreateFolder, WriteDocument, SaveToDB, Collect, WriteFrontmatter,
      ReturnTask, MoveSprint, Sweep, Stamp, Record, UpdateTaskPathsForSprint,
      ListFiles, Bind, BindSprint, BindPath, ListForSync, ForceStatus,
      UpdateCurrentFocus, Compare, ListDrift, HealDrift, Assigning

LEMMA UndoInvStep ==
  ASSUME OneByOne, TypeInv, TypeInv', RestInv, UndoInv, [Next]_vars
  PROVE  UndoInv'
<1>1. menu' = menu
  BY SameMenu
<1> SUFFICES ASSUME menu \cap Discards = {}, NEW p \in Proc PROVE UndoHeld(p)'
  BY <1>1 DEF UndoInv
<1>2. UndoHeld(p)
  BY DEF UndoInv
<1>3. CASE Begin(p)
  BY <1>3, BeginUndo
<1>4. CASE Step(p)
  <2>1. CASE pc[p] \notin Assigning
    BY <1>4, <2>1, OthersElsewhere, UndoElsewhere
  <2>2. CASE pc[p] \in Assigning
    <3>1. CASE job[p].cmd # "assign"
      <4>1. job'[p].cmd # "assign"
        BY <1>4, <2>2, <3>1, SameCommand
      <4> QED
        BY <4>1, UndoElsewhere
    <3>2. CASE job[p].cmd = "assign"
      <4>1. CASE Rename(p)
        BY <1>2, <3>2, <4>1, RenameUndo
      <4>2. CASE Tag(p) \/ List(p) \/ EditRow(p) \/ SetSprint(p) \/ SetPath(p)
        BY <1>2, <3>2, <4>2, HalfwayUndo
      <4>3. CASE DropRow(p) \/ Relist(p) \/ Untag(p)
        BY <1>2, <3>2, <4>3, UndoingUndo
      <4>4. CASE PutBack(p)
        <5>1. pc'[p] = "idle"
          BY <4>4, Goes DEF PutBack, Return, Goto
        <5> QED
          BY <5>1, UndoElsewhere DEF Assigning
      <4> QED
        BY <1>4, <2>2, <4>1, <4>2, <4>3, <4>4
        DEF Step, CreateFolder, WriteDocument, SaveToDB, Collect, WriteFrontmatter,
            ReturnTask, MoveSprint, Sweep, Stamp, Record, UpdateTaskPathsForSprint,
            ListFiles, Bind, BindSprint, BindPath, ListForSync, ForceStatus,
            UpdateCurrentFocus, Compare, ListDrift, HealDrift, Assigning
    <3> QED
      BY <3>1, <3>2
  <2> QED
    BY <2>1, <2>2
<1>5. CASE Crash(p)
  <2>1. pc'[p] = "idle"
    BY <1>5, Goes DEF Crash, Return, Goto
  <2> QED
    BY <2>1, UndoElsewhere DEF Assigning
<1>6. ASSUME NEW t \in Task, Progress(t) PROVE UndoHeld(p)'
  BY <1>2, <1>6, ProgressUndo
<1>7. CASE UNCHANGED vars
  <2>1. UNCHANGED <<sprints, folders, docs, files, backlog, pc, job, faults>>
    BY <1>7 DEF vars
  <2>2. New(p)' = New(p) /\ (Restorable(p)' <=> Restorable(p))
    BY <2>1 DEF New, Restorable, AtRest, Absent, Stands, HasDoc
  <2> QED
    BY <1>2, <2>1, <2>2 DEF UndoHeld
<1> QED
  BY <1>3, <1>4, <1>5, <1>6, <1>7 DEF Next, OneByOne

LEMMA PutBackRestores ==
  ASSUME OneByOne, TypeInv, UndoInv, [Next]_vars, NEW p \in Proc, NEW t, t = job[p].task,
         job[p].cmd = "assign", pc[p] = "put-back", pc'[p] = "idle",
         faults = 1, faults' = 1, menu \cap Discards = {}
  PROVE  /\ files'[t].dir = Unassigned /\ files'[t].sprint = NoSprint
         /\ t \in backlog'
         /\ \A l \in Place : t \notin docs'[job[p].sprint][l].rows
<1>1. pc[p] \in Undoing /\ pc[p] \in Assigning
  BY DEF Undoing, Assigning
<1>2. Restorable(p)
  BY <1>1 DEF UndoInv, UndoHeld
<1>3. t \in Task /\ New(p) \in Dirs /\ files \in [Task -> Records]
  BY <1>1, UndoFacts
<1>4. PutBack(p) /\ ~Fault
  <2>1. ~Fault
    BY DEF Fault
  <2>2. ~Begin(p)
    BY DEF Begin, SprintCreate, SprintStart, SprintComplete, SprintDiscard, SprintUpdate,
           SprintReconcile, TaskAssign, TaskUnassign, BeginCreate, BeginStart, BeginComplete,
           BeginDiscard, BeginUpdate, BeginReconcile, BeginAssign, BeginUnassign, Starts
  <2>3. ~Crash(p)
    BY <2>1 DEF Crash
  <2>4. \A u \in Task : ~Progress(u)
    BY DEF Progress, control
  <2>5. ~UNCHANGED vars
    BY DEF vars
  <2>6. Step(p)
    BY <2>2, <2>3, <2>4, <2>5 DEF Next, OneByOne
  <2>7. PutBack(p)
    BY <2>6
    DEF Step, CreateFolder, WriteDocument, SaveToDB, Collect, WriteFrontmatter,
        ReturnTask, MoveSprint, Sweep, Stamp, Record, UpdateTaskPathsForSprint,
        ListFiles, Bind, BindSprint, BindPath, ListForSync, ForceStatus,
        UpdateCurrentFocus, Compare, ListDrift, HealDrift, Rename, Tag, List, EditRow,
        SetSprint, SetPath, DropRow, Relist, Untag
  <2> QED
    BY <2>1, <2>7
<1>5. files' = [files EXCEPT ![t].dir = Unassigned] /\ UNCHANGED <<docs, backlog>>
  BY <1>2, <1>4 DEF PutBack, Restorable
<1>6. files'[t].dir = Unassigned /\ files'[t].sprint = files[t].sprint
  BY <1>3, <1>5 DEF Records
<1> QED
  BY <1>2, <1>5, <1>6 DEF Restorable

\* assign (task.go 3110-3290): an assignment one step of which failed leaves the
\* Task's file in works/tasks without a Sprint, its line in BACKLOG.md and no row in
\* the SPRINT.md it was entered in, for any Sprints, Tasks and sets of commands but
\* discards, while Tasks are worked on.  One process runs commands, nothing else
\* failed before, and no Task depends on one other alone.
THEOREM AssignIsUndone ==
  ASSUME OneByOne, Proc # {}, MarkedAlone
  PROVE  Spec => CompensationRestores
<1>1. Init => TypeInv /\ RestInv /\ UndoInv
  BY TypeInvInit, RestInvInit, UndoInvInit
<1>2. TypeInv /\ RestInv /\ UndoInv /\ [Next]_vars => TypeInv' /\ RestInv' /\ UndoInv'
  BY TypeInvStep, RestInvStep, UndoInvStep
<1> DEFINE Restores1(p) ==
         LET t == job[p].task IN
         /\ job[p].cmd = "assign" /\ pc[p] = "put-back" /\ pc'[p] = "idle"
         /\ faults = 1 /\ faults' = 1 /\ menu \cap Discards = {}
         => /\ files'[t].dir = Unassigned /\ files'[t].sprint = NoSprint
            /\ t \in backlog'
            /\ \A l \in Place : t \notin docs'[job[p].sprint][l].rows
<1>3. TypeInv /\ UndoInv /\ [Next]_vars => [\A p \in Proc : Restores1(p)]_vars
  BY PutBackRestores
<1> QED
  BY <1>1, <1>2, <1>3, PTL DEF Spec, CompensationRestores
-----------------------------------------------------------------------------
(* What reconcile heals.  Before the first fault the row of a Task names    *)
(* its file, but for those a command under way is yet to write; and one     *)
(* fault is all a reconcile may have to heal or may meet itself.            *)

Carried  == {"sweep", "stamp", "record", "paths", "list"}
Healing == {"compare", "drift", "heal", "save"}

\* The command will write the path of t before it ends.
Strays(p, t) ==
  LET l == pc[p]
      j == job[p]
  IN  \/ l \in Carried /\ files[t].dir = Folder(j.to, j.sprint)
      \/ l \in Binding /\ \E e \in j.todo : e.task = t
      \/ l \in {"bind-sprint", "bind-path"} \cup Assigning /\ j.task = t
PathsKnown(p) ==
  faults = 0 => \A t \in Task : tasks[t].dir = files[t].dir \/ Strays(p, t)

\* The path of t is right, or the row a reconcile has still to visit.
Healed(p, t) ==
  \/ tasks[t].dir = files[t].dir
  \/ pc[p] = "heal" /\ \E e \in job[p].todo : e.task = t /\ e.dir = tasks[t].dir
HealHeld(p) ==
  LET l == pc[p]
      j == job[p]
  IN  /\ l = "bind-path" => files[j.task].dir = Folder(j.to, j.sprint)
      /\ j.cmd = "reconcile" =>
           /\ l \in Healing
           /\ j.row.folder = j.row.status
           /\ l \in {"drift", "heal"} /\ j.to = "none" => sprints[j.sprint] = j.row
           /\ l \in {"heal", "save"} =>
                \A t \in Task : tasks[t].sprint = j.sprint => Healed(p, t)
HealInv == \A p \in Proc : PathsKnown(p) /\ HealHeld(p)

SameDirs == \A t \in Task : tasks'[t].dir = tasks[t].dir /\ files'[t].dir = files[t].dir

LEMMA PathsKept ==
  ASSUME NEW p \in Proc, PathsKnown(p), faults' = 0 => faults = 0, SameDirs,
         \A t \in Task : Strays(p, t) => Strays(p, t)'
  PROVE  PathsKnown(p)'
  BY DEF PathsKnown, SameDirs

LEMMA FaultyPaths ==
  ASSUME NEW p \in Proc, faults' # 0
  PROVE  PathsKnown(p)'
  BY DEF PathsKnown

LEMMA NoneStray ==
  ASSUME NEW p \in Proc, pc[p] \notin Carried \cup Binding \cup Assigning
  PROVE  \A t \in Task : ~Strays(p, t)
  BY DEF Strays, Binding

LEMMA DirsKept ==
  ASSUME TypeInv
  PROVE  /\ \A t, x : tasks' = [tasks EXCEPT ![t].status = x] =>
                        \A u \in Task : tasks'[u].dir = tasks[u].dir
         /\ \A t, x : tasks' = [tasks EXCEPT ![t].sprint = x] =>
                        \A u \in Task : tasks'[u].dir = tasks[u].dir
         /\ \A t, x : files' = [files EXCEPT ![t].status = x] =>
                        \A u \in Task : files'[u].dir = files[u].dir
         /\ \A t, x : files' = [files EXCEPT ![t].sprint = x] =>
                        \A u \in Task : files'[u].dir = files[u].dir
<1>1. tasks \in [Task -> Records] /\ files \in [Task -> Records]
  BY DEF TypeInv, TasksOK
<1> QED
  BY <1>1 DEF Records

LEMMA RowDirSet ==
  ASSUME TypeInv, NEW t \in Task, NEW d, tasks' = [tasks EXCEPT ![t].dir = d]
  PROVE  \A u \in Task : tasks'[u].dir = IF u = t THEN d ELSE tasks[u].dir
<1>1. tasks \in [Task -> Records]
  BY DEF TypeInv, TasksOK
<1> QED
  BY <1>1 DEF Records

LEMMA RowDirSetOnly ==
  ASSUME TypeInv, NEW t \in Task, NEW d, tasks' = [tasks EXCEPT ![t].dir = d]
  PROVE  \A u \in Task : tasks'[u].sprint = tasks[u].sprint
<1>1. tasks \in [Task -> Records]
  BY DEF TypeInv, TasksOK
<1> QED
  BY <1>1 DEF Records

LEMMA FileDirSet ==
  ASSUME TypeInv, NEW t \in Task, NEW d, files' = [files EXCEPT ![t].dir = d]
  PROVE  \A u \in Task : files'[u].dir = IF u = t THEN d ELSE files[u].dir
<1>1. files \in [Task -> Records]
  BY DEF TypeInv, TasksOK
<1> QED
  BY <1>1 DEF Records

\* Steps at labels no path is awaited at, and that write none.
LEMMA QuietPaths ==
  ASSUME TypeInv, PromiseInv, NEW p \in Proc, PathsKnown(p),
         \/ CreateFolder(p) \/ WriteDocument(p) \/ SaveToDB(p) \/ Collect(p)
         \/ WriteFrontmatter(p) \/ ReturnTask(p) \/ ListForSync(p) \/ ForceStatus(p)
         \/ UpdateCurrentFocus(p) \/ Compare(p) \/ ListDrift(p)
  PROVE  PathsKnown(p)'
<1>1. pc[p] \notin Carried \cup Binding \cup Assigning
  BY DEF CreateFolder, WriteDocument, SaveToDB, Collect, WriteFrontmatter, ReturnTask,
         ListForSync, ForceStatus, UpdateCurrentFocus, Compare, ListDrift,
         Carried, Binding, Assigning
<1>2. Fault \/ Works
  BY DEF CreateFolder, WriteDocument, SaveToDB, Collect, WriteFrontmatter, ReturnTask,
         ListForSync, ForceStatus, UpdateCurrentFocus, Compare, ListDrift
<1>3. SameDirs
  <2>1. CASE CreateFolder(p) \/ WriteDocument(p) \/ SaveToDB(p) \/ Collect(p) \/ ListForSync(p)
             \/ UpdateCurrentFocus(p) \/ Compare(p) \/ ListDrift(p)
    <3>1. UNCHANGED <<tasks, files>>
      BY <2>1 DEF CreateFolder, WriteDocument, SaveToDB, Collect, ListForSync,
                  UpdateCurrentFocus, Compare, ListDrift, database, disk
    <3> QED
      BY <3>1 DEF SameDirs
  <2>2. CASE WriteFrontmatter(p)
    BY <2>2, DirsKept DEF WriteFrontmatter, database, SameDirs
  <2>3. CASE ReturnTask(p)
    BY <2>3, DirsKept DEF ReturnTask, disk, SameDirs
  <2>4. CASE ForceStatus(p)
    <3>1. UNCHANGED files /\ (UNCHANGED tasks \/ \E t : tasks' = [tasks EXCEPT ![t].status = "done"])
      BY <2>4 DEF ForceStatus, disk
    <3> QED
      BY <3>1, DirsKept DEF SameDirs
  <2> QED
    BY <2>1, <2>2, <2>3, <2>4
<1> QED
  BY <1>1, <1>2, <1>3, FaultFacts, NoneStray, PathsKept

LEMMA HealDriftPaths ==
  ASSUME TypeInv, NEW p \in Proc, PathsKnown(p), HealDrift(p)
  PROVE  PathsKnown(p)'
<1>1. pc[p] = "heal" /\ UNCHANGED files /\ (Fault \/ Works)
  BY DEF HealDrift, disk
<1>2. UNCHANGED tasks \/ \E e \in job[p].todo : tasks' = [tasks EXCEPT ![e.task].dir = files[e.task].dir]
  BY DEF HealDrift
<1>3. \A t \in Task : tasks'[t].dir \in {tasks[t].dir, files[t].dir}
  <2>1. CASE UNCHANGED tasks
    BY <2>1
  <2>2. ASSUME NEW e \in job[p].todo, tasks' = [tasks EXCEPT ![e.task].dir = files[e.task].dir]
        PROVE  \A t \in Task : tasks'[t].dir \in {tasks[t].dir, files[t].dir}
    <3>1. PICK u \in Task : u = e.task
      BY InHand
    <3>2. PICK d : d = files[u].dir
      OBVIOUS
    <3>3. tasks' = [tasks EXCEPT ![u].dir = d]
      BY <2>2, <3>1, <3>2
    <3>4. \A t \in Task : tasks'[t].dir = IF t = u THEN d ELSE tasks[t].dir
      BY <3>3, RowDirSet, Zenon
    <3> QED
      BY <3>2, <3>4
  <2> QED
    BY <1>2, <2>1, <2>2
<1>4. faults = 0 => \A t \in Task : tasks[t].dir = files[t].dir
  BY <1>1, NoneStray DEF PathsKnown, Carried, Binding, Assigning
<1> QED
  BY <1>1, <1>3, <1>4, FaultFacts DEF PathsKnown

LEMMA CarriedTo ==
  ASSUME TypeInv, NEW t \in Task, FileKept(t), NEW s \in Sprint, NEW from \in Place,
         NEW to \in Place, files' = Carry(s, from, to, FALSE)
  PROVE  files'[t].dir = files[t].dir \/ files'[t].dir = Folder(to, s)
<1> DEFINE g == [files[t] EXCEPT !.dir.place = to, !.dir.deep = @ \/ FALSE]
<1>1. files'[t] = IF files[t].dir.place = from /\ files[t].dir.sprint = s THEN g ELSE files[t]
  BY DEF Carry
<1>2. files[t] \in Records
  BY DEF TypeInv, TasksOK
<1>3. SUFFICES ASSUME files[t].dir.place = from, files[t].dir.sprint = s
               PROVE  g.dir = Folder(to, s)
  BY <1>1
<1>4. files[t].dir.deep = FALSE
  <2>1. Unassigned.deep = FALSE /\ \A l, r : Folder(l, r).deep = FALSE
    BY DEF Folder, Unassigned
  <2> QED
    BY <2>1 DEF FileKept
<1>5. g.dir = [files[t].dir EXCEPT !.place = to, !.deep = files[t].dir.deep \/ FALSE]
  BY <1>2 DEF Records
<1> HIDE DEF g
<1>6. g.dir = [files[t].dir EXCEPT !.place = to, !.deep = FALSE]
  BY <1>4, <1>5, Zenon
<1>7. g.dir.place = to /\ g.dir.sprint = s /\ g.dir.deep = FALSE /\ g.dir \in Dirs
  BY <1>2, <1>3, <1>6 DEF Records, Dirs
<1> QED
  BY <1>7, DirIs

LEMMA MovePaths ==
  ASSUME OneByOne, TypeInv, PromiseInv, NEW p \in Proc, PathsKnown(p), MoveSprint(p)
  PROVE  PathsKnown(p)'
<1>1. /\ pc[p] = "move" /\ UNCHANGED tasks /\ (Fault \/ Works) /\ pc[p] \in OnTheMove
      /\ pc[p] \notin Carried \cup Binding \cup Assigning
  BY DEF MoveSprint, database, OnTheMove, Carried, Binding, Assigning
<1>2. PICK s \in Sprint, from \in Place, to \in Place :
         /\ s = job[p].sprint /\ from = job[p].from /\ to = job[p].to
         /\ Located(s) /\ sprints[s].status = from /\ from # to /\ from # "none"
  <2>1. job[p].from # "none"
    BY <1>1, MoverFacts DEF Place
  <2>2. sprints[job[p].sprint].status = job[p].from /\ <<job[p].from, job[p].to>> \in Moves
    BY <1>1, MoverFacts DEF MoveReady, Before
  <2>3. job[p].from # job[p].to
    BY <2>2, MoveFacts
  <2> QED
    BY <1>1, <2>1, <2>2, <2>3, MoverFacts
<1>3. ~(from \in folders[s] /\ to \in folders[s])
  BY <1>2 DEF Located
<1>4. faults = 0 => \A t \in Task : tasks[t].dir = files[t].dir
  BY <1>1, NoneStray DEF PathsKnown
<1>5. CASE UNCHANGED files
  BY <1>1, <1>4, <1>5, FaultFacts DEF PathsKnown
<1>6. CASE MoveTree(s, from, to) /\ Goto(p, "sweep")
  <2>1. pc'[p] = "sweep" /\ job'[p] = job[p]
    BY <1>6, Now DEF Goto
  <2>2. \A t \in Task : files'[t].dir = files[t].dir \/ files'[t].dir = Folder(to, s)
    BY <1>2, <1>6, CarriedTo DEF MoveTree, PromiseInv, TasksKept
  <2>3. \A t \in Task : files'[t].dir = Folder(to, s) => Strays(p, t)'
    BY <1>2, <2>1 DEF Strays, Carried
  <2> QED
    BY <1>1, <1>4, <2>2, <2>3, FaultFacts DEF PathsKnown
<1> QED
  BY <1>2, <1>3, <1>5, <1>6 DEF MoveSprint

\* No file is in a folder the Sprint is not in.
LEMMA FileInFolder ==
  ASSUME NEW t \in Task, FileKept(t), NEW s \in Sprint, NEW l \in Place,
         files[t].dir.place = l, files[t].dir.sprint = s
  PROVE  l \in folders[s]
  BY DirFacts DEF FileKept, Place

LEMMA SweepPaths ==
  ASSUME OneByOne, TypeInv, PromiseInv, NEW p \in Proc, PathsKnown(p), Sweep(p)
  PROVE  PathsKnown(p)'
<1>1. /\ pc[p] = "sweep" /\ pc'[p] = "stamp" /\ job'[p] = job[p] /\ UNCHANGED <<tasks, faults>>
      /\ pc[p] \in OnTheMove
  BY Now DEF Sweep, Goto, Works, database, OnTheMove
<1>2. PICK s \in Sprint, from \in Place, to \in Place :
         /\ s = job[p].sprint /\ from = job[p].from /\ to = job[p].to
         /\ folders[s] = {to} /\ from # to
  <2>1. job[p].from # job[p].to
    BY <1>1, MoverFacts, MoveFacts DEF MoveReady, Before, Moved
  <2> QED
    BY <1>1, <2>1, MoverFacts DEF MoveReady, Moved
<1>3. \A t \in Task : files'[t] = files[t]
  <2> SUFFICES ASSUME NEW t \in Task, files[t].dir.place = from, files[t].dir.sprint = s
               PROVE  FALSE
    BY <1>2 DEF Sweep
  <2>1. from \in folders[s]
    BY FileInFolder DEF PromiseInv, TasksKept
  <2> QED
    BY <1>2, <2>1
<1>4. \A t \in Task : Strays(p, t) => Strays(p, t)'
  BY <1>1, <1>3 DEF Strays, Carried, Binding, Assigning
<1> QED
  BY <1>1, <1>3, <1>4, PathsKept DEF SameDirs

LEMMA RecordingPaths ==
  ASSUME OneByOne, TypeInv, PromiseInv, NEW p \in Proc, PathsKnown(p), Stamp(p) \/ Record(p)
  PROVE  PathsKnown(p)'
<1>1. pc[p] \in {"stamp", "record"}
  <2>1. MoveReady(p)
    BY DEF PromiseInv, CommandsReady
  <2> QED
    BY <2>1 DEF Stamp, Record, MoveReady
<1>2. /\ UNCHANGED <<tasks, files>> /\ (Fault \/ Works)
      /\ Fault \/ \E l \in {"record", "paths"} : Goto(p, l)
  BY <1>1 DEF Stamp, Record, disk, database
<1>3. CASE Fault
  BY <1>3, FaultFacts, FaultyPaths
<1>4. ASSUME NEW l \in {"record", "paths"}, Goto(p, l), Works PROVE PathsKnown(p)'
  <2>1. pc'[p] \in Carried /\ job'[p] = job[p]
    BY <1>4, Goes DEF Goto, Carried
  <2>2. \A t \in Task : Strays(p, t) => Strays(p, t)'
    BY <1>1, <1>2, <2>1 DEF Strays, Carried, Binding, Assigning
  <2> QED
    BY <1>2, <1>4, <2>2, PathsKept DEF SameDirs, Works
<1> QED
  BY <1>2, <1>3, <1>4

\* Without a fault the folder of a Sprint is where its row says.
LEMMA FolderSettled ==
  ASSUME OneByOne, PromiseInv, NEW p \in Proc, pc[p] \in After, faults = 0,
         NEW s \in Sprint, s = job[p].sprint, job[p].to # "none"
  PROVE  folders[s] = {job[p].to}
<1>1. sprints[s].status = job[p].to /\ Settled(s)
  BY DEF PromiseInv, CommandsReady, MoveReady, SprintsKept
<1>2. \A q \in Proc : pc[q] \notin Moved
  BY DEF OneByOne, Moved, After
<1> QED
  BY <1>1, <1>2 DEF Settled

LEMMA UpdatePathsKept ==
  ASSUME OneByOne, TypeInv, PromiseInv, NEW p \in Proc, PathsKnown(p),
         UpdateTaskPathsForSprint(p)
  PROVE  PathsKnown(p)'
<1>1. /\ pc[p] = "paths" /\ pc'[p] = "list" /\ job'[p] = job[p] /\ UNCHANGED files
      /\ (Fault \/ Works) /\ pc[p] \in OnTheMove /\ pc[p] \in After
  BY Now DEF UpdateTaskPathsForSprint, Goto, disk, OnTheMove, After
<1>2. \A t \in Task : Strays(p, t) => Strays(p, t)'
  BY <1>1 DEF Strays, Carried, Binding, Assigning
<1>3. CASE Fault
  BY <1>3, FaultFacts, FaultyPaths
<1>4. CASE Works
  <2> SUFFICES ASSUME faults = 0, NEW t \in Task, tasks[t].dir = files[t].dir
               PROVE  tasks'[t].dir = files[t].dir \/ Strays(p, t)'
    BY <1>1, <1>2, <1>4 DEF PathsKnown, Works
  <2>1. PICK s \in Sprint, from \in Place, to \in Place :
           s = job[p].sprint /\ from = job[p].from /\ to = job[p].to
    BY <1>1, MoverFacts
  <2>2. folders[s] = {to}
    BY <1>1, <2>1, FolderSettled DEF Place
  <2>3. CASE files[t].dir = Folder(to, s)
    BY <1>1, <2>1, <2>3 DEF Strays, Carried
  <2>4. CASE files[t].dir # Folder(to, s)
    <3>1. ~(files[t].dir.place \in Place /\ files[t].dir.sprint = s)
      <4> SUFFICES ASSUME files[t].dir.place \in Place, files[t].dir.sprint = s PROVE FALSE
        OBVIOUS
      <4>1. FileKept(t)
        BY DEF PromiseInv, TasksKept
      <4>2. files[t].dir.place = to
        BY <2>2, <4>1, FileInFolder
      <4> QED
        BY <2>1, <2>2, <2>4, <4>1, <4>2, DirFacts DEF FileKept, Place
    <3>2. tasks'[t] = IF /\ tasks[t].sprint = s
                         /\ tasks[t].dir.place = from /\ tasks[t].dir.sprint = s
                      THEN [tasks[t] EXCEPT !.dir.place = to] ELSE tasks[t]
      BY <1>4, <2>1, FaultFacts DEF UpdateTaskPathsForSprint
    <3>3. tasks'[t] = tasks[t]
      BY <2>1, <3>1, <3>2
    <3> QED
      BY <3>3
  <2> QED
    BY <2>3, <2>4
<1> QED
  BY <1>1, <1>3, <1>4

LEMMA ListPaths ==
  ASSUME OneByOne, TypeInv, PromiseInv, NEW p \in Proc, PathsKnown(p), ListFiles(p)
  PROVE  PathsKnown(p)'
<1> DEFINE d == Folder(job[p].to, job[p].sprint)
           list == {[task |-> t, dir |-> d] : t \in {u \in Task : files[u].dir = d}}
<1>1. /\ pc[p] = "list" /\ pc'[p] = "bind" /\ job'[p] = [job[p] EXCEPT !.todo = list]
      /\ UNCHANGED <<tasks, files, faults>>
  BY Now DEF ListFiles, Works, database, disk
<1>2. job'[p].todo = list
  BY <1>1, InHand DEF Job
<1>3. ASSUME NEW t \in Task, Strays(p, t) PROVE Strays(p, t)'
  <2>1. files[t].dir = d
    BY <1>1, <1>3 DEF Strays, Binding, Assigning
  <2>2. [task |-> t, dir |-> d] \in job'[p].todo /\ [task |-> t, dir |-> d].task = t
    BY <1>2, <2>1
  <2> HIDE DEF d
  <2> QED
    BY <1>1, <2>2 DEF Strays, Binding
<1> QED
  BY <1>1, <1>3, PathsKept DEF SameDirs

LEMMA BindPaths ==
  ASSUME OneByOne, TypeInv, PromiseInv, NEW p \in Proc, PathsKnown(p), Bind(p)
  PROVE  PathsKnown(p)'
<1>1. pc[p] = "bind" /\ UNCHANGED <<tasks, files, faults>>
  BY DEF Bind, Works, database, disk
<1>2. \A t \in Task : Strays(p, t) => \E e \in job[p].todo : e.task = t
  BY <1>1 DEF Strays, Carried, Assigning
<1>3. CASE job[p].todo = {}
  BY <1>1, <1>2, <1>3, PathsKept DEF SameDirs
<1>4. ASSUME NEW e \in job[p].todo,
             IF files[e.task].dir = e.dir
             THEN Continue(p, "bind-sprint", [Rest(p, e) EXCEPT !.task = e.task])
             ELSE Continue(p, "bind", Rest(p, e))
      PROVE  PathsKnown(p)'
  <2>1. files[e.task].dir = e.dir
    <3>1. BindReady(p)
      BY DEF PromiseInv, CommandsReady
    <3> QED
      BY <1>1, <1>4, <3>1 DEF BindReady, Binding
  <2>2. pc'[p] = "bind-sprint" /\ job'[p] = [Rest(p, e) EXCEPT !.task = e.task]
    BY <1>4, <2>1, Now
  <2>3. job'[p].todo = job[p].todo \ {e} /\ job'[p].task = e.task
    BY <2>2, InHand DEF Rest, Job
  <2>4. \A t \in Task : Strays(p, t) => Strays(p, t)'
    BY <1>2, <2>2, <2>3 DEF Strays, Binding
  <2> QED
    BY <1>1, <2>4, PathsKept DEF SameDirs
<1> QED
  BY <1>3, <1>4 DEF Bind

LEMMA BindSprintPaths ==
  ASSUME OneByOne, TypeInv, PromiseInv, NEW p \in Proc, PathsKnown(p), BindSprint(p)
  PROVE  PathsKnown(p)' /\ (Works => files'[job'[p].task].dir =
                                      Folder(job'[p].to, job'[p].sprint))
<1>1. pc[p] = "bind-sprint" /\ UNCHANGED files /\ (Fault \/ Works) /\ SameDirs
  BY DirsKept DEF BindSprint, disk, SameDirs
<1>2. CASE Fault
  BY <1>2, FaultFacts, FaultyPaths
<1>3. CASE Works
  <2>1. pc'[p] = "bind-path" /\ job'[p] = job[p]
    BY <1>3, Now, FaultFacts DEF BindSprint, Goto
  <2>2. files[job[p].task].dir = Folder(job[p].to, job[p].sprint)
    BY <1>1 DEF PromiseInv, CommandsReady, BindReady
  <2>3. \A t \in Task : Strays(p, t) => Strays(p, t)'
    BY <1>1, <2>1 DEF Strays, Carried, Binding, Assigning
  <2> QED
    BY <1>1, <1>3, <2>1, <2>2, <2>3, PathsKept DEF Works
<1> QED
  BY <1>1, <1>2, <1>3, FaultFacts

LEMMA BindPathPaths ==
  ASSUME OneByOne, TypeInv, PromiseInv, NEW p \in Proc, PathsKnown(p), HealHeld(p), BindPath(p)
  PROVE  PathsKnown(p)'
<1>1. pc[p] = "bind-path" /\ UNCHANGED files /\ (Fault \/ Works) /\ pc'[p] = "bind" /\ job'[p] = job[p]
  BY Now DEF BindPath, disk, Goto
<1>2. CASE Fault
  BY <1>2, FaultFacts, FaultyPaths
<1>3. CASE Works
  <2>0. PICK d : d = Folder(job[p].to, job[p].sprint)
    OBVIOUS
  <2>1. PICK u \in Task : u = job[p].task /\ d = Folder(job[p].to, job[p].sprint)
    BY <1>1, <2>0, InHand DEF JobOK
  <2>2. files[u].dir = d
    BY <1>1, <2>1 DEF HealHeld
  <2>3. tasks' = [tasks EXCEPT ![u].dir = d]
    BY <1>3, <2>1, FaultFacts DEF BindPath
  <2>4. \A t \in Task : tasks'[t].dir = IF t = u THEN d ELSE tasks[t].dir
    BY <2>3, RowDirSet, Zenon
  <2>5. \A t \in Task : t # u /\ Strays(p, t) => Strays(p, t)'
    BY <1>1, <2>1 DEF Strays, Carried, Binding, Assigning
  <2> QED
    BY <1>1, <1>3, <2>2, <2>4, <2>5 DEF PathsKnown, Works
<1> QED
  BY <1>1, <1>2, <1>3

\* Amid an assignment the path of its Task alone is awaited.
LEMMA AssignPathsKept ==
  ASSUME NEW p \in Proc, PathsKnown(p), pc[p] \in Assigning, faults' = 0 => faults = 0,
         pc'[p] \in Assigning, job'[p].task = job[p].task,
         \A t \in Task : t # job[p].task =>
            tasks'[t].dir = tasks[t].dir /\ files'[t].dir = files[t].dir
  PROVE  PathsKnown(p)'
<1> SUFFICES ASSUME faults = 0, NEW t \in Task
             PROVE  tasks'[t].dir = files'[t].dir \/ Strays(p, t)'
  BY DEF PathsKnown
<1>1. CASE t = job[p].task
  BY <1>1 DEF Strays
<1>2. CASE t # job[p].task
  <2>1. ~Strays(p, t)
    BY <1>2 DEF Strays, Carried, Binding, Assigning
  <2> QED
    BY <1>2, <2>1 DEF PathsKnown
<1> QED
  BY <1>1, <1>2

LEMMA AssigningPaths ==
  ASSUME TypeInv, PromiseInv, NEW p \in Proc, PathsKnown(p),
         \/ Rename(p) \/ Tag(p) \/ List(p) \/ EditRow(p) \/ SetSprint(p) \/ SetPath(p)
         \/ DropRow(p) \/ Relist(p) \/ Untag(p) \/ PutBack(p)
  PROVE  PathsKnown(p)'
<1>1. pc[p] \in Assigning /\ (Fault \/ Works)
  BY DEF Rename, Tag, List, EditRow, SetSprint, SetPath, DropRow, Relist, Untag, PutBack,
         Assigning
<1>2. PICK t \in Task : t = job[p].task
  BY <1>1, AssignFacts
<1>3. AssignReady(p)
  BY <1>1, AssignFacts
<1>4. CASE faults' # 0
  BY <1>4, FaultyPaths
<1>5. ASSUME faults' = 0 PROVE PathsKnown(p)'
  <2>1. Works /\ ~Fault /\ faults = 0
    BY <1>1, <1>5, FaultFacts
  <2>2. pc[p] \notin Undoing
    BY <1>3, <2>1 DEF AssignReady
  <2>3. ASSUME NEW l \in Assigning, Goto(p, l)
        PROVE  pc'[p] \in Assigning /\ job'[p].task = t
    BY <1>2, <2>3, Now DEF Goto, Assigning
  <2>4. ASSUME NEW l \in Assigning, NEW c, Continue(p, l, Achieved(p, c))
        PROVE  pc'[p] \in Assigning /\ job'[p].task = t
    <3>1. pc'[p] = l /\ job'[p] = Achieved(p, c)
      BY <2>4, Now DEF Assigning
    <3> QED
      BY <1>2, <2>4, <3>1, SameTaskUpdates DEF SameTask
  <2>5. CASE Rename(p)
    <3>1. files[t].dir = job[p].old
      BY <1>2, <1>3, <2>5 DEF AssignReady, Rename
    <3>2. /\ Goto(p, "tag") /\ UNCHANGED tasks
          /\ files' = [files EXCEPT ![t].dir = New(p)]
      BY <1>2, <2>1, <2>5, <3>1 DEF Rename, database
    <3>3. \A u \in Task : u # t => files'[u].dir = files[u].dir
      <4>1. PICK d : files' = [files EXCEPT ![t].dir = d]
        BY <3>2
      <4>2. \A u \in Task : files'[u].dir = IF u = t THEN d ELSE files[u].dir
        BY <4>1, FileDirSet, Zenon
      <4> QED
        BY <4>2
    <3>4. "tag" \in Assigning
      BY DEF Assigning
    <3> QED
      BY <1>1, <1>2, <2>1, <2>3, <3>2, <3>3, <3>4, AssignPathsKept
  <2>6. CASE Tag(p)
    <3>1. files[t].dir = New(p)
      BY <1>2, <1>3, <2>6 DEF AssignReady, Tag, Placed
    <3>2. /\ Continue(p, IF job[p].cmd = "assign" THEN "unlist" ELSE "row", Achieved(p, "tag"))
          /\ UNCHANGED tasks /\ files' = [files EXCEPT ![t].sprint = New(p).sprint]
      BY <1>2, <2>1, <2>6, <3>1 DEF Tag, database
    <3>3. \A u \in Task : files'[u].dir = files[u].dir
      BY <3>2, DirsKept
    <3>4. pc'[p] \in Assigning /\ job'[p].task = t
      BY <2>4, <3>2 DEF Assigning
    <3> QED
      BY <1>1, <1>2, <2>1, <3>2, <3>3, <3>4, AssignPathsKept
  <2>7. CASE List(p) \/ EditRow(p)
    <3>1. UNCHANGED <<tasks, files>>
      BY <2>7 DEF List, EditRow, database
    <3>2. \E l \in Assigning : Continue(p, l, Achieved(p, "unlist"))
                               \/ Continue(p, l, Achieved(p, "row"))
      BY <2>1, <2>7 DEF List, EditRow, Assigning
    <3>3. pc'[p] \in Assigning /\ job'[p].task = t
      BY <2>4, <3>2
    <3> QED
      BY <1>1, <1>2, <2>1, <3>1, <3>3, AssignPathsKept
  <2>8. CASE SetSprint(p)
    <3>1. /\ Goto(p, "set-path") /\ UNCHANGED files
          /\ tasks' = [tasks EXCEPT ![t].sprint = New(p).sprint]
      BY <1>2, <2>1, <2>8 DEF SetSprint, disk
    <3>2. \A u \in Task : tasks'[u].dir = tasks[u].dir
      BY <3>1, DirsKept
    <3>3. "set-path" \in Assigning
      BY DEF Assigning
    <3> QED
      BY <1>1, <1>2, <2>1, <2>3, <3>1, <3>2, <3>3, AssignPathsKept
  <2>9. CASE SetPath(p)
    <3>1. PICK d : d = New(p)
      OBVIOUS
    <3>2. files[t].dir = d
      BY <1>2, <1>3, <2>9, <3>1 DEF AssignReady, SetPath, Placed
    <3>3. tasks' = [tasks EXCEPT ![t].dir = d]
      BY <1>2, <2>1, <2>9, <3>1 DEF SetPath
    <3>4. \A u \in Task : tasks'[u].dir = IF u = t THEN d ELSE tasks[u].dir
      BY <3>3, RowDirSet, Zenon
    <3>5. \A u \in Task : u # t => ~Strays(p, u)
      BY <1>1, <1>2 DEF Strays, Carried, Binding, Assigning
    <3>6. UNCHANGED files
      BY <2>9 DEF SetPath, disk
    <3> QED
      BY <2>1, <3>2, <3>4, <3>5, <3>6 DEF PathsKnown
  <2> QED
    BY <2>2, <2>5, <2>6, <2>7, <2>8, <2>9 DEF DropRow, Relist, Untag, PutBack, Undoing
<1> QED
  BY <1>4, <1>5

LEMMA BeginPaths ==
  ASSUME TypeInv, NEW p \in Proc, PathsKnown(p), Begin(p)
  PROVE  PathsKnown(p)'
<1>1. pc[p] = "idle" /\ UNCHANGED <<files, faults>>
  BY DEF Begin, SprintCreate, SprintStart, SprintComplete, SprintDiscard, SprintUpdate,
         SprintReconcile, TaskAssign, TaskUnassign, BeginCreate, BeginStart, BeginComplete,
         BeginDiscard, BeginUpdate, BeginReconcile, BeginAssign, BeginUnassign, Starts, disk
<1>2. \A t \in Task : ~Strays(p, t)
  BY <1>1, NoneStray DEF Carried, Binding, Assigning
<1>3. UNCHANGED tasks \/ \E t \in Task : tasks' = [tasks EXCEPT ![t].dir = files[t].dir]
  BY DEF Begin, SprintCreate, SprintStart, SprintComplete, SprintDiscard, SprintUpdate,
         SprintReconcile, TaskAssign, TaskUnassign, BeginCreate, BeginStart, BeginComplete,
         BeginDiscard, BeginUpdate, BeginReconcile, BeginAssign, BeginUnassign,
         ResolveTaskPath, database
<1>4. CASE UNCHANGED tasks
  BY <1>1, <1>2, <1>4, PathsKept DEF SameDirs
<1>5. ASSUME NEW t \in Task, tasks' = [tasks EXCEPT ![t].dir = files[t].dir]
      PROVE  PathsKnown(p)'
  <2>1. PICK d : d = files[t].dir
    OBVIOUS
  <2>2. tasks' = [tasks EXCEPT ![t].dir = d]
    BY <1>5, <2>1
  <2>3. \A u \in Task : tasks'[u].dir = IF u = t THEN d ELSE tasks[u].dir
    BY <2>2, RowDirSet, Zenon
  <2> QED
    BY <1>1, <1>2, <2>1, <2>3 DEF PathsKnown
<1> QED
  BY <1>3, <1>4, <1>5

LEMMA ProgressDirs ==
  ASSUME TypeInv, NEW t \in Task, Progress(t)
  PROVE  /\ \A u \in Task : /\ tasks'[u].dir = IF u = t THEN files[t].dir ELSE tasks[u].dir
                            /\ tasks'[u].sprint = tasks[u].sprint
                            /\ files'[u].dir = files[u].dir
         /\ UNCHANGED <<sprints, folders, pc, job, faults>>
<1>1. tasks \in [Task -> Records] /\ files \in [Task -> Records]
  BY DEF TypeInv, TasksOK
<1>2. PICK st, d : /\ d = files[t].dir
                   /\ tasks' = [tasks EXCEPT ![t].status = st, ![t].dir = d]
                   /\ files' = [files EXCEPT ![t].status = st]
  BY DEF Progress
<1>3. \A u \in Task : /\ tasks'[u].dir = IF u = t THEN d ELSE tasks[u].dir
                      /\ tasks'[u].sprint = tasks[u].sprint
                      /\ files'[u].dir = files[u].dir
  BY <1>1, <1>2 DEF Records
<1> QED
  BY <1>2, <1>3 DEF Progress, control

LEMMA ProgressPaths ==
  ASSUME TypeInv, NEW p \in Proc, PathsKnown(p), NEW t \in Task, Progress(t)
  PROVE  PathsKnown(p)'
<1>1. \A u \in Task : Strays(p, u) => Strays(p, u)'
  BY ProgressDirs DEF Strays
<1> QED
  BY <1>1, ProgressDirs DEF PathsKnown

LEMMA StepPaths ==
  ASSUME OneByOne, TypeInv, PromiseInv, NEW p \in Proc, PathsKnown(p), HealHeld(p), Step(p)
  PROVE  PathsKnown(p)'
<1>1. CASE \/ CreateFolder(p) \/ WriteDocument(p) \/ SaveToDB(p) \/ Collect(p)
           \/ WriteFrontmatter(p) \/ ReturnTask(p) \/ ListForSync(p) \/ ForceStatus(p)
           \/ UpdateCurrentFocus(p) \/ Compare(p) \/ ListDrift(p)
  BY <1>1, QuietPaths
<1>2. CASE MoveSprint(p) \/ Sweep(p) \/ Stamp(p) \/ Record(p) \/ UpdateTaskPathsForSprint(p)
  BY <1>2, MovePaths, SweepPaths, RecordingPaths, UpdatePathsKept
<1>3. CASE ListFiles(p) \/ Bind(p) \/ BindSprint(p) \/ BindPath(p) \/ HealDrift(p)
  BY <1>3, ListPaths, BindPaths, BindSprintPaths, BindPathPaths, HealDriftPaths
<1>4. CASE \/ Rename(p) \/ Tag(p) \/ List(p) \/ EditRow(p) \/ SetSprint(p) \/ SetPath(p)
           \/ DropRow(p) \/ Relist(p) \/ Untag(p) \/ PutBack(p)
  BY <1>4, AssigningPaths
<1> QED
  BY <1>1, <1>2, <1>3, <1>4 DEF Step

\* Only reconcile comes to its labels, and no other command is one.
LEMMA OthersHeal ==
  ASSUME TypeInv, TypeInv', NEW p \in Proc, Step(p), pc[p] \notin {"compare", "drift", "heal"}
  PROVE  (pc'[p] = "idle" /\ job'[p] = NoJob) \/ job'[p].cmd # "reconcile"
<1>1. ASSUME NEW l, NEW j, Continue(p, l, j) PROVE pc'[p] = l
  BY <1>1, Goes
<1>2. /\ pc'[p] \notin {"compare", "drift", "heal"}
      /\ pc'[p] = "save" => WriteDocument(p)
  <2>1. CASE CreateFolder(p) \/ WriteDocument(p) \/ SaveToDB(p) \/ Collect(p)
             \/ WriteFrontmatter(p) \/ ReturnTask(p)
    BY <1>1, <2>1 DEF CreateFolder, WriteDocument, SaveToDB, Collect, WriteFrontmatter,
                      ReturnTask, Return, Goto
  <2>2. CASE MoveSprint(p) \/ Sweep(p) \/ Stamp(p) \/ Record(p)
             \/ UpdateTaskPathsForSprint(p) \/ ListFiles(p)
    BY <1>1, <2>2 DEF MoveSprint, Sweep, Stamp, Record, UpdateTaskPathsForSprint,
                      ListFiles, Return, Goto
  <2>3. CASE Bind(p) \/ BindSprint(p) \/ BindPath(p) \/ ListForSync(p) \/ ForceStatus(p)
             \/ UpdateCurrentFocus(p)
    BY <1>1, <2>3 DEF Bind, BindSprint, BindPath, ListForSync, ForceStatus,
                      UpdateCurrentFocus, Return, Goto
  <2>4. CASE Rename(p) \/ Tag(p) \/ List(p) \/ EditRow(p) \/ SetSprint(p)
    BY <1>1, <2>4 DEF Rename, Tag, List, EditRow, SetSprint, Recovers, Return, Goto
  <2>5. CASE SetPath(p) \/ DropRow(p) \/ Relist(p) \/ Untag(p) \/ PutBack(p)
    BY <1>1, <2>5 DEF SetPath, DropRow, Relist, Untag, PutBack, Recovers, Return, Goto
  <2> QED
    BY <2>1, <2>2, <2>3, <2>4, <2>5 DEF Step, Compare, ListDrift, HealDrift
<1>3. \E l, j : Continue(p, l, j)
  BY DEF Step, CreateFolder, WriteDocument, SaveToDB, Collect, WriteFrontmatter,
         ReturnTask, MoveSprint, Sweep, Stamp, Record, UpdateTaskPathsForSprint,
         ListFiles, Bind, BindSprint, BindPath, ListForSync, ForceStatus,
         UpdateCurrentFocus, Compare, ListDrift, HealDrift, Rename, Tag, List, EditRow,
         SetSprint, SetPath, DropRow, Relist, Untag, PutBack, Return, Goto
<1>4. pc'[p] = "save" => job'[p].cmd = "create"
  <2> SUFFICES ASSUME pc'[p] = "save" PROVE job'[p].cmd = "create"
    OBVIOUS
  <2>1. job[p].cmd = "create" /\ (Goto(p, "save") \/ Goto(p, "idle"))
    BY <1>2, InHand DEF WriteDocument, JobOK, Return
  <2> QED
    BY <2>1, Goes DEF Goto
<1>5. JobOK(pc[p], job[p])' /\ pc'[p] \in Label
  BY DEF TypeInv, ControlOK
<1>6. CASE pc'[p] = "idle"
  BY <1>3, <1>6, Goes
<1>7. CASE pc'[p] # "idle"
  BY <1>2, <1>4, <1>5, <1>7 DEF JobOK, Label, OnTheMove, Assigning, Movers
<1> QED
  BY <1>6, <1>7

LEMMA BeginHeals ==
  ASSUME TypeInv, TypeInv', NEW p \in Proc, Begin(p)
  PROVE  HealHeld(p)' /\ pc'[p] # "idle"
<1>1. ASSUME NEW l, NEW j, Continue(p, l, j), l # "idle" PROVE pc'[p] = l /\ job'[p] = j
  BY <1>1, Now
<1>2. CASE SprintReconcile(p)
  <2>1. PICK s \in Sprint, l \in Place :
          Continue(p, "compare", [Issue(p, "reconcile", s, NoTask) EXCEPT
                                    !.row = [status |-> l, folder |-> l]])
    BY <1>2 DEF SprintReconcile, BeginReconcile
  <2>2. pc'[p] = "compare" /\ job'[p] = [Issue(p, "reconcile", s, NoTask) EXCEPT
                                           !.row = [status |-> l, folder |-> l]]
    BY <1>1, <2>1
  <2>3. Issue(p, "reconcile", s, NoTask) \in Job
    BY JobIssue DEF AllCommands
  <2>4. job'[p].row = [status |-> l, folder |-> l]
    BY <2>2, <2>3 DEF Job
  <2> QED
    BY <2>2, <2>4 DEF HealHeld, Healing
<1>3. ASSUME pc'[p] \notin Healing, pc'[p] # "bind-path", pc'[p] # "idle" PROVE HealHeld(p)'
  <2>1. JobOK(pc[p], job[p])' /\ pc'[p] \in Label
    BY DEF TypeInv, ControlOK
  <2>2. job'[p].cmd # "reconcile"
    BY <1>3, <2>1 DEF JobOK, Label, OnTheMove, Assigning, Movers, Healing
  <2> QED
    BY <1>3, <2>2 DEF HealHeld
<1>4. CASE SprintUpdate(p)
  <2>1. PICK s \in Sprint, cmd \in {"update", "force"}, r \in Rows :
          Continue(p, "save", [Issue(p, cmd, s, NoTask) EXCEPT !.row = r])
    <3>1. PICK s \in Sprint : BeginUpdate(p, s)
      BY <1>4 DEF SprintUpdate
    <3>2. sprints[s] \in Rows /\ \A st \in Status : [sprints[s] EXCEPT !.status = st] \in Rows
      <4>1. sprints[s] \in Rows
        BY InHand
      <4> QED
        BY <4>1 DEF Rows
    <3> QED
      BY <3>1, <3>2 DEF BeginUpdate
  <2>2. pc'[p] = "save" /\ job'[p] = [Issue(p, cmd, s, NoTask) EXCEPT !.row = r]
    BY <1>1, <2>1
  <2>3. Issue(p, cmd, s, NoTask) \in Job /\ Issue(p, cmd, s, NoTask).cmd = cmd
    BY JobIssue DEF AllCommands
  <2>4. job'[p].cmd = cmd
    BY <2>2, <2>3 DEF Job
  <2> QED
    BY <2>1, <2>2, <2>4 DEF HealHeld
<1>5. CASE ~SprintReconcile(p) /\ ~SprintUpdate(p)
  <2>1. pc'[p] \in {"folder", "move", "collect", "db-only", "rename"}
    BY <1>1, <1>5
    DEF Begin, SprintCreate, SprintStart, SprintComplete, SprintDiscard, TaskAssign,
        TaskUnassign, BeginCreate, BeginStart, BeginComplete, BeginDiscard, BeginAssign,
        BeginUnassign
  <2> QED
    BY <1>3, <2>1 DEF Healing
<1> QED
  BY <1>2, <1>4, <1>5

LEMMA NotHealing ==
  ASSUME NEW p \in Proc, Step(p), ~(Compare(p) \/ ListDrift(p) \/ HealDrift(p))
  PROVE  pc[p] \notin {"compare", "drift", "heal"}
  BY DEF Step, CreateFolder, WriteDocument, SaveToDB, Collect, WriteFrontmatter,
         ReturnTask, MoveSprint, Sweep, Stamp, Record, UpdateTaskPathsForSprint,
         ListFiles, Bind, BindSprint, BindPath, ListForSync, ForceStatus,
         UpdateCurrentFocus, Rename, Tag, List, EditRow,
         SetSprint, SetPath, DropRow, Relist, Untag, PutBack

LEMMA NotToBindPath ==
  ASSUME TypeInv, NEW p \in Proc, Step(p), ~BindSprint(p),
         ~(Compare(p) \/ ListDrift(p) \/ HealDrift(p))
  PROVE  pc'[p] # "bind-path"
<1>1. ASSUME NEW l, NEW j, Continue(p, l, j) PROVE pc'[p] = l
  BY <1>1, Goes
<1>2. CASE CreateFolder(p) \/ WriteDocument(p) \/ SaveToDB(p) \/ Collect(p)
           \/ WriteFrontmatter(p) \/ ReturnTask(p)
  BY <1>1, <1>2 DEF CreateFolder, WriteDocument, SaveToDB, Collect, WriteFrontmatter,
                    ReturnTask, Return, Goto
<1>3. CASE MoveSprint(p) \/ Sweep(p) \/ Stamp(p) \/ Record(p)
           \/ UpdateTaskPathsForSprint(p) \/ ListFiles(p)
  BY <1>1, <1>3 DEF MoveSprint, Sweep, Stamp, Record, UpdateTaskPathsForSprint,
                    ListFiles, Return, Goto
<1>4. CASE Bind(p) \/ BindPath(p) \/ ListForSync(p) \/ ForceStatus(p)
           \/ UpdateCurrentFocus(p)
  BY <1>1, <1>4 DEF Bind, BindPath, ListForSync, ForceStatus, UpdateCurrentFocus,
                    Return, Goto
<1>5. CASE Rename(p) \/ Tag(p) \/ List(p) \/ EditRow(p) \/ SetSprint(p)
  BY <1>1, <1>5 DEF Rename, Tag, List, EditRow, SetSprint, Recovers, Return, Goto
<1>6. CASE SetPath(p) \/ DropRow(p) \/ Relist(p) \/ Untag(p) \/ PutBack(p)
  BY <1>1, <1>6 DEF SetPath, DropRow, Relist, Untag, PutBack, Recovers, Return, Goto
<1> QED
  BY <1>2, <1>3, <1>4, <1>5, <1>6 DEF Step

LEMMA MemberFindable ==
  ASSUME PromiseInv, NEW t \in Task, NEW s \in Sprint, tasks[t].sprint = s
  PROVE  Findable(t, s)
<1>1. FileKept(t) /\ s # NoSprint
  BY SprintAssumption DEF PromiseInv, TasksKept
<1>2. CASE files[t].dir = Unassigned
  BY <1>2 DEF Findable
<1>3. ASSUME NEW r \in Sprint, NEW l \in Place, files[t].dir = Folder(l, r),
             files[t].dir # Unassigned
      PROVE  Findable(t, s)
  <2>1. r = s
    BY <1>1, <1>3, DirFacts DEF FileKept
  <2> QED
    BY <1>3, <2>1 DEF Findable
<1> QED
  BY <1>1, <1>2, <1>3 DEF FileKept

LEMMA NoneStrayed ==
  ASSUME TypeInv, NEW p \in Proc, PathsKnown(p), pc[p] \in {"drift", "heal"}, MaxFaults <= 1,
         Fault
  PROVE  \A t \in Task : tasks[t].dir = files[t].dir
<1>1. faults = 0
  BY SprintAssumption DEF Fault, TypeInv, ControlOK
<1> QED
  BY <1>1, NoneStray DEF PathsKnown, Carried, Binding, Assigning

LEMMA HealingHeld ==
  ASSUME TypeInv, PromiseInv, MaxFaults <= 1, NEW p \in Proc, PathsKnown(p), HealHeld(p),
         Compare(p) \/ ListDrift(p) \/ HealDrift(p)
  PROVE  HealHeld(p)'
<1>1. /\ job[p].cmd = "reconcile" /\ job[p] \in Job
      /\ pc[p] \in {"compare", "drift", "heal"} /\ pc[p] # "idle"
  BY InHand DEF Compare, ListDrift, HealDrift, JobOK
<1>2. PICK s \in Sprint : s = job[p].sprint
  BY <1>1, InHand
<1>3. /\ job[p].row.folder = job[p].row.status
      /\ pc[p] \in {"drift", "heal"} /\ job[p].to = "none" => sprints[s] = job[p].row
      /\ pc[p] = "heal" => \A t \in Task : tasks[t].sprint = s => Healed(p, t)
  BY <1>1, <1>2 DEF HealHeld
<1>4. UNCHANGED <<sprints, files>>
  BY DEF Compare, ListDrift, HealDrift, database, disk
<1>5. CASE Compare(p)
  <2> DEFINE to == IF sprints[s] = job[p].row THEN "none" ELSE job[p].row.status
  <2>1. pc'[p] = "drift" /\ job'[p] = [job[p] EXCEPT !.to = to]
    BY <1>2, <1>5, Now DEF Compare
  <2>2. HasDoc(s, job[p].row.status) /\ job[p].row.status \in Place
    BY <1>1, <1>2 DEF PromiseInv, CommandsReady, SaveReady
  <2>3. to = "none" => sprints[s] = job[p].row
    BY <2>2 DEF Place
  <2> HIDE DEF to
  <2>4. /\ job'[p].row = job[p].row /\ job'[p].to = to /\ job'[p].sprint = s
    BY <1>1, <1>2, <2>1 DEF Job
  <2> QED
    BY <1>3, <1>4, <2>1, <2>3, <2>4 DEF HealHeld, Healing
<1>6. CASE ListDrift(p)
  <2>1. PICK todo : /\ Continue(p, "heal", [job[p] EXCEPT !.todo = todo])
                    /\ \/ todo = {Entry(t) : t \in {u \in Task : tasks[u].sprint = s}}
                       \/ Fault
    BY <1>2, <1>6 DEF ListDrift
  <2>2. pc'[p] = "heal" /\ job'[p] = [job[p] EXCEPT !.todo = todo] /\ UNCHANGED tasks
    BY <1>6, <2>1, Now DEF ListDrift, database
  <2>3. /\ job'[p].row = job[p].row /\ job'[p].to = job[p].to /\ job'[p].sprint = s
        /\ job'[p].todo = todo
    BY <1>1, <1>2, <2>2 DEF Job
  <2>4. ASSUME NEW t \in Task, tasks'[t].sprint = s PROVE Healed(p, t)'
    <3>1. CASE Fault
      BY <1>1, <1>4, <1>6, <2>2, <3>1, NoneStrayed DEF Healed, ListDrift
    <3>2. CASE todo = {Entry(u) : u \in {v \in Task : tasks[v].sprint = s}}
      <4>1. Entry(t) \in todo
        BY <2>2, <2>4, <3>2
      <4>2. Entry(t).task = t /\ Entry(t).dir = tasks[t].dir
        BY DEF Entry
      <4> QED
        BY <2>2, <2>3, <4>1, <4>2 DEF Healed
    <3> QED
      BY <2>1, <3>1, <3>2
  <2>5. pc[p] = "drift"
    BY <1>6 DEF ListDrift
  <2> QED
    BY <1>3, <1>4, <2>2, <2>3, <2>4, <2>5 DEF HealHeld, Healing
<1>7. CASE HealDrift(p)
  <2>0. pc[p] = "heal"
    BY <1>7 DEF HealDrift
  <2>1. CASE job[p].todo = {} /\ UNCHANGED tasks
             /\ Goto(p, IF job[p].to = "none" THEN "idle" ELSE "save")
    <3>1. PICK l : l = (IF job[p].to = "none" THEN "idle" ELSE "save") /\ Continue(p, l, job[p])
      BY <2>1 DEF Goto
    <3>2. CASE l = "idle"
      <4>1. pc'[p] = "idle" /\ job'[p] = NoJob
        BY <3>1, <3>2, Goes
      <4> QED
        BY <4>1 DEF NoJob, HealHeld
    <3>3. CASE l = "save"
      <4>1. pc'[p] = "save" /\ job'[p] = job[p]
        BY <3>1, <3>3, Now
      <4>2. ASSUME NEW t \in Task, tasks'[t].sprint = s PROVE Healed(p, t)'
        <5>1. tasks[t].dir = files[t].dir
          BY <1>3, <2>0, <2>1, <4>2 DEF Healed
        <5> QED
          BY <1>4, <2>1, <5>1 DEF Healed
      <4> QED
        BY <1>2, <1>3, <4>1, <4>2 DEF HealHeld, Healing
    <3> QED
      BY <3>1, <3>2, <3>3
  <2>2. ASSUME NEW e \in job[p].todo, Continue(p, "heal", Rest(p, e)),
               \/ tasks' = IF files[e.task].dir # e.dir /\ Findable(e.task, s)
                           THEN [tasks EXCEPT ![e.task].dir = files[e.task].dir] ELSE tasks
               \/ Fault /\ UNCHANGED tasks
        PROVE  HealHeld(p)'
    <3>1. pc'[p] = "heal" /\ job'[p] = [job[p] EXCEPT !.todo = job[p].todo \ {e}]
      BY <2>2, Now DEF Rest
    <3>2. /\ job'[p].row = job[p].row /\ job'[p].to = job[p].to /\ job'[p].sprint = s
          /\ job'[p].todo = job[p].todo \ {e}
      BY <1>1, <1>2, <3>1 DEF Job
    <3>3. PICK u \in Task : u = e.task
      BY InHand
    <3>4. /\ \A t \in Task : tasks'[t].sprint = tasks[t].sprint
          /\ \/ files[u].dir # e.dir /\ Findable(u, s)
                /\ \A t \in Task : tasks'[t].dir = IF t = u THEN files[u].dir ELSE tasks[t].dir
             \/ (files[u].dir = e.dir \/ ~Findable(u, s) \/ Fault) /\ UNCHANGED tasks
      <4>1. CASE files[u].dir # e.dir /\ Findable(u, s)
                 /\ tasks' = [tasks EXCEPT ![u].dir = files[u].dir]
        <5>1. PICK d : d = files[u].dir
          OBVIOUS
        <5>2. tasks' = [tasks EXCEPT ![u].dir = d]
          BY <4>1, <5>1
        <5>3. \A t \in Task : tasks'[t].dir = IF t = u THEN d ELSE tasks[t].dir
          BY <5>2, RowDirSet, Zenon
        <5>4. \A t \in Task : tasks'[t].sprint = tasks[t].sprint
          BY <5>2, RowDirSetOnly, Zenon
        <5> QED
          BY <4>1, <5>1, <5>3, <5>4
      <4> QED
        BY <2>2, <3>3, <4>1
    <3>5. ASSUME NEW t \in Task, tasks'[t].sprint = s PROVE Healed(p, t)'
      <4>1. tasks[t].sprint = s /\ Healed(p, t) /\ Findable(t, s)
        BY <1>3, <2>0, <3>4, <3>5, MemberFindable
      <4>2. CASE tasks[t].dir = files[t].dir
        BY <1>4, <3>4, <4>2 DEF Healed
      <4>3. ASSUME NEW f \in job[p].todo, f.task = t, f.dir = tasks[t].dir, f # e
            PROVE  Healed(p, t)'
        <5>1. f \in job'[p].todo
          BY <3>2, <4>3
        <5>2. tasks'[t].dir = tasks[t].dir \/ tasks'[t].dir = files'[t].dir
          BY <1>4, <3>4
        <5> QED
          BY <3>1, <4>3, <5>1, <5>2 DEF Healed
      <4>4. CASE e.task = t /\ e.dir = tasks[t].dir
        <5>1. Fault => tasks[t].dir = files[t].dir
          BY <1>1, <2>0, NoneStrayed
        <5> QED
          BY <1>4, <3>3, <3>4, <4>1, <4>2, <4>4, <5>1 DEF Healed
      <4> QED
        BY <4>1, <4>2, <4>3, <4>4 DEF Healed
    <3> QED
      BY <1>3, <1>4, <2>0, <3>1, <3>2, <3>5 DEF HealHeld, Healing
  <2> QED
    BY <1>2, <1>7, <2>1, <2>2 DEF HealDrift
<1> QED
  BY <1>5, <1>6, <1>7

LEMMA ProgressHeals ==
  ASSUME TypeInv, NEW p \in Proc, HealHeld(p), NEW t \in Task, Progress(t)
  PROVE  HealHeld(p)'
<1>1. \A u \in Task : Healed(p, u) => Healed(p, u)'
  BY ProgressDirs DEF Healed
<1>2. pc[p] = "bind-path" => job[p].task \in Task
  BY InHand DEF JobOK
<1> QED
  BY <1>1, <1>2, ProgressDirs DEF HealHeld

LEMMA StepHeals ==
  ASSUME OneByOne, MaxFaults <= 1, TypeInv, TypeInv', PromiseInv, NEW p \in Proc,
         PathsKnown(p), HealHeld(p), Step(p)
  PROVE  HealHeld(p)'
<1>1. CASE Compare(p) \/ ListDrift(p) \/ HealDrift(p)
  BY <1>1, HealingHeld
<1>2. CASE BindSprint(p)
  <2>1. pc[p] = "bind-sprint" /\ (Fault \/ Works)
    BY <1>2 DEF BindSprint
  <2>2. pc'[p] = "bind-path" => Works
    <3>1. (Fault /\ Goto(p, "bind")) \/ Works
      BY <1>2 DEF BindSprint
    <3> QED
      BY <3>1, Goes DEF Goto
  <2>3. job'[p].cmd # "reconcile"
    BY <2>1, OthersHeal DEF NoJob
  <2> QED
    BY <1>2, <2>2, <2>3, BindSprintPaths DEF HealHeld
<1>3. CASE ~(Compare(p) \/ ListDrift(p) \/ HealDrift(p)) /\ ~BindSprint(p)
  <2>1. pc[p] \notin {"compare", "drift", "heal"} /\ pc'[p] # "bind-path"
    BY <1>3, NotToBindPath, NotHealing
  <2>2. job'[p].cmd # "reconcile"
    BY <2>1, OthersHeal DEF NoJob
  <2> QED
    BY <2>1, <2>2 DEF HealHeld
<1> QED
  BY <1>1, <1>2, <1>3

LEMMA HealInvInit == Init => HealInv
<1> SUFFICES ASSUME Init, NEW p \in Proc PROVE PathsKnown(p) /\ HealHeld(p)
  BY DEF HealInv
<1>1. pc[p] = "idle" /\ job[p].cmd = "none" /\ files = tasks
  BY DEF Init, NoJob
<1> QED
  BY <1>1 DEF PathsKnown, HealHeld

LEMMA HealInvStep ==
  ASSUME OneByOne, MaxFaults <= 1, TypeInv, TypeInv', PromiseInv, HealInv, [Next]_vars
  PROVE  HealInv'
<1> SUFFICES ASSUME NEW p \in Proc PROVE PathsKnown(p)' /\ HealHeld(p)'
  BY DEF HealInv
<1>1. PathsKnown(p) /\ HealHeld(p)
  BY DEF HealInv
<1>2. CASE Begin(p)
  BY <1>1, <1>2, BeginPaths, BeginHeals
<1>3. CASE Step(p)
  BY <1>1, <1>3, StepPaths, StepHeals
<1>4. CASE Crash(p)
  <2>1. faults' # 0
    BY <1>4, FaultFacts DEF Crash
  <2>2. pc'[p] = "idle" /\ job'[p] = NoJob
    BY <1>4, Goes DEF Crash, Return, Goto
  <2> QED
    BY <2>1, <2>2, FaultyPaths DEF HealHeld, NoJob
<1>5. ASSUME NEW t \in Task, Progress(t) PROVE PathsKnown(p)' /\ HealHeld(p)'
  BY <1>1, <1>5, ProgressPaths, ProgressHeals
<1>6. CASE UNCHANGED vars
  BY <1>1, <1>6 DEF vars, PathsKnown, HealHeld, Strays, Healed
<1> QED
  BY <1>2, <1>3, <1>4, <1>5, <1>6 DEF Next, OneByOne

\* The step a reconcile ends with.
LEMMA ReconcileEnds ==
  ASSUME OneByOne, TypeInv, TypeInv', PromiseInv, HealInv, [Next]_vars, NEW p \in Proc,
         job[p].cmd = "reconcile", pc'[p] = "idle", faults' = faults
  PROVE  /\ \E l \in folders[job[p].sprint] :
               sprints'[job[p].sprint] = [status |-> l, folder |-> l]
         /\ \A t \in Task : tasks'[t].sprint = job[p].sprint => tasks'[t].dir = files'[t].dir
<1>1. HealHeld(p) /\ pc[p] \in Healing /\ job[p] \in Job /\ pc[p] # "idle"
  BY InHand DEF HealInv, HealHeld, Healing
<1>2. PICK s \in Sprint : s = job[p].sprint
  BY <1>1, InHand
<1>3. PICK l \in Place : l \in folders[s] /\ job[p].row = [status |-> l, folder |-> l]
  <2>1. job[p].row \in Rows /\ job[p].row.folder = job[p].row.status
    BY <1>1 DEF HealHeld, Job
  <2>2. PICK l \in Place : l = job[p].row.status /\ HasDoc(s, l)
    BY <1>1, <1>2 DEF PromiseInv, CommandsReady, SaveReady
  <2>3. l \in folders[s]
    BY <2>2 DEF PromiseInv, SprintsKept, Located
  <2>4. job[p].row = [status |-> l, folder |-> l]
    BY <2>1, <2>2 DEF Rows
  <2> QED
    BY <2>3, <2>4
<1>4. ~Fault
  BY DEF Fault, TypeInv, ControlOK
<1>5. Step(p)
  <2>1. ~Begin(p)
    BY BeginHeals
  <2>2. ~Crash(p)
    BY <1>4 DEF Crash
  <2>3. \A t \in Task : ~Progress(t)
    BY <1>1 DEF Progress, control
  <2>4. ~UNCHANGED vars
    BY <1>1 DEF vars
  <2> QED
    BY <2>1, <2>2, <2>3, <2>4 DEF Next, OneByOne
<1>6. CASE HealDrift(p)
  <2>1. /\ pc[p] = "heal" /\ job[p].todo = {} /\ job[p].to = "none"
        /\ UNCHANGED <<sprints, tasks, files>>
    <3>1. ASSUME NEW e, Continue(p, "heal", Rest(p, e)) PROVE FALSE
      BY <3>1, Goes
    <3>2. /\ pc[p] = "heal" /\ job[p].todo = {} /\ UNCHANGED <<sprints, tasks, files>>
          /\ Goto(p, IF job[p].to = "none" THEN "idle" ELSE "save")
      BY <1>6, <3>1 DEF HealDrift, disk
    <3> QED
      BY <3>2, Goes DEF Goto
  <2>2. sprints[s] = job[p].row
    BY <1>1, <1>2, <2>1 DEF HealHeld
  <2>3. \A t \in Task : tasks[t].sprint = s => tasks[t].dir = files[t].dir
    BY <1>1, <1>2, <2>1 DEF HealHeld, Healed
  <2> QED
    BY <1>2, <1>3, <2>1, <2>2, <2>3
<1>7. CASE SaveToDB(p)
  <2>1. /\ pc[p] = "save" /\ UNCHANGED <<tasks, files>>
        /\ sprints' = [sprints EXCEPT ![s] = job[p].row]
    BY <1>2, <1>4, <1>7 DEF SaveToDB, disk
  <2>2. sprints'[s] = job[p].row
    BY <2>1, InHand
  <2>3. \A t \in Task : tasks[t].sprint = s => tasks[t].dir = files[t].dir
    BY <1>1, <1>2, <2>1 DEF HealHeld, Healed
  <2> QED
    BY <1>2, <1>3, <2>1, <2>2, <2>3
<1>8. ~Compare(p) /\ ~ListDrift(p)
  <2>1. ASSUME NEW j, NEW k \in {"drift", "heal"}, Continue(p, k, j) PROVE FALSE
    BY <2>1, Goes
  <2> QED
    BY <2>1 DEF Compare, ListDrift
<1> QED
  BY <1>1, <1>5, <1>6, <1>7, <1>8
  DEF Step, CreateFolder, WriteDocument, Collect, WriteFrontmatter,
      ReturnTask, MoveSprint, Sweep, Stamp, Record, UpdateTaskPathsForSprint,
      ListFiles, Bind, BindSprint, BindPath, ListForSync, ForceStatus,
      UpdateCurrentFocus, Rename, Tag, List, EditRow,
      SetSprint, SetPath, DropRow, Relist, Untag, PutBack, Healing

\* `sprint reconcile` (reconcile.go): whatever command a crash or a failed step cut
\* short, a reconcile that ends well leaves the row of the Sprint naming the folder
\* its SPRINT.md is in and the row of each of its Tasks the directory of its file, for
\* any Sprints, Tasks and sets of commands but forced ones.  Commands run one at a
\* time and at most one step fails, in the reconcile itself or before.
THEOREM OneReconcileHeals ==
  ASSUME OneByOne, Unforced, MaxFaults <= 1
  PROVE  Spec => ReconcileHeals
<1>1. Init => TypeInv /\ PromiseInv /\ HealInv
  BY TypeInvInit, PromiseInvInit, HealInvInit
<1>2. TypeInv /\ PromiseInv /\ HealInv /\ [Next]_vars => TypeInv' /\ PromiseInv' /\ HealInv'
  BY TypeInvStep, StepPromised, HealInvStep DEF Promised
<1> DEFINE Heals(p) ==
         LET s == job[p].sprint IN
         job[p].cmd = "reconcile" /\ pc'[p] = "idle" /\ faults' = faults =>
            /\ \E l \in folders[s] : sprints'[s] = [status |-> l, folder |-> l]
            /\ \A t \in Task : tasks'[t].sprint = s => tasks'[t].dir = files'[t].dir
<1>3. TypeInv /\ PromiseInv /\ HealInv /\ [Next]_vars => [\A p \in Proc : Heals(p)]_vars
  BY TypeInvStep, ReconcileEnds
<1> QED
  BY <1>1, <1>2, <1>3, PTL DEF Spec, ReconcileHeals
=============================================================================
