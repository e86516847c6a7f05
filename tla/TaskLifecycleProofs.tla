------------------------- MODULE TaskLifecycleProofs -------------------------
(***************************************************************************)
(* Theorems about TaskLifecycle, for any number of processes, Tasks and    *)
(* harness items: its types and the database's lock, the statuses that its *)
(* commands take a Task through, the Harness Gate before done; and what    *)
(* the guides promise: that its commands implement TaskStateMachine, and   *)
(* that the Task files and the Sprint's table say what the database says.  *)
(***************************************************************************)
EXTENDS TaskLifecycle, TLAPS

-----------------------------------------------------------------------------
(* Type correctness.  A running command has a Task, a path whenever it     *)
(* believes that its file moved, and an item when it goes to check one:    *)
(* without these facts the types of what a step reads from the tables and  *)
(* writes to them are not known.                                           *)

GoodJob(j) == /\ j \in Job
              /\ j.task \in Task
              /\ j.moved => j.path \in Loc
              /\ j.next \in {"idle", "gate", "check"}
              /\ j.next = "check" => j.item \in Item

ProcOK == /\ pc \in [Proc -> Label]
          /\ job \in [Proc -> Job]
          /\ \A p \in Proc : pc[p] # "idle" => GoodJob(job[p])
          /\ \A p \in Proc : pc[p] = "check" => job[p].next = "check"

DataOK == /\ dbStatus \in [Task -> Content]
          /\ dbPath \in [Task -> Loc]
          /\ ticket \in [Task -> BOOLEAN]
          /\ seeded \in [Task -> BOOLEAN]
          /\ checked \in [Task -> SUBSET Item]
          /\ lock \in Proc \cup {NoProc}
          /\ stale \subseteq Proc
          /\ file \in [Task -> [Loc -> Content]]
          /\ row \in [Task -> Content]
          /\ faults \in Nat
          /\ torn \subseteq Task

TypeInv == DataOK /\ ProcOK

LEMMA TypeInvImpliesTypeOK == TypeInv => TypeOK
  BY DEF TypeInv, DataOK, ProcOK, TypeOK

LEMMA NoJobType == NoJob \in Job
  BY DEF NoJob, Job, Content, Loc, Label, AllCommands

\* Every way a step ends goes through Continue.
LEMMA ContinueOK ==
  ASSUME NEW p \in Proc, NEW l \in Label, NEW j, ProcOK, Continue(p, l, j),
         l # "idle" => GoodJob(j), l = "check" => j.next = "check"
  PROVE  ProcOK'
  BY NoJobType DEF ProcOK, Continue, GoodJob

LEMMA GotoOK ==
  ASSUME NEW p \in Proc, NEW l \in Label, ProcOK, pc[p] # "idle", Goto(p, l),
         l = "check" => job[p].next = "check"
  PROVE  ProcOK'
  BY ContinueOK DEF Goto, ProcOK

LEMMA ReturnOK ==
  ASSUME NEW p \in Proc, ProcOK, pc[p] # "idle", Return(p)
  PROVE  ProcOK'
  BY GotoOK DEF Return, Label

LEMMA GoodJobUpdate ==
  ASSUME NEW j, GoodJob(j), NEW s \in Content, NEW r \in Content
  PROVE  /\ GoodJob([j EXCEPT !.from = s, !.to = r])
         /\ GoodJob([j EXCEPT !.from = s])
  BY DEF GoodJob, Job

LEMMA GoodJobNext ==
  ASSUME NEW j, GoodJob(j), NEW l \in {"idle", "gate"}, NEW b \in BOOLEAN
  PROVE  /\ GoodJob([j EXCEPT !.next = l])
         /\ GoodJob([j EXCEPT !.cascade = b, !.next = l])
  BY DEF GoodJob, Job, Label

LEMMA GoodJobPath ==
  ASSUME NEW j, GoodJob(j), NEW l \in Loc, NEW s \in Content, NEW b \in BOOLEAN
  PROVE  /\ GoodJob([j EXCEPT !.path = l])
         /\ GoodJob([j EXCEPT !.path = l, !.moved = b])
         /\ GoodJob([j EXCEPT !.path = l, !.buf = s])
         /\ GoodJob([j EXCEPT !.from = s, !.path = l])
  BY DEF GoodJob, Job

LEMMA FirstTransitionOK ==
  ASSUME NEW p \in Proc, ProcOK, pc[p] # "idle", FirstTransition(p)
  PROVE  ProcOK'
<1> DEFINE s == IF job[p].cascade THEN "todo" ELSE "in-progress"
           r == IF job[p].cascade THEN "in-progress" ELSE "done"
           j == [job[p] EXCEPT !.from = s, !.to = r]
<1>1. s \in Content /\ r \in Content
  BY DEF Content, Status
<1>2. GoodJob(j)
  BY <1>1, GoodJobUpdate DEF ProcOK
<1>3. Continue(p, "lookup", j)
  BY DEF FirstTransition
<1> QED
  BY <1>2, <1>3, ContinueOK DEF Label

LEMMA TransitionFailedOK ==
  ASSUME NEW p \in Proc, ProcOK, pc[p] # "idle", TransitionFailed(p)
  PROVE  ProcOK'
<1> DEFINE j == [job[p] EXCEPT !.from = "in-progress", !.to = "todo"]
<1>1. GoodJob(j)
  BY GoodJobUpdate DEF ProcOK, Content, Status
<1>2. CASE Return(p)
  BY <1>2, ReturnOK
<1>3. CASE Continue(p, "lookup", j)
  BY <1>1, <1>3, ContinueOK DEF Label
<1> QED
  BY <1>2, <1>3 DEF TransitionFailed

LEMMA TransitionSucceededOK ==
  ASSUME NEW p \in Proc, ProcOK, pc[p] # "idle", TransitionSucceeded(p)
  PROVE  ProcOK'
<1> DEFINE j == [job[p] EXCEPT !.from = "in-progress", !.to = "done"]
<1>1. GoodJob(j)
  BY GoodJobUpdate DEF ProcOK, Content, Status
<1>2. \/ Goto(p, "ticket") \/ Goto(p, "reconcile") \/ Return(p)
      \/ Continue(p, "lookup", j)
  BY DEF TransitionSucceeded
<1> QED
  BY <1>1, <1>2, GotoOK, ReturnOK, ContinueOK DEF Label

LEMMA ResolvedType ==
  ASSUME NEW t, NEW l \in Loc
  PROVE  Resolved(t, l) \in Loc \cup {Nowhere}
  BY DEF Resolved, Loc

LEMMA HealPathOK ==
  ASSUME DataOK, NEW t \in Task, NEW l, NEW found, HealPath(t, l, found)
  PROVE  /\ dbPath' \in [Task -> Loc]
         /\ stale' \subseteq Proc
  BY DEF DataOK, HealPath, Committed

LEMMA WriteFileOK ==
  ASSUME DataOK, NEW t \in Task, NEW l, NEW s \in Content, WriteFile(t, l, s)
  PROVE  file' \in [Task -> [Loc -> Content]]
  BY DEF DataOK, WriteFile

LEMMA MoveFileOK ==
  ASSUME DataOK, NEW t \in Task, NEW from \in Loc, NEW to \in Loc,
         MoveFile(t, from, to)
  PROVE  file' \in [Task -> [Loc -> Content]]
  BY DEF DataOK, MoveFile, Content

\* ProcOK from each way a step can end, in one citation.
LEMMA EndsOK ==
  ASSUME NEW p \in Proc, ProcOK, pc[p] # "idle",
         \/ \E l \in Label : Goto(p, l) /\ (l = "check" => job[p].next = "check")
         \/ Return(p)
         \/ FirstTransition(p)
         \/ TransitionFailed(p)
         \/ TransitionSucceeded(p)
         \/ \E l \in Label \ {"check"}, j \in Job : GoodJob(j) /\ Continue(p, l, j)
  PROVE  ProcOK'
  BY GotoOK, ReturnOK, FirstTransitionOK, TransitionFailedOK,
     TransitionSucceededOK, ContinueOK

LEMMA IssueType ==
  ASSUME TypeInv, NEW p \in Proc, NEW c \in AllCommands, NEW t \in Task,
         Issue(p, c, t)
  PROVE  TypeInv'
<1> DEFINE new == [NoJob EXCEPT !.cmd = c, !.task = t]
<1>1. DataOK'
  BY DEF TypeInv, DataOK, Issue, tables, files
<1>2. CASE c = "start"
  <2> DEFINE j == [new EXCEPT !.from = "todo", !.to = "in-progress"]
  <2>1. Continue(p, "lookup", j)
    BY <1>2 DEF Issue
  <2>2. GoodJob(j)
    <3>1. "todo" \in Content /\ "in-progress" \in Content
      BY DEF Content, Status
    <3> QED
      BY <3>1, NoJobType DEF GoodJob, Job, NoJob
  <2> QED
    BY <2>1, <2>2, <1>1, ContinueOK DEF TypeInv, Label
<1>3. CASE c = "check"
  <2>1. PICK i \in Item :
          Continue(p, "ensure", [new EXCEPT !.item = i, !.next = "check"])
    BY <1>3 DEF Issue
  <2>2. GoodJob([new EXCEPT !.item = i, !.next = "check"])
    BY NoJobType DEF GoodJob, Job, NoJob, Label
  <2> QED
    BY <2>1, <2>2, <1>1, ContinueOK DEF TypeInv, Label
<1>4. CASE c \in {"reopen", "update"}
  <2>1. PICK s \in Status : Continue(p, "read", [new EXCEPT !.to = s])
    BY <1>4 DEF Issue, Status
  <2>2. GoodJob([new EXCEPT !.to = s])
    BY NoJobType DEF GoodJob, Job, NoJob, Content
  <2> QED
    BY <2>1, <2>2, <1>1, ContinueOK DEF TypeInv, Label
<1>5. CASE c \notin {"start", "check", "reopen", "update"}
  <2>1. Continue(p, "read", new)
    BY <1>5 DEF Issue
  <2>2. GoodJob(new)
    BY NoJobType DEF GoodJob, Job, NoJob
  <2> QED
    BY <2>1, <2>2, <1>1, ContinueOK DEF TypeInv, Label
<1> QED
  BY <1>2, <1>3, <1>4, <1>5

LEMMA ReadStatusType ==
  ASSUME TypeInv, NEW p \in Proc, ReadStatus(p)
  PROVE  TypeInv'
<1> DEFINE j == job[p]
           s == dbStatus[j.task]
<1>1. DataOK'
  BY DEF TypeInv, DataOK, ReadStatus, tables, files
<1>2. /\ ProcOK /\ pc[p] # "idle" /\ GoodJob(j)
      /\ s \in Content /\ dbPath[j.task] \in Loc
  BY DEF TypeInv, DataOK, ProcOK, ReadStatus, GoodJob
<1>3. \/ Return(p)
      \/ Continue(p, "ensure", [j EXCEPT !.cascade = (s = "todo"),
                                         !.next = "gate"])
      \/ Goto(p, "ticket") \/ Goto(p, "orphan")
      \/ Continue(p, "resolve", [j EXCEPT !.from = s, !.path = dbPath[j.task]])
  BY DEF ReadStatus
<1>4. /\ GoodJob([j EXCEPT !.cascade = (s = "todo"), !.next = "gate"])
      /\ GoodJob([j EXCEPT !.from = s, !.path = dbPath[j.task]])
  BY <1>2 DEF GoodJob, Job, Label
<1>5. ProcOK'
  BY <1>2, <1>3, <1>4, ReturnOK, GotoOK, ContinueOK DEF Label
<1> QED
  BY <1>1, <1>5 DEF TypeInv

\* What every step of a running command may rely on.
LEMMA RunningFacts ==
  ASSUME TypeInv, NEW p \in Proc, pc[p] # "idle"
  PROVE  /\ ProcOK /\ DataOK
         /\ GoodJob(job[p]) /\ job[p] \in Job /\ job[p].task \in Task
         /\ dbStatus[job[p].task] \in Content
         /\ dbPath[job[p].task] \in Loc
         /\ \A l \in Loc : file[job[p].task][l] \in Content
  BY DEF TypeInv, DataOK, ProcOK, GoodJob

LEMMA GateType ==
  ASSUME TypeInv, NEW p \in Proc, GateStep(p)
  PROVE  TypeInv'
<1> DEFINE after(l) == [job[p] EXCEPT !.next = l]
<1>1. CASE EnsureItems(p)
  <2>1. pc[p] # "idle"
    BY <1>1 DEF EnsureItems
  <2>2. DataOK'
    BY <1>1, <2>1, RunningFacts DEF EnsureItems, DataOK, Committed, files
  <2>3. job[p].next \in Label
    BY <2>1, RunningFacts DEF Job
  <2> QED
    BY <1>1, <2>1, <2>2, <2>3, RunningFacts, EndsOK DEF EnsureItems, TypeInv
<1>2. CASE Gate(p)
  <2>1. pc[p] # "idle"
    BY <1>2 DEF Gate
  <2>2. DataOK'
    BY <1>2, <2>1, RunningFacts DEF Gate, DataOK, tables, files
  <2>3. GoodJob(after("idle"))
    BY <2>1, RunningFacts, GoodJobNext DEF Label
  <2>4. \/ Continue(p, "ensure", after("idle")) \/ Goto(p, "stub") \/ Return(p)
    BY <1>2 DEF Gate
  <2> QED
    BY <2>1, <2>2, <2>3, <2>4, RunningFacts, ContinueOK, GotoOK, ReturnOK
    DEF TypeInv, Label
<1>3. CASE CheckItem(p)
  <2>1. pc[p] # "idle"
    BY <1>3 DEF CheckItem
  <2>3. GoodJob(after("idle"))
    BY <2>1, RunningFacts, GoodJobNext DEF Label
  <2>4. \/ Continue(p, "ensure", after("idle")) \/ Return(p)
    BY <1>3 DEF CheckItem
  <2>5. job[p].item \in Item
    BY <1>3, <2>1, RunningFacts DEF CheckItem, ProcOK, GoodJob
  <2>6. DataOK'
    BY <1>3, <2>1, <2>5, RunningFacts DEF CheckItem, DataOK, Committed, files
  <2> QED
    BY <2>1, <2>3, <2>4, <2>6, RunningFacts, ContinueOK, ReturnOK
    DEF TypeInv, Label
<1> QED
  BY <1>1, <1>2, <1>3 DEF GateStep

LEMMA TransitionType ==
  ASSUME TypeInv, NEW p \in Proc, TransitionStep(p)
  PROVE  TypeInv'
<1> DEFINE j == job[p]
           t == j.task
<1>0. pc[p] # "idle"
  BY DEF TransitionStep, Lookup, Resolve, BeginTransaction, UpdateStatus,
         WriteFrontmatter, MoveToCompleted, CommitTransaction, WriteSprintRow
<1> USE <1>0, RunningFacts
<1>1. CASE Lookup(p)
  <2>1. DataOK'
    BY <1>1 DEF Lookup, DataOK, tables, files
  <2>2. GoodJob([j EXCEPT !.path = dbPath[t], !.moved = FALSE])
    BY GoodJobPath
  <2>3. \/ Continue(p, "resolve", [j EXCEPT !.path = dbPath[t], !.moved = FALSE])
        \/ TransitionFailed(p)
    BY <1>1 DEF Lookup
  <2> QED
    BY <2>1, <2>2, <2>3, ContinueOK, TransitionFailedOK DEF TypeInv, Label
<1>2. CASE Resolve(p)
  <2> DEFINE found == Resolved(t, j.path)
  <2>1. HealPath(t, j.path, found)
    BY <1>2 DEF Resolve
  <2>2. DataOK'
    BY <1>2, <2>1, HealPathOK DEF Resolve, DataOK, files
  <2>3. CASE found = Nowhere
    <3>1. TransitionFailed(p) \/ Goto(p, "drop_row") \/ Goto(p, "force")
      BY <1>2, <2>3 DEF Resolve
    <3> QED
      BY <2>2, <3>1, TransitionFailedOK, GotoOK DEF TypeInv, Label
  <2>4. CASE found # Nowhere
    <3>1. found \in Loc
      BY <2>4, ResolvedType DEF Resolved, Job, Loc
    <3>2. GoodJob([j EXCEPT !.path = found])
      BY <3>1, GoodJobPath
    <3>3. \E l \in {"begin", "remove", "fm_free"} :
             Continue(p, l, [j EXCEPT !.path = found])
      BY <1>2, <2>4 DEF Resolve
    <3> QED
      BY <2>2, <3>2, <3>3, ContinueOK DEF TypeInv, Label
  <2> QED
    BY <2>3, <2>4
<1>3. CASE BeginTransaction(p)
  <2>1. DataOK'
    BY <1>3 DEF BeginTransaction, DataOK, tables, files
  <2>2. Goto(p, "lock") \/ TransitionFailed(p)
    BY <1>3 DEF BeginTransaction
  <2> QED
    BY <2>1, <2>2, GotoOK, TransitionFailedOK DEF TypeInv, Label
<1>4. CASE UpdateStatus(p)
  <2>1. DataOK'
    BY <1>4 DEF UpdateStatus, DataOK, tables, files
  <2>2. Goto(p, "fm") \/ TransitionFailed(p)
    BY <1>4 DEF UpdateStatus
  <2> QED
    BY <2>1, <2>2, GotoOK, TransitionFailedOK DEF TypeInv, Label
<1>5. CASE WriteFrontmatter(p)
  <2>1. UNCHANGED <<tables, row, stale, torn>> /\ faults' \in Nat
    BY <1>5 DEF WriteFrontmatter, DataOK, Fault
  <2>2. file' \in [Task -> [Loc -> Content]]
    BY <1>5, WriteFileOK DEF WriteFrontmatter, DataOK, Job
  <2>3. lock' \in Proc \cup {NoProc}
    BY <1>5 DEF WriteFrontmatter, Rollback, DataOK
  <2>4. Goto(p, "move") \/ TransitionFailed(p)
    BY <1>5 DEF WriteFrontmatter, Rollback
  <2>5. DataOK'
    BY <2>1, <2>2, <2>3 DEF DataOK, tables
  <2> QED
    BY <2>4, <2>5, GotoOK, TransitionFailedOK DEF TypeInv, Label
<1>6. CASE MoveToCompleted(p)
  <2>1. /\ UNCHANGED <<tables, row, stale>>
        /\ faults' \in Nat /\ torn' \subseteq Task
    BY <1>6 DEF MoveToCompleted, DataOK, Fault
  <2>2. file' \in [Task -> [Loc -> Content]]
    <3>1. \/ UNCHANGED file
          \/ MoveFile(t, "tasks", "completed")
          \/ WriteFile(t, j.path, j.from)
      BY <1>6 DEF MoveToCompleted
    <3>2. j.from \in Content /\ "tasks" \in Loc /\ "completed" \in Loc
      BY DEF Job, Loc
    <3>3. CASE UNCHANGED file
      BY <3>3 DEF DataOK
    <3> QED
      BY <3>1, <3>2, <3>3, WriteFileOK, MoveFileOK
  <2>3. lock' \in Proc \cup {NoProc}
    BY <1>6 DEF MoveToCompleted, Rollback, DataOK
  <2>4. \/ Goto(p, "commit") \/ TransitionFailed(p)
        \/ Continue(p, "commit",
                    [j EXCEPT !.path = "completed", !.moved = TRUE])
    BY <1>6 DEF MoveToCompleted, Rollback
  <2>5. DataOK'
    BY <2>1, <2>2, <2>3 DEF DataOK, tables
  <2>6. GoodJob([j EXCEPT !.path = "completed", !.moved = TRUE])
    BY GoodJobPath DEF Loc
  <2> QED
    BY <2>4, <2>5, <2>6, ContinueOK, GotoOK, TransitionFailedOK
    DEF TypeInv, Label
<1>7. CASE CommitTransaction(p)
  <2>1. /\ UNCHANGED <<ticket, seeded, checked, files>>
        /\ lock' = NoProc /\ faults' \in Nat /\ torn' \subseteq Task
        /\ stale' \subseteq Proc
    BY <1>7 DEF CommitTransaction, DataOK, Fault, Committed
  <2>2. dbStatus' \in [Task -> Content]
    BY <1>7 DEF CommitTransaction, DataOK, Job
  <2>3. dbPath' \in [Task -> Loc]
    BY <1>7 DEF CommitTransaction, DataOK, GoodJob
  <2>4. Goto(p, "row") \/ TransitionSucceeded(p) \/ TransitionFailed(p)
    BY <1>7 DEF CommitTransaction
  <2>5. DataOK'
    BY <2>1, <2>2, <2>3 DEF DataOK, files
  <2> QED
    BY <2>4, <2>5, GotoOK, TransitionSucceededOK, TransitionFailedOK
    DEF TypeInv, Label
<1>8. CASE WriteSprintRow(p)
  <2>1. NewCell(j) \in Content
    BY DEF NewCell, Job, Content, Status
  <2>2. DataOK'
    BY <1>8, <2>1 DEF WriteSprintRow, DataOK, tables
  <2>3. \/ Return(p) \/ TransitionSucceeded(p)
        \/ Goto(p, "reset") \/ Goto(p, "reconcile")
    BY <1>8 DEF WriteSprintRow, AfterReopen
  <2> QED
    BY <2>2, <2>3, GotoOK, ReturnOK, TransitionSucceededOK DEF TypeInv, Label
<1> QED
  BY <1>1, <1>2, <1>3, <1>4, <1>5, <1>6, <1>7, <1>8 DEF TransitionStep

LEMMA BodyType ==
  ASSUME TypeInv, NEW p \in Proc, BodyStep(p)
  PROVE  TypeInv'
<1> DEFINE j == job[p]
           t == j.task
<1>0. pc[p] # "idle"
  BY DEF BodyStep, IssueTicket, ReadBody, ReadForStub, RewriteBody, Reconcile
<1>a. AfterBody(j) \in {"reconcile", "idle"}
  BY DEF AfterBody
<1> USE <1>0, RunningFacts
<1>1. CASE IssueTicket(p)
  <2>1. DataOK'
    BY <1>1 DEF IssueTicket, DataOK, Committed, files
  <2>2. \E l \in {"reconcile", "body", "idle"} : Goto(p, l)
    BY <1>1, <1>a DEF IssueTicket
  <2> QED
    BY <2>1, <2>2, GotoOK DEF TypeInv, Label
<1>2. CASE ReadBody(p)
  <2> DEFINE found == Resolved(t, dbPath[t])
             k == [j EXCEPT !.path = found, !.buf = file[t][found]]
  <2>1. CASE dbStatus[t] = Absent \/ found = Nowhere
    <3>1. DataOK' /\ Goto(p, AfterBody(j))
      BY <1>2, <2>1 DEF ReadBody, DataOK, files
    <3> QED
      BY <3>1, <1>a, GotoOK DEF TypeInv, Label
  <2>2. CASE ~(dbStatus[t] = Absent \/ found = Nowhere)
    <3>1. HealPath(t, dbPath[t], found) /\ Continue(p, "rewrite", k)
      BY <1>2, <2>2 DEF ReadBody
    <3>2. DataOK'
      BY <1>2, <3>1, HealPathOK DEF ReadBody, DataOK, files
    <3>3. found \in Loc
      BY <2>2, ResolvedType
    <3>4. GoodJob(k)
      BY <3>3, GoodJobPath
    <3> QED
      BY <3>1, <3>2, <3>4, ContinueOK DEF TypeInv, Label
  <2> QED
    BY <2>1, <2>2
<1>3. CASE ReadForStub(p)
  <2> DEFINE k == [j EXCEPT !.path = dbPath[t], !.buf = file[t][dbPath[t]]]
  <2>1. DataOK'
    BY <1>3 DEF ReadForStub, DataOK, tables, files
  <2>2. FirstTransition(p) \/ Continue(p, "rewrite", k)
    BY <1>3 DEF ReadForStub
  <2>3. GoodJob(k)
    BY GoodJobPath
  <2> QED
    BY <2>1, <2>2, <2>3, FirstTransitionOK, ContinueOK DEF TypeInv, Label
<1>4. CASE RewriteBody(p)
  <2>1. DataOK'
    BY <1>4, WriteFileOK DEF RewriteBody, DataOK, Job, tables
  <2>2. FirstTransition(p) \/ Goto(p, "reconcile") \/ Goto(p, "idle")
    BY <1>4, <1>a DEF RewriteBody
  <2> QED
    BY <2>1, <2>2, FirstTransitionOK, GotoOK DEF TypeInv, Label
<1>5. CASE Reconcile(p)
  <2>1. dbPath' \in [Task -> Loc]
    BY <1>5 DEF Reconcile, DataOK, Loc
  <2>2. DataOK'
    BY <1>5, <2>1 DEF Reconcile, DataOK, Committed, files
  <2> QED
    BY <1>5, <2>2, ReturnOK DEF Reconcile, TypeInv
<1> QED
  BY <1>1, <1>2, <1>3, <1>4, <1>5 DEF BodyStep

LEMMA DirectType ==
  ASSUME TypeInv, NEW p \in Proc, DirectStep(p)
  PROVE  TypeInv'
<1> DEFINE j == job[p]
           t == j.task
<1>0. pc[p] # "idle"
  BY DEF DirectStep, WriteFrontmatterFree, MoveFromCompleted, SetPath,
         ForceStatus, ResetHarness, RemoveFile, RemoveRow, RemoveOrphan, DeleteTask
<1> USE <1>0, RunningFacts
<1>1. CASE WriteFrontmatterFree(p)
  <2>1. DataOK'
    BY <1>1, WriteFileOK DEF WriteFrontmatterFree, DataOK, Job, Fault, tables
  <2>2. \E l \in {"unmove", "force", "idle"} : Goto(p, l)
    BY <1>1 DEF WriteFrontmatterFree
  <2> QED
    BY <2>1, <2>2, GotoOK DEF TypeInv, Label
<1>2. CASE MoveFromCompleted(p)
  <2>1. file' \in [Task -> [Loc -> Content]]
    <3>1. UNCHANGED file \/ MoveFile(t, "completed", "tasks")
      BY <1>2 DEF MoveFromCompleted
    <3> QED
      BY <3>1, MoveFileOK DEF DataOK, Loc
  <2>2. DataOK'
    BY <1>2, <2>1 DEF MoveFromCompleted, DataOK, Fault, tables
  <2>3. Goto(p, "set_path") \/ Goto(p, "force")
    BY <1>2 DEF MoveFromCompleted
  <2> QED
    BY <2>2, <2>3, GotoOK DEF TypeInv, Label
<1>3. CASE SetPath(p)
  <2>1. DataOK' /\ Goto(p, "force")
    BY <1>3 DEF SetPath, DataOK, Committed, Loc, files
  <2> QED
    BY <2>1, GotoOK DEF TypeInv, Label
<1>4. CASE ForceStatus(p)
  <2>1. DataOK'
    BY <1>4 DEF ForceStatus, DataOK, Committed, Job, files
  <2>2. \E l \in {"row", "idle", "reset", "reconcile"} : Goto(p, l)
    BY <1>4 DEF ForceStatus, AfterReopen
  <2> QED
    BY <2>1, <2>2, GotoOK DEF TypeInv, Label
<1>5. CASE ResetHarness(p)
  <2>1. DataOK' /\ Goto(p, "reconcile")
    BY <1>5 DEF ResetHarness, DataOK, Committed, files
  <2> QED
    BY <2>1, GotoOK DEF TypeInv, Label
<1>6. CASE RemoveFile(p)
  <2>1. DataOK' /\ Goto(p, "drop_row")
    BY <1>6, WriteFileOK DEF RemoveFile, DataOK, Fault, Content, tables
  <2> QED
    BY <2>1, GotoOK DEF TypeInv, Label
<1>7. CASE RemoveRow(p)
  <2>1. DataOK' /\ Goto(p, "drop")
    BY <1>7 DEF RemoveRow, DataOK, Content, tables
  <2> QED
    BY <2>1, GotoOK DEF TypeInv, Label
<1>8. CASE DeleteTask(p)
  <2>1. DataOK'
    BY <1>8 DEF DeleteTask, DataOK, Committed, Content, files
  <2> QED
    BY <1>8, <2>1, ReturnOK DEF DeleteTask, TypeInv
<1>9. CASE RemoveOrphan(p)
  <2>1. DataOK'
    BY <1>9, WriteFileOK DEF RemoveOrphan, DataOK, Fault, Content, tables
  <2> QED
    BY <1>9, <2>1, ReturnOK DEF RemoveOrphan, TypeInv
<1> QED
  BY <1>1, <1>2, <1>3, <1>4, <1>5, <1>6, <1>7, <1>8, <1>9 DEF DirectStep

LEMMA TypeInvInit == Init => TypeInv
<1> SUFFICES ASSUME Init PROVE TypeInv
  OBVIOUS
<1>1. DataOK
  BY DEF Init, DataOK, Content, Status, Loc, Home
<1>2. ProcOK
  BY NoJobType DEF Init, ProcOK, Label
<1> QED
  BY <1>1, <1>2 DEF TypeInv

\* Every step of Next is one of these.
LEMMA NextCases ==
  ASSUME Next
  PROVE  \E p \in Proc : \/ \E c \in AllCommands, t \in Task : Issue(p, c, t)
                         \/ Step(p)
                         \/ Crash(p)
<1>1. ASSUME NEW p \in Proc, NEW t \in Task, Begin(p, t)
      PROVE  \E c \in AllCommands : Issue(p, c, t)
  BY <1>1 DEF Begin, TaskStart, TaskCheckpoint, TaskComplete, TaskReopen, TaskDelete,
              TaskUpdate, HarnessCheck, AllCommands
<1> QED
  BY <1>1 DEF Next

LEMMA TypeInvStep == TypeInv /\ [Next]_vars => TypeInv'
<1> SUFFICES ASSUME TypeInv, [Next]_vars PROVE TypeInv'
  OBVIOUS
<1>1. ASSUME NEW p \in Proc, NEW c \in AllCommands, NEW t \in Task,
             Issue(p, c, t)
      PROVE  TypeInv'
  BY <1>1, IssueType
<1>2. ASSUME NEW p \in Proc, Step(p) PROVE TypeInv'
  BY <1>2, ReadStatusType, GateType, TransitionType, BodyType, DirectType
  DEF Step
<1>3. ASSUME NEW p \in Proc, Crash(p) PROVE TypeInv'
  <2>1. DataOK'
    BY <1>3, RunningFacts DEF Crash, DataOK, Fault, tables, files
  <2> QED
    BY <1>3, <2>1, ReturnOK DEF Crash, TypeInv
<1>4. CASE UNCHANGED vars
  BY <1>4 DEF vars, TypeInv, DataOK, ProcOK, GoodJob
<1> QED
  BY <1>1, <1>2, <1>3, <1>4, NextCases

\* The tables, the files and every command's local variables keep their types.
THEOREM TypeCorrect == Spec => []TypeOK
<1>1. Spec => []TypeInv
  BY TypeInvInit, TypeInvStep, PTL DEF Spec
<1> QED
  BY <1>1, TypeInvImpliesTypeOK, PTL

-----------------------------------------------------------------------------
(* The transaction.  WriterHoldsLock and TestedStatusHolds are inductive   *)
(* together with the types: a status changes only under the lock or, while *)
(* nobody holds it, with a commit that outdates every open snapshot.       *)

LockInv == WriterHoldsLock /\ TestedStatusHolds

LEMMA ContinueEffect ==
  ASSUME NEW p \in Proc, NEW l, NEW j, ProcOK, Continue(p, l, j)
  PROVE  /\ pc'[p] = l
         /\ l # "idle" => job'[p] = j
         /\ \A q \in Proc \ {p} : pc'[q] = pc[q] /\ job'[q] = job[q]
  BY DEF Continue, ProcOK

\* The labels at which p is neither writing nor about to.
Quiet(l) == l \notin InTransaction \cup {"lock"}

LEMMA EndsQuietly ==
  ASSUME NEW p \in Proc, ProcOK,
         \/ \E l : Quiet(l) /\ Goto(p, l)
         \/ Return(p)
         \/ FirstTransition(p)
         \/ TransitionFailed(p)
         \/ TransitionSucceeded(p)
         \/ \E l, j : Quiet(l) /\ Continue(p, l, j)
  PROVE  /\ Quiet(pc'[p])
         /\ \A q \in Proc \ {p} : pc'[q] = pc[q] /\ job'[q] = job[q]
<1>1. CASE \E l, j : Quiet(l) /\ Continue(p, l, j)
  BY <1>1, ContinueEffect
<1>2. CASE \E l : Quiet(l) /\ Goto(p, l)
  BY <1>1, <1>2 DEF Goto
<1>3. CASE Return(p)
  BY <1>2, <1>3 DEF Return, Quiet, InTransaction
<1>4. CASE FirstTransition(p)
  BY <1>1, <1>4 DEF FirstTransition, Quiet, InTransaction
<1>5. CASE TransitionFailed(p)
  BY <1>1, <1>3, <1>5 DEF TransitionFailed, Quiet, InTransaction
<1>6. CASE TransitionSucceeded(p)
  <2>1. \/ \E l : Quiet(l) /\ Goto(p, l)
        \/ Return(p)
        \/ \E l, j : Quiet(l) /\ Continue(p, l, j)
    BY <1>6 DEF TransitionSucceeded, Quiet, InTransaction
  <2> QED
    BY <1>1, <1>2, <1>3, <2>1
<1> QED
  BY <1>1, <1>2, <1>3, <1>4, <1>5, <1>6

\* A step of a process that is not writing, before or after.
LEMMA QuietStep ==
  ASSUME TypeInv, LockInv, NEW p \in Proc, pc[p] \notin InTransaction,
         Quiet(pc'[p]), lock' = lock,
         \A q \in Proc \ {p} : pc'[q] = pc[q] /\ job'[q] = job[q],
         \/ dbStatus' = dbStatus /\ stale \subseteq stale'
         \/ lock = NoProc /\ stale' = Proc
  PROVE  LockInv'
<1>1. WriterHoldsLock'
  BY DEF LockInv, WriterHoldsLock, Quiet
<1>2. TestedStatusHolds'
  <2> SUFFICES ASSUME NEW q \in Proc,
                      \/ pc'[q] \in InTransaction
                      \/ pc'[q] = "lock" /\ q \notin stale'
               PROVE  dbStatus'[job'[q].task] = job'[q].from
    BY DEF TestedStatusHolds
  <2>1. q # p /\ pc'[q] = pc[q] /\ job'[q] = job[q]
    BY DEF Quiet
  <2>2. CASE dbStatus' = dbStatus /\ stale \subseteq stale'
    BY <2>1, <2>2 DEF LockInv, TestedStatusHolds
  <2>3. CASE lock = NoProc /\ stale' = Proc
    BY <2>1, <2>3, SentinelAssumption DEF LockInv, WriterHoldsLock
  <2> QED
    BY <2>2, <2>3
<1> QED
  BY <1>1, <1>2 DEF LockInv

LEMMA CommittedEffect ==
  ASSUME TypeInv, NEW b, Committed(b)
  PROVE  /\ stale \subseteq stale'
         /\ b => stale' = Proc
  BY DEF Committed, TypeInv, DataOK

LEMMA GateLock ==
  ASSUME TypeInv, LockInv, NEW p \in Proc, GateStep(p)
  PROVE  LockInv'
<1>1. /\ pc[p] \in {"ensure", "gate", "check"}
      /\ lock' = lock /\ dbStatus' = dbStatus /\ stale \subseteq stale'
  BY CommittedEffect DEF GateStep, EnsureItems, Gate, CheckItem, tables
<1>2. ProcOK /\ pc[p] \notin InTransaction
  BY <1>1 DEF TypeInv, InTransaction
<1>3. \/ Return(p) \/ Goto(p, job[p].next) \/ Goto(p, "stub")
      \/ \E j : Continue(p, "ensure", j)
  BY DEF GateStep, EnsureItems, Gate, CheckItem
<1>4. Quiet(job[p].next) /\ Quiet("stub") /\ Quiet("ensure")
  BY <1>1, RunningFacts DEF GoodJob, Quiet, InTransaction
<1>5. /\ Quiet(pc'[p])
      /\ \A q \in Proc \ {p} : pc'[q] = pc[q] /\ job'[q] = job[q]
  BY <1>2, <1>3, <1>4, EndsQuietly
<1> QED
  BY <1>1, <1>2, <1>5, QuietStep

LEMMA BodyLock ==
  ASSUME TypeInv, LockInv, NEW p \in Proc, BodyStep(p)
  PROVE  LockInv'
<1>1. /\ pc[p] \in {"ticket", "body", "stub", "rewrite", "reconcile"}
      /\ lock' = lock /\ dbStatus' = dbStatus
  BY DEF BodyStep, IssueTicket, ReadBody, ReadForStub, RewriteBody, Reconcile,
         tables
<1>2. stale \subseteq stale'
  BY CommittedEffect
  DEF BodyStep, IssueTicket, ReadBody, ReadForStub, RewriteBody, Reconcile,
      HealPath
<1>3. ProcOK /\ pc[p] \notin InTransaction
  BY <1>1 DEF TypeInv, InTransaction
<1>4. \/ Return(p) \/ FirstTransition(p)
      \/ \E l \in {"reconcile", "body", "idle"} : Goto(p, l)
      \/ \E j : Continue(p, "rewrite", j)
  BY DEF BodyStep, IssueTicket, ReadBody, ReadForStub, RewriteBody, Reconcile,
         AfterBody
<1>5. \A l \in {"reconcile", "body", "idle", "rewrite"} : Quiet(l)
  BY DEF Quiet, InTransaction
<1>6. /\ Quiet(pc'[p])
      /\ \A q \in Proc \ {p} : pc'[q] = pc[q] /\ job'[q] = job[q]
  BY <1>3, <1>4, <1>5, EndsQuietly
<1> QED
  BY <1>1, <1>2, <1>3, <1>6, QuietStep

LEMMA DirectLock ==
  ASSUME TypeInv, LockInv, NEW p \in Proc, DirectStep(p)
  PROVE  LockInv'
<1>1. /\ pc[p] \in {"fm_free", "unmove", "set_path", "force", "reset",
                    "remove", "drop_row", "drop", "orphan"}
      /\ lock' = lock
  BY DEF DirectStep, WriteFrontmatterFree, MoveFromCompleted, SetPath,
         ForceStatus, ResetHarness, RemoveFile, RemoveRow, RemoveOrphan, DeleteTask
<1>2. ProcOK /\ DataOK /\ pc[p] \notin InTransaction /\ job[p].task \in Task
  BY <1>1, RunningFacts DEF InTransaction
<1>3. \/ dbStatus' = dbStatus /\ stale \subseteq stale'
      \/ lock = NoProc /\ stale' = Proc
  <2>1. CASE ForceStatus(p)
    BY <1>2, <2>1 DEF ForceStatus, Committed, Free, DataOK
  <2>2. CASE DeleteTask(p)
    BY <1>2, <2>2 DEF DeleteTask, Committed, Free, DataOK
  <2>3. CASE ~ForceStatus(p) /\ ~DeleteTask(p)
    BY <2>3, CommittedEffect
    DEF DirectStep, WriteFrontmatterFree, MoveFromCompleted, SetPath,
        ResetHarness, RemoveFile, RemoveRow, RemoveOrphan, tables
  <2> QED
    BY <2>1, <2>2, <2>3
<1>4. \/ Return(p)
      \/ \E l \in {"unmove", "force", "idle", "set_path", "row", "reset",
                   "reconcile", "drop_row", "drop"} : Goto(p, l)
  BY DEF DirectStep, WriteFrontmatterFree, MoveFromCompleted, SetPath,
         ForceStatus, ResetHarness, RemoveFile, RemoveRow, RemoveOrphan, DeleteTask,
         AfterReopen
<1>5. \A l \in {"unmove", "force", "idle", "set_path", "row", "reset",
                "reconcile", "drop_row", "drop"} : Quiet(l)
  BY DEF Quiet, InTransaction
<1>6. /\ Quiet(pc'[p])
      /\ \A q \in Proc \ {p} : pc'[q] = pc[q] /\ job'[q] = job[q]
  BY <1>2, <1>4, <1>5, EndsQuietly
<1> QED
  BY <1>1, <1>2, <1>3, <1>6, QuietStep

\* The writer's own steps.  LeaveTransaction: it gives the lock back, having
\* changed no status or having outdated every snapshot.
LEMMA LeaveTransaction ==
  ASSUME TypeInv, LockInv, NEW p \in Proc, pc[p] \in InTransaction,
         Quiet(pc'[p]), lock' = NoProc,
         \A q \in Proc \ {p} : pc'[q] = pc[q] /\ job'[q] = job[q],
         \/ dbStatus' = dbStatus /\ stale \subseteq stale'
         \/ stale' = Proc
  PROVE  LockInv'
<1>1. lock = p /\ \A q \in Proc \ {p} : pc[q] \notin InTransaction
  BY DEF LockInv, WriterHoldsLock
<1>2. WriterHoldsLock'
  BY <1>1, SentinelAssumption DEF WriterHoldsLock, Quiet
<1>3. TestedStatusHolds'
  <2> SUFFICES ASSUME NEW q \in Proc,
                      \/ pc'[q] \in InTransaction
                      \/ pc'[q] = "lock" /\ q \notin stale'
               PROVE  dbStatus'[job'[q].task] = job'[q].from
    BY DEF TestedStatusHolds
  <2>1. q # p /\ pc'[q] = pc[q] /\ job'[q] = job[q]
    BY DEF Quiet
  <2> QED
    BY <1>1, <2>1 DEF LockInv, TestedStatusHolds
<1> QED
  BY <1>2, <1>3 DEF LockInv

LEMMA StayInTransaction ==
  ASSUME TypeInv, LockInv, NEW p \in Proc,
         pc'[p] \in InTransaction, lock' = p,
         \/ pc[p] \in InTransaction
         \/ pc[p] = "lock" /\ p \notin stale /\ lock = NoProc,
         \A q \in Proc \ {p} : pc'[q] = pc[q] /\ job'[q] = job[q],
         job'[p].task = job[p].task, job'[p].from = job[p].from,
         dbStatus' = dbStatus, stale' = stale
  PROVE  LockInv'
<1>1. \A q \in Proc \ {p} : pc[q] \notin InTransaction
  BY SentinelAssumption DEF LockInv, WriterHoldsLock
<1>2. WriterHoldsLock'
  BY <1>1 DEF WriterHoldsLock
<1>3. TestedStatusHolds'
  <2> SUFFICES ASSUME NEW q \in Proc,
                      \/ pc'[q] \in InTransaction
                      \/ pc'[q] = "lock" /\ q \notin stale'
               PROVE  dbStatus'[job'[q].task] = job'[q].from
    BY DEF TestedStatusHolds
  <2>1. CASE q = p
    BY <2>1 DEF LockInv, TestedStatusHolds
  <2>2. CASE q # p
    BY <2>2 DEF LockInv, TestedStatusHolds
  <2> QED
    BY <2>1, <2>2
<1> QED
  BY <1>2, <1>3 DEF LockInv

LEMMA TransitionLock ==
  ASSUME TypeInv, LockInv, NEW p \in Proc, TransitionStep(p)
  PROVE  LockInv'
<1> DEFINE j == job[p]
           t == j.task
           Others == \A q \in Proc \ {p} : pc'[q] = pc[q] /\ job'[q] = job[q]
<1>0. /\ pc[p] # "idle"
      /\ ProcOK /\ DataOK
  BY DEF TypeInv, TransitionStep, Lookup, Resolve, BeginTransaction,
         UpdateStatus, WriteFrontmatter, MoveToCompleted, CommitTransaction,
         WriteSprintRow
<1>1. CASE Lookup(p) \/ Resolve(p) \/ WriteSprintRow(p)
  <2>1. /\ pc[p] \notin InTransaction
        /\ lock' = lock /\ dbStatus' = dbStatus
    BY <1>1 DEF Lookup, Resolve, WriteSprintRow, InTransaction, tables
  <2>2. stale \subseteq stale'
    BY <1>1, CommittedEffect DEF Lookup, Resolve, WriteSprintRow, HealPath
  <2>3. \/ Return(p) \/ TransitionFailed(p) \/ TransitionSucceeded(p)
        \/ \E l \in {"drop_row", "force", "reset", "reconcile"} : Goto(p, l)
        \/ \E l \in {"resolve", "begin", "remove", "fm_free"} : \E k :
              Continue(p, l, k)
    BY <1>1 DEF Lookup, Resolve, WriteSprintRow, AfterReopen
  <2>4. \A l \in {"drop_row", "force", "reset", "reconcile", "resolve",
                  "begin", "remove", "fm_free"} : Quiet(l)
    BY DEF Quiet, InTransaction
  <2>5. Quiet(pc'[p]) /\ Others
    BY <1>0, <2>3, <2>4, EndsQuietly
  <2> QED
    BY <2>1, <2>2, <2>5, QuietStep
<1>2. CASE BeginTransaction(p)
  <2>1. CASE TransitionFailed(p) /\ UNCHANGED stale
    <3>1. Quiet(pc'[p]) /\ Others
      BY <1>0, <2>1, EndsQuietly
    <3> QED
      BY <1>2, <2>1, <3>1, QuietStep
      DEF BeginTransaction, InTransaction, tables
  <2>2. CASE Goto(p, "lock") /\ stale' = stale \ {p} /\ dbStatus[t] = j.from
    <3>1. pc'[p] = "lock" /\ job'[p] = j /\ Others
      BY <1>0, <2>2, ContinueEffect DEF Goto
    <3>2. pc[p] = "begin" /\ lock' = lock /\ dbStatus' = dbStatus
      BY <1>2 DEF BeginTransaction, tables
    <3>3. WriterHoldsLock'
      BY <3>1, <3>2 DEF LockInv, WriterHoldsLock, InTransaction
    <3>4. TestedStatusHolds'
      <4> SUFFICES ASSUME NEW q \in Proc,
                          \/ pc'[q] \in InTransaction
                          \/ pc'[q] = "lock" /\ q \notin stale'
                   PROVE  dbStatus'[job'[q].task] = job'[q].from
        BY DEF TestedStatusHolds
      <4>1. CASE q = p
        BY <2>2, <3>1, <3>2, <4>1
      <4>2. CASE q # p
        BY <2>2, <3>1, <3>2, <4>2 DEF LockInv, TestedStatusHolds
      <4> QED
        BY <4>1, <4>2
    <3> QED
      BY <3>3, <3>4 DEF LockInv
  <2> QED
    BY <1>2, <2>1, <2>2 DEF BeginTransaction
<1>3. CASE UpdateStatus(p)
  <2>1. pc[p] = "lock" /\ dbStatus' = dbStatus /\ stale' = stale
    BY <1>3 DEF UpdateStatus, tables
  <2>2. CASE TransitionFailed(p) /\ UNCHANGED lock
    <3>1. Quiet(pc'[p]) /\ Others
      BY <1>0, <2>2, EndsQuietly
    <3> QED
      BY <2>1, <2>2, <3>1, QuietStep DEF InTransaction
  <2>3. CASE Free /\ p \notin stale /\ lock' = p /\ Goto(p, "fm")
    <3>1. pc'[p] = "fm" /\ job'[p] = j /\ Others
      BY <1>0, <2>3, ContinueEffect DEF Goto
    <3> QED
      BY <2>1, <2>3, <3>1, StayInTransaction DEF InTransaction, Free
  <2> QED
    BY <1>3, <2>2, <2>3 DEF UpdateStatus
<1>4. CASE WriteFrontmatter(p) \/ MoveToCompleted(p)
  <2>1. /\ pc[p] \in InTransaction /\ lock = p
        /\ dbStatus' = dbStatus /\ stale' = stale
    BY <1>4 DEF WriteFrontmatter, MoveToCompleted, InTransaction, LockInv,
                WriterHoldsLock, tables
  <2>2. CASE Rollback(p)
    <3>1. Quiet(pc'[p]) /\ Others
      BY <1>0, <2>2, EndsQuietly DEF Rollback
    <3> QED
      BY <2>1, <2>2, <3>1, LeaveTransaction DEF Rollback
  <2>3. CASE /\ lock' = lock
             /\ \/ Goto(p, "move")
                \/ Goto(p, "commit")
                \/ Continue(p, "commit",
                            [j EXCEPT !.path = "completed", !.moved = TRUE])
    <3>1. /\ pc'[p] \in InTransaction /\ Others
          /\ job'[p].task = j.task /\ job'[p].from = j.from
      <4> DEFINE k == [j EXCEPT !.path = "completed", !.moved = TRUE]
      <4>1. k.task = j.task /\ k.from = j.from
        BY <1>0, RunningFacts DEF Job
      <4>2. CASE Goto(p, "move") \/ Goto(p, "commit")
        BY <1>0, <4>2, ContinueEffect DEF Goto, InTransaction
      <4>3. CASE Continue(p, "commit", k)
        <5> HIDE DEF k
        <5>1. pc'[p] = "commit" /\ job'[p] = k /\ Others
          BY <1>0, <4>3, ContinueEffect
        <5> QED
          BY <4>1, <5>1 DEF InTransaction
      <4> QED
        BY <2>3, <4>2, <4>3
    <3> QED
      BY <2>1, <2>3, <3>1, StayInTransaction
  <2>4. CASE WriteFrontmatter(p)
    BY <2>2, <2>3, <2>4 DEF WriteFrontmatter
  <2>5. CASE MoveToCompleted(p)
    BY <2>2, <2>3, <2>5 DEF MoveToCompleted
  <2> QED
    BY <1>4, <2>4, <2>5
<1>5. CASE CommitTransaction(p)
  <2>1. pc[p] \in InTransaction /\ lock' = NoProc
    BY <1>5 DEF CommitTransaction, InTransaction
  <2>2. Goto(p, "row") \/ TransitionSucceeded(p) \/ TransitionFailed(p)
    BY <1>5 DEF CommitTransaction
  <2>3. Quiet("row")
    BY DEF Quiet, InTransaction
  <2>4. Quiet(pc'[p]) /\ Others
    BY <1>0, <2>2, <2>3, EndsQuietly
  <2>5. \/ dbStatus' = dbStatus /\ stale \subseteq stale'
        \/ stale' = Proc
    BY <1>5 DEF CommitTransaction, Committed
  <2> QED
    BY <2>1, <2>4, <2>5, LeaveTransaction
<1> QED
  BY <1>1, <1>2, <1>3, <1>4, <1>5 DEF TransitionStep

LEMMA LockInvInit == Init => LockInv
  BY SentinelAssumption
  DEF Init, LockInv, WriterHoldsLock, TestedStatusHolds, InTransaction

LEMMA LockInvStep == TypeInv /\ LockInv /\ [Next]_vars => LockInv'
<1> SUFFICES ASSUME TypeInv, LockInv, [Next]_vars PROVE LockInv'
  OBVIOUS
<1>0. ProcOK /\ DataOK
  BY DEF TypeInv
<1>1. ASSUME NEW p \in Proc, NEW c \in AllCommands, NEW t \in Task,
             Issue(p, c, t)
      PROVE  LockInv'
  <2>1. /\ pc[p] \notin InTransaction
        /\ lock' = lock /\ dbStatus' = dbStatus /\ stale' = stale
    BY <1>1 DEF Issue, InTransaction, tables
  <2>2. \E l \in {"lookup", "ensure", "read"} : \E j : Continue(p, l, j)
    BY <1>1 DEF Issue
  <2>3. \A l \in {"lookup", "ensure", "read"} : Quiet(l)
    BY DEF Quiet, InTransaction
  <2>4. /\ Quiet(pc'[p])
        /\ \A q \in Proc \ {p} : pc'[q] = pc[q] /\ job'[q] = job[q]
    BY <1>0, <2>2, <2>3, EndsQuietly
  <2> QED
    BY <2>1, <2>4, QuietStep
<1>2. ASSUME NEW p \in Proc, ReadStatus(p) PROVE LockInv'
  <2>1. /\ pc[p] \notin InTransaction
        /\ lock' = lock /\ dbStatus' = dbStatus /\ stale' = stale
    BY <1>2 DEF ReadStatus, InTransaction, tables
  <2>2. \/ Return(p) \/ Goto(p, "ticket") \/ Goto(p, "orphan")
        \/ \E l \in {"ensure", "resolve"} : \E j : Continue(p, l, j)
    BY <1>2 DEF ReadStatus
  <2>3. \A l \in {"ensure", "resolve", "ticket", "orphan"} : Quiet(l)
    BY DEF Quiet, InTransaction
  <2>4. /\ Quiet(pc'[p])
        /\ \A q \in Proc \ {p} : pc'[q] = pc[q] /\ job'[q] = job[q]
    BY <1>0, <2>2, <2>3, EndsQuietly
  <2> QED
    BY <2>1, <2>4, QuietStep
<1>3. ASSUME NEW p \in Proc, Crash(p) PROVE LockInv'
  <2>1. /\ Quiet(pc'[p])
        /\ \A q \in Proc \ {p} : pc'[q] = pc[q] /\ job'[q] = job[q]
    BY <1>0, <1>3, EndsQuietly DEF Crash
  <2>2. /\ dbStatus' = dbStatus /\ stale' = stale
        /\ lock' = IF lock = p THEN NoProc ELSE lock
    BY <1>3 DEF Crash, tables
  <2>3. CASE pc[p] \in InTransaction
    BY <2>1, <2>2, <2>3, LeaveTransaction DEF LockInv, WriterHoldsLock
  <2>4. CASE pc[p] \notin InTransaction
    BY <2>1, <2>2, <2>4, QuietStep DEF LockInv, WriterHoldsLock
  <2> QED
    BY <2>3, <2>4
<1>4. CASE UNCHANGED vars
  BY <1>4 DEF vars, LockInv, WriterHoldsLock, TestedStatusHolds
<1> QED
  BY <1>1, <1>2, <1>3, <1>4, GateLock, TransitionLock, BodyLock, DirectLock,
     NextCases DEF Step

\* A process has the write lock exactly between UPDATE and COMMIT.
THEOREM WriterHoldsLockAlways == Spec => []WriterHoldsLock
<1>1. Spec => [](TypeInv /\ LockInv)
  BY TypeInvInit, TypeInvStep, LockInvInit, LockInvStep, PTL DEF Spec
<1> QED
  BY <1>1, PTL DEF LockInv

\* The status a transition tested is the Task's status when it changes the
\* files: no interleaving of commands lets a transition act on an old one.
THEOREM TestedStatusHoldsAlways == Spec => []TestedStatusHolds
<1>1. Spec => [](TypeInv /\ LockInv)
  BY TypeInvInit, TypeInvStep, LockInvInit, LockInvStep, PTL DEF Spec
<1> QED
  BY <1>1, PTL DEF LockInv

-----------------------------------------------------------------------------
(* Control flow: which command can be at which label, with which status    *)
(* transition in hand.                                                     *)

Transitions == {"start", "complete"}
Direct      == {"reopen", "update"}
Edges == {<<"todo", "in-progress">>, <<"in-progress", "done">>,
          <<"in-progress", "todo">>}

Tx == {"lookup", "begin", "lock", "fm", "move", "commit"}

FlowOK(l, j) ==
  /\ j.cmd \in Command
  /\ l \in Tx => j.cmd \in Transitions
  /\ l = "resolve" => j.cmd \in Transitions \cup Direct \cup {"delete"}
  /\ l = "row" => j.cmd \in Transitions \cup Direct
  /\ l \in {"stub", "gate"} => j.cmd = "complete"
  /\ l \in {"ticket", "body"} => j.cmd \in {"start", "checkpoint"}
  /\ l = "rewrite" => j.cmd \in {"start", "checkpoint", "complete"}
  /\ l \in {"fm_free", "force"} => j.cmd \in Direct
  /\ l \in {"unmove", "set_path", "reset"} => j.cmd = "reopen"
  /\ l \in {"remove", "drop_row", "drop", "orphan"} => j.cmd = "delete"
  /\ j.next = "gate" => j.cmd = "complete"
  /\ j.next = "check" => j.cmd = "check"
  /\ j.cmd = "start" => <<j.from, j.to>> = <<"todo", "in-progress">>
  /\ j.cmd = "complete" /\ l \in Tx \cup {"resolve", "row"}
       => <<j.from, j.to>> \in Edges
  /\ j.cmd = "reopen" => j.to \in {"todo", "in-progress"}

FlowInv == \A p \in Proc : pc[p] # "idle" => FlowOK(pc[p], job[p])

LEMMA FlowContinue ==
  ASSUME NEW p \in Proc, NEW l, NEW j, ProcOK, FlowInv, Continue(p, l, j),
         l # "idle" => FlowOK(l, j)
  PROVE  FlowInv'
<1> SUFFICES ASSUME NEW q \in Proc, pc'[q] # "idle"
             PROVE  FlowOK(pc'[q], job'[q])
  BY DEF FlowInv, FlowOK
<1>1. CASE q = p
  BY <1>1, ContinueEffect
<1>2. CASE q # p
  BY <1>2, ContinueEffect DEF FlowInv
<1> QED
  BY <1>1, <1>2

LEMMA FlowGoto ==
  ASSUME NEW p \in Proc, NEW l, ProcOK, FlowInv, Goto(p, l),
         l # "idle" => FlowOK(l, job[p])
  PROVE  FlowInv'
  BY FlowContinue DEF Goto

LEMMA FlowReturn ==
  ASSUME NEW p \in Proc, ProcOK, FlowInv, Return(p)
  PROVE  FlowInv'
  BY FlowGoto DEF Return

LEMMA FlowFirst ==
  ASSUME NEW p \in Proc, TypeInv, FlowInv, pc[p] # "idle",
         job[p].cmd = "complete", FirstTransition(p)
  PROVE  FlowInv'
<1> DEFINE s == IF job[p].cascade THEN "todo" ELSE "in-progress"
           r == IF job[p].cascade THEN "in-progress" ELSE "done"
           j == [job[p] EXCEPT !.from = s, !.to = r]
<1>1. /\ j.cmd = job[p].cmd /\ j.next = job[p].next
      /\ j.from = s /\ j.to = r
  BY RunningFacts DEF Job
<1>2. <<s, r>> \in Edges
  BY DEF Edges
<1>3. FlowOK("lookup", j)
  <2> HIDE DEF j, s, r
  <2> QED
    BY <1>1, <1>2 DEF FlowOK, FlowInv, Tx, Transitions
<1>4. Continue(p, "lookup", j)
  BY DEF FirstTransition
<1> QED
  BY <1>3, <1>4, FlowContinue DEF TypeInv

\* Edges by which `complete` goes on after a first transition.
LEMMA FlowAgain ==
  ASSUME NEW p \in Proc, TypeInv, FlowInv, pc[p] # "idle",
         job[p].cmd = "complete", NEW r \in {"todo", "done"},
         Continue(p, "lookup", [job[p] EXCEPT !.from = "in-progress", !.to = r])
  PROVE  FlowInv'
<1> DEFINE j == [job[p] EXCEPT !.from = "in-progress", !.to = r]
<1>1. /\ j.cmd = job[p].cmd /\ j.next = job[p].next
      /\ j.from = "in-progress" /\ j.to = r
  BY RunningFacts DEF Job
<1>2. <<"in-progress", r>> \in Edges
  BY DEF Edges
<1>3. FlowOK("lookup", j)
  <2> HIDE DEF j
  <2> QED
    BY <1>1, <1>2 DEF FlowOK, FlowInv, Tx, Transitions
<1> QED
  BY <1>3, FlowContinue DEF TypeInv

LEMMA FlowFailed ==
  ASSUME NEW p \in Proc, TypeInv, FlowInv, pc[p] # "idle", TransitionFailed(p)
  PROVE  FlowInv'
<1>1. CASE Return(p)
  BY <1>1, FlowReturn DEF TypeInv
<1>2. CASE ~Return(p)
  BY <1>2, FlowAgain DEF TransitionFailed
<1> QED
  BY <1>1, <1>2

LEMMA FlowSucceeded ==
  ASSUME NEW p \in Proc, TypeInv, FlowInv, pc[p] # "idle",
         job[p].cmd \in Transitions, TransitionSucceeded(p)
  PROVE  FlowInv'
<1> USE DEF TypeInv
<1>1. CASE job[p].cmd = "start"
  <2>1. Goto(p, "ticket")
    BY <1>1 DEF TransitionSucceeded
  <2>2. FlowOK("ticket", job[p])
    BY <1>1 DEF FlowOK, FlowInv, Tx
  <2> QED
    BY <2>1, <2>2, FlowGoto
<1>2. CASE job[p].cmd = "complete"
  <2>1. \/ Return(p) \/ Goto(p, "reconcile")
        \/ Continue(p, "lookup",
                    [job[p] EXCEPT !.from = "in-progress", !.to = "done"])
    BY <1>2 DEF TransitionSucceeded
  <2>2. FlowOK("reconcile", job[p])
    BY <1>2 DEF FlowOK, FlowInv, Tx
  <2> QED
    BY <1>2, <2>1, <2>2, FlowReturn, FlowGoto, FlowAgain
<1> QED
  BY <1>1, <1>2 DEF Transitions

LEMMA FlowIssue ==
  ASSUME TypeInv, FlowInv, NEW p \in Proc, NEW c \in AllCommands,
         NEW t \in Task, Issue(p, c, t)
  PROVE  FlowInv'
<1> DEFINE new == [NoJob EXCEPT !.cmd = c, !.task = t]
<1> USE DEF TypeInv
<1>0. c \in Command
  BY DEF Issue
<1>1. CASE c = "start"
  <2> DEFINE j == [new EXCEPT !.from = "todo", !.to = "in-progress"]
  <2>1. Continue(p, "lookup", j)
    BY <1>1 DEF Issue
  <2>2. /\ j.cmd = c /\ j.next = "idle" /\ j.from = "todo"
        /\ j.to = "in-progress"
    BY DEF NoJob
  <2>3. FlowOK("lookup", j)
    <3> HIDE DEF j
    <3> QED
      BY <1>0, <1>1, <2>2 DEF FlowOK, Transitions, Tx
  <2> QED
    BY <2>1, <2>3, FlowContinue
<1>2. CASE c = "check"
  <2>1. PICK i \in Item :
          Continue(p, "ensure", [new EXCEPT !.item = i, !.next = "check"])
    BY <1>2 DEF Issue
  <2> DEFINE j == [new EXCEPT !.item = i, !.next = "check"]
  <2>2. j.cmd = c /\ j.next = "check"
    BY DEF NoJob
  <2>3. FlowOK("ensure", j)
    <3> HIDE DEF j
    <3> QED
      BY <1>0, <1>2, <2>2 DEF FlowOK, Tx
  <2> QED
    BY <2>1, <2>3, FlowContinue
<1>3. CASE c \in {"reopen", "update"}
  <2>1. PICK s \in Status : /\ Continue(p, "read", [new EXCEPT !.to = s])
                            /\ c = "reopen" => s \in {"todo", "in-progress"}
    BY <1>3 DEF Issue, Status
  <2> DEFINE j == [new EXCEPT !.to = s]
  <2>2. j.cmd = c /\ j.next = "idle" /\ j.to = s
    BY DEF NoJob
  <2>3. FlowOK("read", j)
    <3> HIDE DEF j
    <3> QED
      BY <1>0, <1>3, <2>1, <2>2 DEF FlowOK, Tx
  <2> QED
    BY <2>1, <2>3, FlowContinue
<1>4. CASE c \notin {"start", "check", "reopen", "update"}
  <2>1. Continue(p, "read", new)
    BY <1>4 DEF Issue
  <2>2. new.cmd = c /\ new.next = "idle"
    BY DEF NoJob
  <2>3. FlowOK("read", new)
    <3> HIDE DEF new
    <3> QED
      BY <1>0, <1>4, <2>2 DEF FlowOK, Tx
  <2> QED
    BY <2>1, <2>3, FlowContinue
<1> QED
  BY <1>1, <1>2, <1>3, <1>4

LEMMA FlowReadStatus ==
  ASSUME TypeInv, FlowInv, NEW p \in Proc, ReadStatus(p)
  PROVE  FlowInv'
<1> DEFINE j == job[p]
           s == dbStatus[j.task]
           k == [j EXCEPT !.cascade = (s = "todo"), !.next = "gate"]
           m == [j EXCEPT !.from = s, !.path = dbPath[j.task]]
<1> USE DEF TypeInv
<1>1. pc[p] = "read" /\ FlowOK("read", j) /\ j \in Job
  BY RunningFacts DEF ReadStatus, FlowInv
<1>2. \/ Return(p)
      \/ j.cmd = "complete" /\ Continue(p, "ensure", k)
      \/ j.cmd = "checkpoint" /\ Goto(p, "ticket")
      \/ j.cmd = "delete" /\ Goto(p, "orphan")
      \/ j.cmd \in {"reopen", "delete", "update"} /\ Continue(p, "resolve", m)
  BY DEF ReadStatus
<1>3. /\ k.cmd = j.cmd /\ k.next = "gate"
      /\ m.cmd = j.cmd /\ m.next = j.next /\ m.to = j.to
  BY <1>1 DEF Job
<1>4. CASE j.cmd = "complete" /\ Continue(p, "ensure", k)
  <2>1. FlowOK("ensure", k)
    <3> HIDE DEF k
    <3> QED
      BY <1>1, <1>3, <1>4 DEF FlowOK, Tx
  <2> QED
    BY <1>4, <2>1, FlowContinue
<1>5. CASE j.cmd = "checkpoint" /\ Goto(p, "ticket")
  <2>1. FlowOK("ticket", j)
    BY <1>1, <1>5 DEF FlowOK, Tx
  <2> QED
    BY <1>5, <2>1, FlowGoto
<1>6. CASE j.cmd \in {"reopen", "delete", "update"} /\ Continue(p, "resolve", m)
  <2>1. FlowOK("resolve", m)
    <3> HIDE DEF m
    <3> QED
      BY <1>1, <1>3, <1>6 DEF FlowOK, Tx, Direct
  <2> QED
    BY <1>6, <2>1, FlowContinue
<1>7. CASE j.cmd = "delete" /\ Goto(p, "orphan")
  <2>1. FlowOK("orphan", j)
    BY <1>1, <1>7 DEF FlowOK, Tx
  <2> QED
    BY <1>7, <2>1, FlowGoto
<1> QED
  BY <1>2, <1>4, <1>5, <1>6, <1>7, FlowReturn

LEMMA FlowGate ==
  ASSUME TypeInv, FlowInv, NEW p \in Proc, GateStep(p)
  PROVE  FlowInv'
<1> DEFINE j == job[p]
           k == [j EXCEPT !.next = "idle"]
<1> USE DEF TypeInv
<1>1. /\ pc[p] \in {"ensure", "gate", "check"}
      /\ FlowOK(pc[p], j) /\ j \in Job /\ GoodJob(j)
  BY RunningFacts DEF GateStep, EnsureItems, Gate, CheckItem, FlowInv
<1>2. \/ Return(p)
      \/ EnsureItems(p) /\ Goto(p, j.next)
      \/ pc[p] = "gate" /\ Goto(p, "stub")
      \/ Continue(p, "ensure", k)
  BY DEF GateStep, EnsureItems, Gate, CheckItem
<1>3. k.cmd = j.cmd /\ k.next = "idle" /\ k.from = j.from /\ k.to = j.to
  BY <1>1 DEF Job
<1>4. CASE EnsureItems(p) /\ Goto(p, j.next)
  <2>1. pc[p] = "ensure"
    BY <1>4 DEF EnsureItems
  <2>2. j.next # "idle" => FlowOK(j.next, j)
    BY <1>1, <2>1 DEF FlowOK, GoodJob, Tx
  <2> QED
    BY <1>4, <2>2, FlowGoto
<1>5. CASE pc[p] = "gate" /\ Goto(p, "stub")
  <2>1. FlowOK("stub", j)
    BY <1>1, <1>5 DEF FlowOK, Tx
  <2> QED
    BY <1>5, <2>1, FlowGoto
<1>6. CASE Continue(p, "ensure", k)
  <2>1. FlowOK("ensure", k)
    <3> HIDE DEF k
    <3> QED
      BY <1>1, <1>3 DEF FlowOK, Tx
  <2> QED
    BY <1>6, <2>1, FlowContinue
<1> QED
  BY <1>2, <1>4, <1>5, <1>6, FlowReturn

\* Between labels of one transition nothing of FlowOK changes hands but the
\* path and whether the file moved.
LEMMA FlowMove ==
  ASSUME NEW j, NEW k, NEW l, NEW m, FlowOK(l, j),
         k.cmd = j.cmd, k.next = j.next, k.from = j.from, k.to = j.to,
         \/ l \in Tx /\ m \in Tx \cup {"resolve"}
         \/ l = "resolve" /\ j.cmd \in Transitions /\ m = "begin"
         \/ l = "resolve" /\ j.cmd = "delete" /\ m \in {"remove", "drop_row"}
         \/ l = "resolve" /\ j.cmd \in Direct /\ m \in {"fm_free", "force"}
  PROVE  FlowOK(m, k)
<1>1. FlowOK(m, j)
  BY DEF FlowOK, Tx, Transitions, Direct
<1> QED
  BY <1>1 DEF FlowOK

LEMMA FlowTransition ==
  ASSUME TypeInv, FlowInv, NEW p \in Proc, TransitionStep(p)
  PROVE  FlowInv'
<1> DEFINE j == job[p]
           t == j.task
<1> USE DEF TypeInv
<1>0. pc[p] # "idle" /\ FlowOK(pc[p], j) /\ j \in Job /\ ProcOK
  BY RunningFacts
  DEF TransitionStep, Lookup, Resolve, BeginTransaction, UpdateStatus,
      WriteFrontmatter, MoveToCompleted, CommitTransaction, WriteSprintRow,
      FlowInv
<1>1. CASE TransitionFailed(p)
  BY <1>0, <1>1, FlowFailed
<1>2. CASE Lookup(p)
  <2>1. pc[p] = "lookup"
    BY <1>2 DEF Lookup
  <2> DEFINE k == [j EXCEPT !.path = dbPath[t], !.moved = FALSE]
  <2>2. CASE Continue(p, "resolve", k)
    <3>1. pc[p] \in Tx
      BY <2>1 DEF Tx
    <3>2. /\ k.cmd = j.cmd /\ k.next = j.next
          /\ k.from = j.from /\ k.to = j.to
      BY <1>0 DEF Job
    <3> HIDE DEF k
    <3>3. FlowOK("resolve", k)
      BY <1>0, <3>1, <3>2, FlowMove
    <3> QED
      BY <1>0, <2>2, <3>3, FlowContinue
  <2> QED
    BY <1>1, <1>2, <2>2 DEF Lookup
<1>3. CASE Resolve(p)
  <2> DEFINE k == [j EXCEPT !.path = Resolved(t, j.path)]
  <2>1. pc[p] = "resolve"
    BY <1>3 DEF Resolve
  <2>6. k.cmd = j.cmd /\ k.next = j.next /\ k.from = j.from /\ k.to = j.to
    BY <1>0 DEF Job
  <2>2. \/ TransitionFailed(p)
        \/ j.cmd = "delete" /\ Goto(p, "drop_row")
        \/ j.cmd \in Direct /\ Goto(p, "force")
        \/ j.cmd \in Transitions /\ Continue(p, "begin", k)
        \/ j.cmd = "delete" /\ Continue(p, "remove", k)
        \/ j.cmd \in Direct /\ Continue(p, "fm_free", k)
    <3>1. j.cmd \in Transitions \cup Direct \cup {"delete"}
      BY <1>0, <2>1 DEF FlowOK
    <3>2. CASE Resolved(t, j.path) = Nowhere
      BY <1>3, <3>1, <3>2 DEF Resolve, Transitions, Direct
    <3>3. CASE Resolved(t, j.path) # Nowhere
      BY <1>3, <3>1, <3>3 DEF Resolve, Transitions, Direct
    <3> QED
      BY <3>2, <3>3
  <2>3. CASE j.cmd \in Transitions /\ Continue(p, "begin", k)
    <3> HIDE DEF k
    <3>1. FlowOK("begin", k)
      BY <1>0, <2>1, <2>6, <2>3, FlowMove
    <3> QED
      BY <1>0, <2>3, <3>1, FlowContinue
  <2>4. CASE j.cmd = "delete" /\ (Continue(p, "remove", k) \/ Goto(p, "drop_row"))
    <3> HIDE DEF k
    <3>1. FlowOK("remove", k) /\ FlowOK("drop_row", j)
      BY <1>0, <2>1, <2>6, <2>4, FlowMove
    <3> QED
      BY <1>0, <2>4, <3>1, FlowContinue, FlowGoto
  <2>5. CASE j.cmd \in Direct /\ (Continue(p, "fm_free", k) \/ Goto(p, "force"))
    <3> HIDE DEF k
    <3>1. FlowOK("fm_free", k) /\ FlowOK("force", j)
      BY <1>0, <2>1, <2>6, <2>5, FlowMove
    <3> QED
      BY <1>0, <2>5, <3>1, FlowContinue, FlowGoto
  <2> QED
    BY <1>1, <2>2, <2>3, <2>4, <2>5
<1>4. CASE BeginTransaction(p) \/ UpdateStatus(p)
  <2>1. /\ pc[p] \in Tx
        /\ TransitionFailed(p) \/ Goto(p, "lock") \/ Goto(p, "fm")
    BY <1>4 DEF BeginTransaction, UpdateStatus, Tx
  <2>2. FlowOK("lock", j) /\ FlowOK("fm", j)
    BY <1>0, <2>1, FlowMove DEF Tx
  <2> QED
    BY <1>1, <2>1, <2>2, FlowGoto
<1>5. CASE WriteFrontmatter(p)
  <2>1. /\ pc[p] \in Tx
        /\ TransitionFailed(p) \/ Goto(p, "move")
    BY <1>5 DEF WriteFrontmatter, Rollback, Tx
  <2>2. FlowOK("move", j)
    BY <1>0, <2>1, FlowMove DEF Tx
  <2> QED
    BY <1>1, <2>1, <2>2, FlowGoto
<1>6. CASE MoveToCompleted(p)
  <2> DEFINE k == [j EXCEPT !.path = "completed", !.moved = TRUE]
  <2>3. k.cmd = j.cmd /\ k.next = j.next /\ k.from = j.from /\ k.to = j.to
    BY <1>0 DEF Job
  <2>1. /\ pc[p] \in Tx
        /\ TransitionFailed(p) \/ Goto(p, "commit") \/ Continue(p, "commit", k)
    BY <1>6 DEF MoveToCompleted, Rollback, Tx
  <2> HIDE DEF k
  <2>2. FlowOK("commit", j) /\ FlowOK("commit", k)
    BY <1>0, <2>1, <2>3, FlowMove DEF Tx
  <2> QED
    BY <1>1, <2>1, <2>2, FlowGoto, FlowContinue
<1>7. CASE CommitTransaction(p)
  <2>1. /\ pc[p] = "commit"
        /\ TransitionFailed(p) \/ TransitionSucceeded(p) \/ Goto(p, "row")
    BY <1>7 DEF CommitTransaction
  <2>2. j.cmd \in Transitions /\ FlowOK("row", j)
    BY <1>0, <2>1 DEF FlowOK, Tx
  <2> QED
    BY <1>0, <1>1, <2>1, <2>2, FlowGoto, FlowSucceeded
<1>8. CASE WriteSprintRow(p)
  <2>1. pc[p] = "row" /\ j.cmd \in Transitions \cup Direct
    BY <1>0, <1>8 DEF WriteSprintRow, FlowOK
  <2>2. \/ Return(p)
        \/ j.cmd = "reopen" /\ Goto(p, "reset")
        \/ j.cmd = "reopen" /\ Goto(p, "reconcile")
        \/ j.cmd \in Transitions /\ TransitionSucceeded(p)
    BY <1>8, <2>1 DEF WriteSprintRow, AfterReopen, Transitions, Direct
  <2>3. j.cmd = "reopen" => FlowOK("reset", j) /\ FlowOK("reconcile", j)
    BY <1>0, <2>1 DEF FlowOK, Tx
  <2> QED
    BY <1>0, <2>2, <2>3, FlowReturn, FlowGoto, FlowSucceeded
<1> QED
  BY <1>2, <1>3, <1>4, <1>5, <1>6, <1>7, <1>8 DEF TransitionStep

LEMMA FlowBody ==
  ASSUME TypeInv, FlowInv, NEW p \in Proc, BodyStep(p)
  PROVE  FlowInv'
<1> DEFINE j == job[p]
           k(l, s) == [j EXCEPT !.path = l, !.buf = s]
<1> USE DEF TypeInv
<1>0. pc[p] # "idle" /\ FlowOK(pc[p], j) /\ j \in Job /\ ProcOK
  BY RunningFacts
  DEF BodyStep, IssueTicket, ReadBody, ReadForStub, RewriteBody, Reconcile,
      FlowInv
<1>1. FlowOK("reconcile", j) \/ j.cmd = "complete"
  BY <1>0 DEF FlowOK, Tx
<1>2. CASE IssueTicket(p) \/ ReadBody(p)
  <2>1. /\ pc[p] \in {"ticket", "body"}
        /\ \/ Goto(p, "idle") \/ Goto(p, "reconcile")
           \/ pc[p] = "ticket" /\ Goto(p, "body")
           \/ \E l, s : Continue(p, "rewrite", k(l, s))
    BY <1>2 DEF IssueTicket, ReadBody, AfterBody
  <2>2. /\ j.cmd \in {"start", "checkpoint"}
        /\ pc[p] = "ticket" => FlowOK("body", j)
    BY <1>0, <2>1 DEF FlowOK, Tx
  <2>3. ASSUME NEW l, NEW s PROVE FlowOK("rewrite", k(l, s))
    <3>1. /\ k(l, s).cmd = j.cmd /\ k(l, s).next = j.next
          /\ k(l, s).from = j.from /\ k(l, s).to = j.to
      BY <1>0 DEF Job
    <3> HIDE DEF k
    <3> QED
      BY <1>0, <2>1, <2>2, <3>1 DEF FlowOK, Tx
  <2> QED
    BY <1>0, <1>1, <2>1, <2>2, <2>3, FlowGoto, FlowContinue
<1>3. CASE ReadForStub(p)
  <2>1. /\ pc[p] = "stub"
        /\ FirstTransition(p) \/ \E l, s : Continue(p, "rewrite", k(l, s))
    BY <1>3 DEF ReadForStub
  <2>2. j.cmd = "complete"
    BY <1>0, <2>1 DEF FlowOK
  <2>3. ASSUME NEW l, NEW s PROVE FlowOK("rewrite", k(l, s))
    <3>1. k(l, s).cmd = j.cmd /\ k(l, s).next = j.next
      BY <1>0 DEF Job
    <3> HIDE DEF k
    <3> QED
      BY <1>0, <2>1, <2>2, <3>1 DEF FlowOK, Tx
  <2> QED
    BY <1>0, <2>1, <2>2, <2>3, FlowFirst, FlowContinue
<1>4. CASE RewriteBody(p)
  <2>1. \/ j.cmd = "complete" /\ FirstTransition(p)
        \/ j.cmd # "complete" /\ Goto(p, "reconcile")
        \/ Goto(p, "idle")
    BY <1>4 DEF RewriteBody, AfterBody
  <2> QED
    BY <1>0, <1>1, <2>1, FlowFirst, FlowGoto
<1>5. CASE Reconcile(p)
  BY <1>0, <1>5, FlowReturn DEF Reconcile
<1> QED
  BY <1>2, <1>3, <1>4, <1>5 DEF BodyStep

LEMMA FlowDirect ==
  ASSUME TypeInv, FlowInv, NEW p \in Proc, DirectStep(p)
  PROVE  FlowInv'
<1> DEFINE j == job[p]
<1> USE DEF TypeInv
<1>0. pc[p] # "idle" /\ FlowOK(pc[p], j) /\ ProcOK
  BY DEF DirectStep, WriteFrontmatterFree, MoveFromCompleted, SetPath,
         ForceStatus, ResetHarness, RemoveFile, RemoveRow, RemoveOrphan, DeleteTask, FlowInv
<1>1. /\ j.cmd = "reopen" => \A l \in {"unmove", "set_path", "force", "row",
                                       "reset", "reconcile"} : FlowOK(l, j)
      /\ j.cmd = "update" => \A l \in {"force", "row"} : FlowOK(l, j)
      /\ j.cmd = "delete" => \A l \in {"drop_row", "drop"} : FlowOK(l, j)
  BY <1>0 DEF FlowOK, Tx, Direct
<1>2. CASE WriteFrontmatterFree(p) \/ ForceStatus(p)
  <2>1. j.cmd \in Direct
    BY <1>0, <1>2 DEF WriteFrontmatterFree, ForceStatus, FlowOK
  <2>2. \/ Goto(p, "idle") \/ Goto(p, "force") \/ Goto(p, "row")
        \/ /\ j.cmd = "reopen"
           /\ Goto(p, "unmove") \/ Goto(p, "reset") \/ Goto(p, "reconcile")
    BY <1>2, <2>1 DEF WriteFrontmatterFree, ForceStatus, AfterReopen, Direct
  <2> QED
    BY <1>0, <1>1, <2>1, <2>2, FlowGoto DEF Direct
<1>3. CASE MoveFromCompleted(p) \/ SetPath(p) \/ ResetHarness(p)
  <2>1. j.cmd = "reopen"
    BY <1>0, <1>3 DEF MoveFromCompleted, SetPath, ResetHarness, FlowOK
  <2>2. \E l \in {"set_path", "force", "reconcile"} : Goto(p, l)
    BY <1>3 DEF MoveFromCompleted, SetPath, ResetHarness
  <2> QED
    BY <1>0, <1>1, <2>1, <2>2, FlowGoto
<1>4. CASE RemoveFile(p) \/ RemoveRow(p) \/ RemoveOrphan(p) \/ DeleteTask(p)
  <2>1. j.cmd = "delete"
    BY <1>0, <1>4 DEF RemoveFile, RemoveRow, RemoveOrphan, DeleteTask, FlowOK
  <2>2. Goto(p, "drop_row") \/ Goto(p, "drop") \/ Return(p)
    BY <1>4 DEF RemoveFile, RemoveRow, RemoveOrphan, DeleteTask
  <2> QED
    BY <1>0, <1>1, <2>1, <2>2, FlowGoto, FlowReturn
<1> QED
  BY <1>2, <1>3, <1>4 DEF DirectStep

LEMMA FlowInvInit == Init => FlowInv
  BY DEF Init, FlowInv

LEMMA FlowInvStep == TypeInv /\ FlowInv /\ [Next]_vars => FlowInv'
<1> SUFFICES ASSUME TypeInv, FlowInv, [Next]_vars PROVE FlowInv'
  OBVIOUS
<1>1. ASSUME NEW p \in Proc, Crash(p) PROVE FlowInv'
  BY <1>1, FlowReturn DEF Crash, TypeInv
<1>2. CASE UNCHANGED vars
  BY <1>2 DEF vars, FlowInv
<1> QED
  BY <1>1, <1>2, FlowIssue, FlowReadStatus, FlowGate, FlowTransition,
     FlowBody, FlowDirect, NextCases DEF Step

-----------------------------------------------------------------------------
(* The statuses of a Task.                                                 *)

Sets(p, s) == dbStatus' = [dbStatus EXCEPT ![job[p].task] = s]

\* What changes a Task's status: the COMMIT of a transition, from the status
\* it tested; `reopen` and `update`, whatever the status of the Task that
\* still exists; the end of `delete`.
Commits(p) == /\ pc[p] = "commit"
              /\ Sets(p, job[p].to)
              /\ dbStatus[job[p].task] = job[p].from
              /\ <<job[p].from, job[p].to>> \in Edges
              /\ job[p].to = "done" => job[p].cmd = "complete"
Forces(p) == /\ pc[p] = "force"
             /\ Sets(p, job[p].to)
             /\ dbStatus[job[p].task] # Absent
             /\ job[p].cmd \in Command \cap Direct
             /\ job[p].cmd = "reopen" => job[p].to \in {"todo", "in-progress"}
Drops(p) == pc[p] = "drop" /\ Sets(p, Absent)

LEMMA StatusWriters ==
  ASSUME TypeInv, LockInv, FlowInv, Next
  PROVE  \/ UNCHANGED dbStatus
         \/ \E p \in Proc : Commits(p) \/ Forces(p) \/ Drops(p)
<1>1. ASSUME NEW p \in Proc, NEW c \in AllCommands, NEW t \in Task, Issue(p, c, t)
      PROVE  UNCHANGED dbStatus
  BY <1>1 DEF Issue, tables
<1>2. ASSUME NEW p \in Proc, ReadStatus(p) \/ Crash(p) PROVE UNCHANGED dbStatus
  BY <1>2 DEF ReadStatus, Crash, tables
<1>3. ASSUME NEW p \in Proc, GateStep(p) PROVE UNCHANGED dbStatus
  BY <1>3 DEF GateStep, EnsureItems, Gate, CheckItem, tables
<1>4. ASSUME NEW p \in Proc, BodyStep(p) PROVE UNCHANGED dbStatus
  BY <1>4 DEF BodyStep, IssueTicket, ReadBody, ReadForStub, RewriteBody,
              Reconcile, tables
<1>5. ASSUME NEW p \in Proc, TransitionStep(p)
      PROVE  UNCHANGED dbStatus \/ Commits(p)
  <2>1. CASE CommitTransaction(p)
    <3>1. pc[p] = "commit" /\ (UNCHANGED dbStatus \/ Sets(p, job[p].to))
      BY <2>1 DEF CommitTransaction, Sets
    <3>2. dbStatus[job[p].task] = job[p].from
      BY <3>1 DEF LockInv, TestedStatusHolds, InTransaction
    <3>3. FlowOK("commit", job[p])
      BY <3>1 DEF FlowInv
    <3>4. /\ <<job[p].from, job[p].to>> \in Edges
          /\ job[p].to = "done" => job[p].cmd = "complete"
      BY <3>3 DEF FlowOK, Tx, Transitions, Edges
    <3> QED
      BY <3>1, <3>2, <3>4 DEF Commits
  <2>2. CASE ~CommitTransaction(p)
    BY <1>5, <2>2
    DEF TransitionStep, Lookup, Resolve, BeginTransaction, UpdateStatus,
        WriteFrontmatter, MoveToCompleted, WriteSprintRow, tables
  <2> QED
    BY <2>1, <2>2
<1>6. ASSUME NEW p \in Proc, DirectStep(p)
      PROVE  UNCHANGED dbStatus \/ Forces(p) \/ Drops(p)
  <2>1. CASE ForceStatus(p)
    <3>1. /\ pc[p] = "force"
          /\ \/ UNCHANGED dbStatus
             \/ Sets(p, job[p].to) /\ dbStatus[job[p].task] # Absent
      BY <2>1 DEF ForceStatus, Sets
    <3>2. /\ job[p].cmd \in Command \cap Direct
          /\ job[p].cmd = "reopen" => job[p].to \in {"todo", "in-progress"}
      BY <3>1 DEF FlowInv, FlowOK
    <3> QED
      BY <3>1, <3>2 DEF Forces
  <2>2. CASE DeleteTask(p)
    BY <2>2 DEF DeleteTask, Drops, Sets
  <2>3. CASE ~ForceStatus(p) /\ ~DeleteTask(p)
    BY <1>6, <2>3
    DEF DirectStep, WriteFrontmatterFree, MoveFromCompleted, SetPath,
        ResetHarness, RemoveFile, RemoveRow, RemoveOrphan, tables
  <2> QED
    BY <2>1, <2>2, <2>3
<1> QED
  BY <1>1, <1>2, <1>3, <1>4, <1>5, <1>6, NextCases DEF Step

LEMMA StatusPathStep ==
  TypeInv /\ LockInv /\ FlowInv /\ [Next]_vars =>
    [\A t \in Task : StatusStep(t) \/ \E p \in Proc : UpdateBy(p)]_vars
<1> SUFFICES ASSUME TypeInv, LockInv, FlowInv, Next, NEW t \in Task
             PROVE  StatusStep(t) \/ \E p \in Proc : UpdateBy(p)
  OBVIOUS
<1>1. dbStatus \in [Task -> Content]
  BY DEF TypeInv, DataOK
<1>2. CASE UNCHANGED dbStatus
  BY <1>2 DEF StatusStep
<1>3. ASSUME NEW p \in Proc, Commits(p) PROVE StatusStep(t)
  BY <1>1, <1>3 DEF Commits, Sets, Edges, StatusStep, Absent
<1>4. ASSUME NEW p \in Proc, Forces(p) PROVE StatusStep(t) \/ UpdateBy(p)
  <2>1. CASE job[p].cmd = "update"
    BY <1>4, <2>1 DEF Forces, UpdateBy
  <2>2. CASE job[p].cmd = "reopen"
    BY <1>1, <1>4, <2>2 DEF Forces, Sets, StatusStep, Absent
  <2> QED
    BY <1>4, <2>1, <2>2 DEF Forces, Direct
<1>5. ASSUME NEW p \in Proc, Drops(p) PROVE StatusStep(t)
  BY <1>1, <1>5 DEF Drops, Sets, StatusStep, Absent
<1> QED
  BY <1>2, <1>3, <1>4, <1>5, StatusWriters

\* `task update` apart, no command makes a Task done that was not in progress,
\* makes one absorbed, or brings a deleted one back: however the commands of
\* the processes interleave and whatever fails.
THEOREM StatusPathAlways == Spec => StatusPath
<1>1. Spec => [](TypeInv /\ LockInv /\ FlowInv)
  BY TypeInvInit, TypeInvStep, LockInvInit, LockInvStep, FlowInvInit,
     FlowInvStep, PTL DEF Spec
<1> QED
  BY <1>1, StatusPathStep, PTL DEF Spec, StatusPath

-----------------------------------------------------------------------------
(* The Harness Gate.  Once `complete` has passed it, every item is checked *)
(* and stays so, if no `reopen` takes the checks back in between.          *)

Passed(p) == /\ job[p].cmd = "complete"
             /\ pc[p] \notin {"idle", "read", "ensure", "gate"}

GateInv == /\ GateHolds
           /\ \A p \in Proc : pc[p] = "gate" => seeded[job[p].task]
           /\ \A p \in Proc : Passed(p) => checked[job[p].task] = Item

\* A command works on one Task to its end, and comes to the gate only from
\* the rows that EnsureHarnessItems leaves.
Carries(p) ==
  /\ \/ pc'[p] = "idle"
     \/ /\ job'[p].cmd = job[p].cmd /\ job'[p].task = job[p].task
        /\ pc'[p] = "gate" => pc[p] = "ensure"
  /\ \A q \in Proc \ {p} : pc'[q] = pc[q] /\ job'[q] = job[q]

LEMMA CarriesContinue ==
  ASSUME ProcOK, NEW p \in Proc, NEW l, NEW k, Continue(p, l, k),
         k.cmd = job[p].cmd, k.task = job[p].task,
         l = "gate" => pc[p] = "ensure"
  PROVE  Carries(p)
  BY ContinueEffect DEF Carries

LEMMA CarriesGoto ==
  ASSUME ProcOK, NEW p \in Proc, NEW l, Goto(p, l),
         l = "gate" => pc[p] = "ensure"
  PROVE  Carries(p)
  BY CarriesContinue DEF Goto

LEMMA CarriesEnds ==
  ASSUME TypeInv, NEW p \in Proc,
         \/ Return(p) \/ FirstTransition(p)
         \/ TransitionFailed(p) \/ TransitionSucceeded(p)
  PROVE  Carries(p)
<1> USE DEF TypeInv
<1>0. ProcOK /\ job[p] \in Job
  BY DEF ProcOK
<1>1. CASE Return(p)
  BY <1>1, CarriesGoto DEF Return
<1>2. ASSUME NEW s, NEW r,
             Continue(p, "lookup", [job[p] EXCEPT !.from = s, !.to = r])
      PROVE  Carries(p)
  <2> DEFINE k == [job[p] EXCEPT !.from = s, !.to = r]
  <2>1. k.cmd = job[p].cmd /\ k.task = job[p].task
    BY <1>0 DEF Job
  <2>2. Continue(p, "lookup", k)
    BY <1>2
  <2> HIDE DEF k
  <2> QED
    BY <1>0, <2>1, <2>2, CarriesContinue
<1>3. CASE FirstTransition(p)
  BY <1>2, <1>3 DEF FirstTransition
<1>4. CASE TransitionFailed(p)
  BY <1>1, <1>2, <1>4 DEF TransitionFailed
<1>5. CASE TransitionSucceeded(p)
  <2>1. \/ Return(p) \/ Goto(p, "ticket") \/ Goto(p, "reconcile")
        \/ Continue(p, "lookup",
                    [job[p] EXCEPT !.from = "in-progress", !.to = "done"])
    BY <1>5 DEF TransitionSucceeded
  <2> QED
    BY <1>0, <1>1, <1>2, <2>1, CarriesGoto
<1> QED
  BY <1>1, <1>3, <1>4, <1>5

LEMMA CarriesSmall ==
  ASSUME TypeInv, NEW p \in Proc, ReadStatus(p) \/ GateStep(p)
  PROVE  Carries(p)
<1> DEFINE j == job[p]
           s == dbStatus[j.task]
           k == [j EXCEPT !.cascade = (s = "todo"), !.next = "gate"]
           m == [j EXCEPT !.from = s, !.path = dbPath[j.task]]
           n == [j EXCEPT !.next = "idle"]
<1>0. ProcOK /\ j \in Job
  BY DEF TypeInv, ProcOK
<1>1. \/ Return(p) \/ \E l \in {"ticket", "stub", "orphan"} : Goto(p, l)
      \/ pc[p] = "ensure" /\ Goto(p, j.next)
      \/ Continue(p, "ensure", k) \/ Continue(p, "resolve", m)
      \/ Continue(p, "ensure", n)
  BY DEF ReadStatus, GateStep, EnsureItems, Gate, CheckItem
<1>2. /\ k.cmd = j.cmd /\ k.task = j.task
      /\ m.cmd = j.cmd /\ m.task = j.task
      /\ n.cmd = j.cmd /\ n.task = j.task
  BY <1>0 DEF Job
<1> HIDE DEF k, m, n
<1> QED
  BY <1>0, <1>1, <1>2, CarriesContinue, CarriesGoto, CarriesEnds

LEMMA CarriesTransition ==
  ASSUME TypeInv, NEW p \in Proc, TransitionStep(p)
  PROVE  Carries(p)
<1> DEFINE j == job[p]
           k == [j EXCEPT !.path = dbPath[j.task], !.moved = FALSE]
           m == [j EXCEPT !.path = Resolved(j.task, j.path)]
           n == [j EXCEPT !.path = "completed", !.moved = TRUE]
<1>0. ProcOK /\ j \in Job
  BY DEF TypeInv, ProcOK
<1>1. CASE Lookup(p)
  <2>1. TransitionFailed(p) \/ Continue(p, "resolve", k)
    BY <1>1 DEF Lookup
  <2>2. k.cmd = j.cmd /\ k.task = j.task
    BY <1>0 DEF Job
  <2> HIDE DEF k
  <2> QED
    BY <1>0, <2>1, <2>2, CarriesContinue, CarriesEnds
<1>2. CASE Resolve(p)
  <2>1. \/ TransitionFailed(p) \/ Goto(p, "drop_row") \/ Goto(p, "force")
        \/ \E l \in {"begin", "remove", "fm_free"} : Continue(p, l, m)
    BY <1>2 DEF Resolve
  <2>2. m.cmd = j.cmd /\ m.task = j.task
    BY <1>0 DEF Job
  <2> HIDE DEF m
  <2> QED
    BY <1>0, <2>1, <2>2, CarriesContinue, CarriesGoto, CarriesEnds
<1>3. CASE MoveToCompleted(p)
  <2>1. TransitionFailed(p) \/ Goto(p, "commit") \/ Continue(p, "commit", n)
    BY <1>3 DEF MoveToCompleted, Rollback
  <2>2. n.cmd = j.cmd /\ n.task = j.task
    BY <1>0 DEF Job
  <2> HIDE DEF n
  <2> QED
    BY <1>0, <2>1, <2>2, CarriesContinue, CarriesGoto, CarriesEnds
<1>4. CASE ~Lookup(p) /\ ~Resolve(p) /\ ~MoveToCompleted(p)
  <2>1. \/ TransitionFailed(p) \/ TransitionSucceeded(p) \/ Return(p)
        \/ \E l \in {"lock", "fm", "move", "row", "reset", "reconcile"} :
             Goto(p, l)
    BY <1>4 DEF TransitionStep, BeginTransaction, UpdateStatus,
                WriteFrontmatter, CommitTransaction, WriteSprintRow, Rollback,
                AfterReopen
  <2> QED
    BY <1>0, <2>1, CarriesGoto, CarriesEnds
<1> QED
  BY <1>1, <1>2, <1>3, <1>4

LEMMA CarriesBody ==
  ASSUME TypeInv, NEW p \in Proc, BodyStep(p) \/ DirectStep(p)
  PROVE  Carries(p)
<1> DEFINE j == job[p]
           k(l, s) == [j EXCEPT !.path = l, !.buf = s]
<1>0. ProcOK /\ j \in Job
  BY DEF TypeInv, ProcOK
<1>1. CASE BodyStep(p)
  <2>1. \/ Return(p) \/ FirstTransition(p)
        \/ \E l \in {"idle", "reconcile", "body"} : Goto(p, l)
        \/ \E l, s : Continue(p, "rewrite", k(l, s))
    BY <1>1 DEF BodyStep, IssueTicket, ReadBody, ReadForStub, RewriteBody,
                Reconcile, AfterBody
  <2>2. ASSUME NEW l, NEW s
        PROVE  k(l, s).cmd = j.cmd /\ k(l, s).task = j.task
    BY <1>0 DEF Job
  <2> HIDE DEF k
  <2> QED
    BY <1>0, <2>1, <2>2, CarriesContinue, CarriesGoto, CarriesEnds
<1>2. CASE DirectStep(p)
  <2>1. \E l \in Label \ {"gate"} : Goto(p, l)
    BY <1>2 DEF DirectStep, WriteFrontmatterFree, MoveFromCompleted, SetPath,
                ForceStatus, ResetHarness, RemoveFile, RemoveRow, RemoveOrphan, DeleteTask,
                AfterReopen, Return, Label
  <2> QED
    BY <1>0, <2>1, CarriesGoto
<1> QED
  BY <1>1, <1>2

\* Without `reopen` no row disappears and no check is taken back.
LEMMA ChecksPersist ==
  ASSUME TypeInv, FlowInv, Next, "reopen" \notin Command, NEW t \in Task
  PROVE  /\ seeded[t] => seeded'[t]
         /\ checked[t] = Item => checked'[t] = Item
<1>0. seeded \in [Task -> BOOLEAN] /\ checked \in [Task -> SUBSET Item]
  BY DEF TypeInv, DataOK
<1>1. ASSUME NEW p \in Proc, EnsureItems(p)
      PROVE  UNCHANGED checked /\ (seeded[t] => seeded'[t])
  BY <1>0, <1>1 DEF EnsureItems
<1>2. ASSUME NEW p \in Proc, CheckItem(p)
      PROVE  UNCHANGED seeded /\ (checked[t] = Item => checked'[t] = Item)
  <2>1. job[p].item \in Item
    BY <1>2 DEF CheckItem, TypeInv, ProcOK, GoodJob
  <2>2. /\ UNCHANGED seeded
        /\ \/ UNCHANGED checked
           \/ checked' = [checked EXCEPT ![job[p].task] = @ \cup {job[p].item}]
    BY <1>2 DEF CheckItem
  <2>3. Item \cup {job[p].item} = Item
    BY <2>1
  <2> QED
    BY <1>0, <2>2, <2>3
<1>3. ASSUME NEW p \in Proc, Step(p), ~EnsureItems(p), ~CheckItem(p)
      PROVE  UNCHANGED <<seeded, checked>>
  <2>1. ~ResetHarness(p)
    BY DEF ResetHarness, FlowInv, FlowOK
  <2> QED
    BY <1>3, <2>1
    DEF Step, ReadStatus, GateStep, Gate, TransitionStep, Lookup, Resolve,
        BeginTransaction, UpdateStatus, WriteFrontmatter, MoveToCompleted,
        CommitTransaction, WriteSprintRow, BodyStep, IssueTicket, ReadBody,
        ReadForStub, RewriteBody, Reconcile, DirectStep, WriteFrontmatterFree,
        MoveFromCompleted, SetPath, ForceStatus, RemoveFile, RemoveRow,
        RemoveOrphan, DeleteTask, tables
<1>4. ASSUME NEW p \in Proc, \/ Crash(p)
                             \/ \E c \in AllCommands, u \in Task : Issue(p, c, u)
      PROVE  UNCHANGED <<seeded, checked>>
  BY <1>4 DEF Crash, Issue, tables
<1> QED
  BY <1>0, <1>1, <1>2, <1>3, <1>4, NextCases

\* Nothing but the gate lets `complete` pass.

LEMMA StepCarries ==
  ASSUME TypeInv, NEW p \in Proc, Step(p)
  PROVE  Carries(p) /\ pc[p] # "idle"
<1>1. pc[p] # "idle"
  BY DEF Step, ReadStatus, GateStep, EnsureItems, Gate, CheckItem,
         TransitionStep, Lookup, Resolve, BeginTransaction, UpdateStatus,
         WriteFrontmatter, MoveToCompleted, CommitTransaction, WriteSprintRow,
         BodyStep, IssueTicket, ReadBody, ReadForStub, RewriteBody, Reconcile,
         DirectStep, WriteFrontmatterFree, MoveFromCompleted, SetPath,
         ForceStatus, ResetHarness, RemoveFile, RemoveRow, RemoveOrphan, DeleteTask
<1> QED
  BY <1>1, CarriesSmall, CarriesTransition, CarriesBody DEF Step

\* At the labels before the gate.
LEMMA EarlySteps ==
  ASSUME NEW p \in Proc, Step(p), pc[p] \in {"read", "ensure", "gate"}
  PROVE  \/ pc[p] = "read" /\ ReadStatus(p)
         \/ pc[p] = "ensure" /\ EnsureItems(p)
         \/ pc[p] = "gate" /\ Gate(p)
  BY DEF Step, ReadStatus, GateStep, EnsureItems, Gate, CheckItem,
         TransitionStep, Lookup, Resolve, BeginTransaction, UpdateStatus,
         WriteFrontmatter, MoveToCompleted, CommitTransaction, WriteSprintRow,
         BodyStep, IssueTicket, ReadBody, ReadForStub, RewriteBody, Reconcile,
         DirectStep, WriteFrontmatterFree, MoveFromCompleted, SetPath,
         ForceStatus, ResetHarness, RemoveFile, RemoveRow, RemoveOrphan, DeleteTask

\* Nothing but the gate lets `complete` pass.
LEMMA Passing ==
  ASSUME TypeInv, FlowInv, GateInv, NEW p \in Proc, Step(p), Passed(p)',
         ~Passed(p)
  PROVE  checked[job[p].task] = Item
<1>1. ProcOK /\ Carries(p) /\ pc[p] # "idle"
  BY StepCarries DEF TypeInv
<1>2. /\ job[p].cmd = "complete" /\ pc[p] \in {"read", "ensure", "gate"}
      /\ pc'[p] \notin {"idle", "read", "ensure", "gate"}
  BY <1>1 DEF Carries, Passed
<1>3. CASE ReadStatus(p)
  <2>1. Return(p) \/ \E k : Continue(p, "ensure", k)
    BY <1>2, <1>3 DEF ReadStatus
  <2> QED
    BY <1>1, <1>2, <2>1, ContinueEffect DEF Return, Goto
<1>4. CASE EnsureItems(p)
  <2>1. Return(p) \/ Goto(p, job[p].next)
    BY <1>4 DEF EnsureItems
  <2>2. job[p].next \in {"idle", "gate"}
    BY <1>1, <1>2 DEF ProcOK, GoodJob, FlowInv, FlowOK
  <2> QED
    BY <1>1, <1>2, <2>1, <2>2, ContinueEffect DEF Return, Goto
<1>5. CASE Gate(p)
  <2>1. \/ Return(p) \/ \E k : Continue(p, "ensure", k)
        \/ seeded[job[p].task] => checked[job[p].task] = Item
    BY <1>5 DEF Gate, Unchecked
  <2>2. seeded[job[p].task]
    BY <1>5 DEF Gate, GateInv
  <2> QED
    BY <1>1, <1>2, <2>1, <2>2, ContinueEffect DEF Return, Goto
<1> QED
  BY <1>2, <1>3, <1>4, <1>5, EarlySteps

LEMMA AtGate ==
  ASSUME TypeInv, NEW p \in Proc, Step(p), pc'[p] = "gate"
  PROVE  seeded'[job'[p].task]
<1>1. Carries(p) /\ ProcOK /\ seeded \in [Task -> BOOLEAN]
  BY StepCarries DEF TypeInv, DataOK
<1>2. pc[p] = "ensure" /\ job'[p].task = job[p].task /\ job[p].task \in Task
  BY <1>1 DEF Carries, ProcOK, GoodJob
<1>3. EnsureItems(p) /\ ~Return(p)
  BY <1>1, <1>2, EarlySteps, ContinueEffect DEF Return, Goto
<1> QED
  BY <1>1, <1>2, <1>3 DEF EnsureItems

LEMMA Begins ==
  ASSUME TypeInv, NEW p \in Proc, NEW c \in AllCommands, NEW t \in Task,
         Issue(p, c, t)
  PROVE  /\ pc'[p] # "gate" /\ ~Passed(p)'
         /\ \A q \in Proc \ {p} : pc'[q] = pc[q] /\ job'[q] = job[q]
<1>1. ProcOK
  BY DEF TypeInv
<1>2. CASE c = "start"
  <2> DEFINE k == [[NoJob EXCEPT !.cmd = c, !.task = t]
                     EXCEPT !.from = "todo", !.to = "in-progress"]
  <2>1. Continue(p, "lookup", k)
    BY <1>2 DEF Issue
  <2>2. k.cmd = c
    BY DEF NoJob
  <2> HIDE DEF k
  <2> QED
    BY <1>1, <1>2, <2>1, <2>2, ContinueEffect DEF Passed
<1>3. CASE c # "start"
  <2>1. \E l \in {"read", "ensure"} : \E k : Continue(p, l, k)
    BY <1>3 DEF Issue
  <2> QED
    BY <1>1, <2>1, ContinueEffect DEF Passed
<1> QED
  BY <1>2, <1>3

LEMMA GateInvInit == Init => GateInv
  BY DEF Init, GateInv, GateHolds, Passed, NoJob

LEMMA GateInvStep ==
  ASSUME Command \cap {"reopen", "update"} = {},
         TypeInv, LockInv, FlowInv, GateInv, [Next]_vars
  PROVE  GateInv'
<1>1. CASE UNCHANGED vars
  BY <1>1 DEF vars, GateInv, GateHolds, Passed
<1> SUFFICES ASSUME Next PROVE GateInv'
  BY <1>1
<1>2. \A t \in Task : /\ seeded[t] => seeded'[t]
                      /\ checked[t] = Item => checked'[t] = Item
  BY ChecksPersist
<1>3. dbStatus \in [Task -> Content] /\ ProcOK
  BY DEF TypeInv, DataOK
<1>4. GateHolds'
  <2> SUFFICES ASSUME NEW t \in Task, dbStatus'[t] = "done"
               PROVE  checked[t] = Item
    BY <1>2 DEF GateHolds
  <2>1. CASE dbStatus[t] = "done"
    BY <2>1 DEF GateInv, GateHolds
  <2>2. ASSUME NEW p \in Proc, Commits(p), dbStatus[t] # "done"
        PROVE  checked[t] = Item
    <3>1. t = job[p].task /\ job[p].to = "done"
      BY <1>3, <2>2 DEF Commits, Sets
    <3>2. Passed(p)
      BY <2>2, <3>1 DEF Commits, Passed
    <3> QED
      BY <3>1, <3>2 DEF GateInv
  <2>3. ASSUME NEW p \in Proc, Forces(p) \/ Drops(p), dbStatus[t] # "done"
        PROVE  FALSE
    BY <1>3, <2>3 DEF Forces, Drops, Sets, Direct, Absent
  <2> QED
    BY <2>1, <2>2, <2>3, StatusWriters
<1>5. ASSUME NEW p \in Proc,
             \A q \in Proc \ {p} : pc'[q] = pc[q] /\ job'[q] = job[q],
             pc'[p] = "gate" => seeded'[job'[p].task],
             Passed(p)' => checked'[job'[p].task] = Item
      PROVE  GateInv'
  <2>1. ASSUME NEW q \in Proc, pc'[q] = "gate" PROVE seeded'[job'[q].task]
    BY <1>2, <1>3, <1>5, <2>1 DEF GateInv, ProcOK, GoodJob
  <2>2. ASSUME NEW q \in Proc, Passed(q)' PROVE checked'[job'[q].task] = Item
    BY <1>2, <1>3, <1>5, <2>2 DEF GateInv, ProcOK, GoodJob, Passed
  <2> QED
    BY <1>4, <2>1, <2>2 DEF GateInv
<1>6. ASSUME NEW p \in Proc, NEW c \in AllCommands, NEW t \in Task,
             Issue(p, c, t)
      PROVE  GateInv'
  BY <1>5, <1>6, Begins
<1>7. ASSUME NEW p \in Proc, Crash(p) PROVE GateInv'
  <2>1. /\ pc'[p] = "idle"
        /\ \A q \in Proc \ {p} : pc'[q] = pc[q] /\ job'[q] = job[q]
    BY <1>3, <1>7, ContinueEffect DEF Crash, Return, Goto
  <2> QED
    BY <1>5, <2>1 DEF Passed
<1>8. ASSUME NEW p \in Proc, Step(p) PROVE GateInv'
  <2>1. Carries(p) /\ pc[p] # "idle" /\ job[p].task \in Task
    BY <1>3, <1>8, StepCarries DEF ProcOK, GoodJob
  <2>2. pc'[p] = "gate" => seeded'[job'[p].task]
    BY <1>8, AtGate
  <2>3. ASSUME Passed(p)' PROVE checked'[job'[p].task] = Item
    <3>1. checked[job[p].task] = Item
      BY <1>8, <2>3, Passing DEF GateInv
    <3>2. job'[p].task = job[p].task
      BY <2>1, <2>3 DEF Carries, Passed
    <3> QED
      BY <1>2, <2>1, <3>1, <3>2
  <2> QED
    BY <1>5, <2>1, <2>2, <2>3 DEF Carries
<1> QED
  BY <1>6, <1>7, <1>8, NextCases

\* Where nobody reopens Tasks or uses the escape hatch of `update`, no
\* interleaving of commands and no failure lets a Task be done with a required
\* item of the Harness Gate unchecked.
THEOREM GateHoldsAlways ==
  ASSUME Command \cap {"reopen", "update"} = {}
  PROVE  Spec => []GateHolds
<1>1. Init => TypeInv /\ LockInv /\ FlowInv /\ GateInv
  BY TypeInvInit, LockInvInit, FlowInvInit, GateInvInit
<1>2. TypeInv /\ LockInv /\ FlowInv /\ GateInv /\ [Next]_vars
        => TypeInv' /\ LockInv' /\ FlowInv' /\ GateInv'
  BY TypeInvStep, LockInvStep, FlowInvStep, GateInvStep
<1>3. GateInv => GateHolds
  BY DEF GateInv
<1> QED
  BY <1>1, <1>2, <1>3, PTL DEF Spec

-----------------------------------------------------------------------------
(* The checks of a Task: `harness check` adds one, a reopening takes all.  *)

Checks(p) == /\ pc[p] = "check"
             /\ checked' = [checked EXCEPT ![job[p].task] = @ \cup {job[p].item}]
             /\ UNCHANGED dbStatus
Resets(p) == /\ pc[p] = "reset"
             /\ checked' = [checked EXCEPT ![job[p].task] = {}]
             /\ UNCHANGED dbStatus

LEMMA CheckWriters ==
  ASSUME Next
  PROVE  \/ UNCHANGED checked
         \/ \E p \in Proc : Checks(p) \/ Resets(p)
<1>1. ASSUME NEW p \in Proc, NEW c \in AllCommands, NEW t \in Task, Issue(p, c, t)
      PROVE  UNCHANGED checked
  BY <1>1 DEF Issue, tables
<1>2. ASSUME NEW p \in Proc, ReadStatus(p) \/ Crash(p) PROVE UNCHANGED checked
  BY <1>2 DEF ReadStatus, Crash, tables
<1>3. ASSUME NEW p \in Proc, GateStep(p) PROVE UNCHANGED checked \/ Checks(p)
  BY <1>3 DEF GateStep, EnsureItems, Gate, CheckItem, tables, Checks
<1>4. ASSUME NEW p \in Proc, BodyStep(p) PROVE UNCHANGED checked
  BY <1>4 DEF BodyStep, IssueTicket, ReadBody, ReadForStub, RewriteBody,
              Reconcile, tables
<1>5. ASSUME NEW p \in Proc, TransitionStep(p) PROVE UNCHANGED checked
  BY <1>5 DEF TransitionStep, Lookup, Resolve, BeginTransaction, UpdateStatus,
              WriteFrontmatter, MoveToCompleted, CommitTransaction,
              WriteSprintRow, tables
<1>6. ASSUME NEW p \in Proc, DirectStep(p) PROVE UNCHANGED checked \/ Resets(p)
  BY <1>6 DEF DirectStep, WriteFrontmatterFree, MoveFromCompleted, SetPath,
              ForceStatus, ResetHarness, RemoveFile, RemoveRow, DeleteTask,
              RemoveOrphan, tables, Resets
<1> QED
  BY <1>1, <1>2, <1>3, <1>4, <1>5, <1>6, NextCases DEF Step

-----------------------------------------------------------------------------
(* The promise, kept by any number of processes that start, complete and   *)
(* check.                                                                  *)

LEMMA EarnedAlone ==
  ASSUME TypeInv, FlowInv, "reopen" \notin Command
  PROVE  Earned = checked
<1>1. \A t \in Task : ~Disarming(t)
  BY DEF Disarming, FlowInv, FlowOK
<1> QED
  BY <1>1 DEF Earned, TypeInv, DataOK

LEMMA PromiseInit == ASSUME Init PROVE Promise!Init
<1>1. \A t \in Task : ~Disarming(t)
  BY DEF Init, Disarming
<1>2. Earned = [t \in Task |-> {}]
  BY <1>1 DEF Init, Earned
<1> QED
  BY <1>2 DEF Init, Promise!Init

LEMMA PromiseCommit ==
  ASSUME TypeInv, NEW p \in Proc, Passed(p) => checked[job[p].task] = Item,
         Commits(p), Earned' = Earned, Earned = checked
  PROVE  Promise!Next
<1> DEFINE t == job[p].task
<1>1. /\ t \in Task /\ dbStatus[t] = job[p].from
      /\ dbStatus' = [dbStatus EXCEPT ![t] = job[p].to]
      /\ <<job[p].from, job[p].to>> \in Edges
  BY DEF Commits, Sets, TypeInv, ProcOK, GoodJob
<1>2. CASE job[p].from = "todo" /\ job[p].to = "in-progress"
  <2>1. Promise!Start(t)
    BY <1>1, <1>2 DEF Promise!Start, Promise!Become
  <2> QED
    BY <1>1, <2>1 DEF Promise!Next
<1>3. CASE job[p].from = "in-progress" /\ job[p].to = "todo"
  <2>1. Promise!StepBack(t)
    BY <1>1, <1>3 DEF Promise!StepBack, Promise!Become
  <2> QED
    BY <1>1, <2>1 DEF Promise!Next
<1>4. CASE job[p].from = "in-progress" /\ job[p].to = "done"
  <2>1. Passed(p)
    BY <1>4 DEF Commits, Passed
  <2>2. checked[t] = Item
    BY <2>1
  <2>3. Promise!Complete(t)
    BY <1>1, <1>4, <2>2 DEF Promise!Complete, Promise!Become
  <2> QED
    BY <1>1, <2>3 DEF Promise!Next
<1> QED
  BY <1>1, <1>2, <1>3, <1>4 DEF Edges

LEMMA PromiseStep ==
  ASSUME Command \cap {"reopen", "update", "delete"} = {},
         TypeInv, LockInv, FlowInv, GateInv, TypeInv', FlowInv', [Next]_vars
  PROVE  [Promise!Next]_(Promise!vars)
<1>1. Earned = checked /\ Earned' = checked'
  <2>1. \A t \in Task : ~Disarming(t)'
    BY DEF Disarming, FlowInv, FlowOK
  <2>2. Earned' = checked'
    BY <2>1 DEF Earned, TypeInv, DataOK
  <2> QED
    BY <2>2, EarnedAlone
<1>2. CASE UNCHANGED <<dbStatus, checked>>
  BY <1>1, <1>2 DEF Promise!vars
<1>3. ASSUME NEW p \in Proc, Checks(p)
      PROVE  Promise!Next
  <2>1. job[p].task \in Task /\ job[p].item \in Item
    BY <1>3 DEF Checks, TypeInv, ProcOK, GoodJob
  <2>2. Promise!Check(job[p].task, job[p].item)
    BY <1>1, <1>3 DEF Checks, Promise!Check
  <2> QED
    BY <2>1, <2>2 DEF Promise!Next
<1>4. ASSUME NEW p \in Proc, Resets(p) \/ Forces(p) \/ Drops(p)
      PROVE  FALSE
  BY <1>4 DEF Resets, Forces, Drops, FlowInv, FlowOK, Direct
<1>5. ASSUME NEW p \in Proc, Commits(p), UNCHANGED checked
      PROVE  Promise!Next
  BY <1>1, <1>5, PromiseCommit DEF GateInv
<1>6. CASE UNCHANGED vars
  BY <1>2, <1>6 DEF vars, tables
<1>7. CASE Next
  <2>1. UNCHANGED checked \/ \E p \in Proc : Checks(p)
    BY <1>4, <1>7, CheckWriters
  <2>2. UNCHANGED dbStatus \/ \E p \in Proc : Commits(p)
    BY <1>4, <1>7, StatusWriters
  <2>3. CASE UNCHANGED checked
    BY <1>2, <1>5, <2>2, <2>3
  <2> QED
    BY <1>3, <2>1, <2>3
<1> QED
  BY <1>6, <1>7

\* Whatever any number of processes start, complete and check, however they
\* interleave and fail: the database does nothing that TaskStateMachine does
\* not promise.  A Task goes from todo to in-progress to done, and to done with
\* every required item checked (transitionTask, Complete, HarnessCheck).
THEOREM LifecycleImplements ==
  ASSUME Command \cap {"reopen", "update", "delete"} = {}
  PROVE  Spec => PromiseKept
<1> DEFINE Inv == TypeInv /\ LockInv /\ FlowInv /\ GateInv
<1>1. Init => Inv
  BY TypeInvInit, LockInvInit, FlowInvInit, GateInvInit
<1>2. Inv /\ [Next]_vars => Inv'
  BY TypeInvStep, LockInvStep, FlowInvStep, GateInvStep
<1>3. Inv /\ Inv' /\ [Next]_vars => [Promise!Next]_(Promise!vars)
  BY PromiseStep
<1>4. Init => Promise!Init
  BY PromiseInit
<1> QED
  BY <1>1, <1>2, <1>3, <1>4, PTL DEF Spec, PromiseKept, Promise!Spec
-----------------------------------------------------------------------------
(* Files and database.  Where commands only start, complete and check, the *)
(* file of a Task that needs neither ticket nor Result section is written  *)
(* by the transaction that changes its status and by nothing else.         *)

Writes == {"move", "commit"}
WrittenBy(p, t) == pc[p] \in Writes /\ job[p].task = t

SaysStatus(t) == \A l \in Copies(t) : file[t][l] = dbStatus[t]

\* Where a Task's file lies as long as nothing failed: it moves before COMMIT.
MovedBy(p, t) == pc[p] = "commit" /\ job[p].task = t /\ job[p].to = "done"
Place(t) ==
  IF t \notin SprintTask /\ (dbStatus[t] = "done" \/ \E p \in Proc : MovedBy(p, t))
  THEN "completed" ELSE Home(t)

\* What holds of a Task, whose one file is being written at most ...
KeptTask(t) ==
  /\ dbStatus[t] # Absent /\ ticket[t]
  /\ \E l \in Loc : Copies(t) = {l}
  /\ t \in torn \/ SaysStatus(t) \/ \E p \in Proc : WrittenBy(p, t)
  /\ faults = 0 => Copies(t) = {Place(t)}

\* ... and of a process that works on it.
KeepsTask(p) ==
  /\ pc[p] \notin {"body", "rewrite"}
  /\ pc[p] \in {"begin", "lock", "fm"} => job[p].path \in Loc
  /\ pc[p] \in Writes => /\ job[p].path \in Copies(job[p].task)
                         /\ file[job[p].task][job[p].path] = job[p].to
                         /\ job[p].to # Absent

FilesInv ==
  /\ \A t \in Prepared : KeptTask(t)
  /\ \A p \in Proc : job[p].task \in Prepared => KeepsTask(p)

\* A step that leaves what is recorded of a Task alone.
Leaves(t) == /\ file'[t] = file[t] /\ dbStatus'[t] = dbStatus[t]
             /\ ticket'[t] = ticket[t] /\ (t \in torn' <=> t \in torn)

\* A step of a process that writes no file, before and after.
Apart(p) ==
  /\ \A t \in Prepared : Leaves(t)
  /\ faults' = 0 => faults = 0
  /\ pc[p] \notin Writes /\ pc'[p] \notin Writes
  /\ job'[p].task \in Prepared =>
       /\ pc'[p] \notin {"body", "rewrite"}
       /\ pc'[p] \in {"begin", "lock", "fm"} => job'[p].path \in Loc
  /\ \A q \in Proc \ {p} : pc'[q] = pc[q] /\ job'[q] = job[q]

\* A Task that is left alone, and whose writers are the same.
LEMMA LeftAlone ==
  ASSUME NEW t \in Prepared, KeptTask(t), Leaves(t), faults' = 0 => faults = 0,
         \A q \in Proc : /\ WrittenBy(q, t)' <=> WrittenBy(q, t)
                         /\ MovedBy(q, t)' <=> MovedBy(q, t)
  PROVE  KeptTask(t)'
<1>1. Copies(t)' = Copies(t)
  BY DEF Leaves, Copies
<1>2. Place(t)' = Place(t)
  BY DEF Place, Home, Leaves
<1>3. SaysStatus(t)' <=> SaysStatus(t)
  BY <1>1 DEF SaysStatus, Leaves
<1> QED
  BY <1>1, <1>2, <1>3 DEF KeptTask, Leaves

LEMMA StaysOut ==
  ASSUME NEW q \in Proc, job[q].task \in Prepared => KeepsTask(q),
         pc'[q] = pc[q], job'[q] = job[q],
         pc[q] \in Writes => Leaves(job[q].task)
  PROVE  job'[q].task \in Prepared => KeepsTask(q)'
<1> SUFFICES ASSUME job'[q].task \in Prepared PROVE KeepsTask(q)'
  OBVIOUS
<1>1. pc'[q] \in Writes => Copies(job[q].task)' = Copies(job[q].task)
  BY DEF Leaves, Copies
<1> QED
  BY <1>1 DEF KeepsTask, Leaves

LEMMA ApartKeeps ==
  ASSUME FilesInv, NEW p \in Proc, Apart(p)
  PROVE  FilesInv'
<1>1. ASSUME NEW t \in Prepared PROVE KeptTask(t)'
  <2>1. \A q \in Proc : /\ WrittenBy(q, t)' <=> WrittenBy(q, t)
                        /\ MovedBy(q, t)' <=> MovedBy(q, t)
    BY DEF Apart, WrittenBy, MovedBy, Writes
  <2> QED
    BY <2>1, LeftAlone DEF FilesInv, Apart
<1>2. ASSUME NEW q \in Proc \ {p}, job'[q].task \in Prepared PROVE KeepsTask(q)'
  BY <1>2, StaysOut DEF FilesInv, Apart
<1>3. job'[p].task \in Prepared => KeepsTask(p)'
  BY DEF Apart, KeepsTask
<1> QED
  BY <1>1, <1>2, <1>3 DEF FilesInv

\* A step of the process in the transaction concerns the one Task it works on.
LEMMA InsideKeeps ==
  ASSUME FilesInv, WriterHoldsLock, NEW p \in Proc, pc[p] \in InTransaction, Carries(p),
         NEW t, t = job[p].task, \A u \in Prepared \ {t} : Leaves(u),
         faults' = 0 => faults = 0,
         t \in Prepared => KeptTask(t)' /\ (pc'[p] # "idle" => KeepsTask(p)')
  PROVE  FilesInv'
<1>1. \A q \in Proc \ {p} : /\ pc[q] \notin InTransaction
                            /\ pc'[q] = pc[q] /\ job'[q] = job[q]
  BY DEF WriterHoldsLock, Carries
<1>2. pc'[p] = "idle" \/ job'[p].task = job[p].task
  BY DEF Carries
<1>3. ASSUME NEW u \in Prepared \ {t} PROVE KeptTask(u)'
  <2>1. \A q \in Proc : /\ WrittenBy(q, u)' <=> WrittenBy(q, u)
                        /\ MovedBy(q, u)' <=> MovedBy(q, u)
    BY <1>1, <1>2 DEF WrittenBy, MovedBy, Writes
  <2> QED
    BY <2>1, LeftAlone DEF FilesInv
<1>4. ASSUME NEW q \in Proc \ {p}, job'[q].task \in Prepared PROVE KeepsTask(q)'
  <2>1. pc[q] \notin Writes
    BY <1>1 DEF InTransaction, Writes
  <2> QED
    BY <1>1, <1>4, <2>1, StaysOut DEF FilesInv
<1>5. ASSUME job'[p].task \in Prepared PROVE KeepsTask(p)'
  <2>1. CASE pc'[p] = "idle"
    BY <2>1 DEF KeepsTask, Writes
  <2> QED
    BY <1>2, <1>5, <2>1
<1> QED
  BY <1>3, <1>4, <1>5 DEF FilesInv

\* The labels a command goes on at when a transition or the command ends.
LEMMA EndLabels ==
  ASSUME NEW p \in Proc, ProcOK,
         \/ Return(p) \/ FirstTransition(p)
         \/ TransitionFailed(p) \/ TransitionSucceeded(p)
  PROVE  pc'[p] \in {"idle", "lookup", "ticket", "reconcile"}
  BY DEF Return, FirstTransition, TransitionFailed, TransitionSucceeded, Goto,
         Continue, ProcOK

\* What reads a body in order to write it back, and what leads to a transaction.
LEMMA Entries ==
  ASSUME TypeInv, FlowInv, NEW p \in Proc, Step(p),
         pc'[p] \in {"body", "rewrite", "begin", "lock", "fm"}
  PROVE  \/ IssueTicket(p) \/ ReadBody(p) \/ ReadForStub(p)
         \/ Resolve(p) \/ BeginTransaction(p) \/ UpdateStatus(p)
<1>0. ProcOK
  BY DEF TypeInv
<1> USE <1>0, EndLabels, ContinueEffect DEF Goto
<1>1. ~ReadStatus(p)
  BY DEF ReadStatus
<1>2. ~GateStep(p)
  <2>1. ~EnsureItems(p)
    BY DEF EnsureItems, ProcOK, GoodJob, Return
  <2>2. ~Gate(p) /\ ~CheckItem(p)
    BY DEF Gate, CheckItem
  <2> QED
    BY <2>1, <2>2 DEF GateStep
<1>3. ~Lookup(p)
  BY DEF Lookup
<1>4. ~WriteFrontmatter(p) /\ ~MoveToCompleted(p) /\ ~CommitTransaction(p)
  <2>1. ~WriteFrontmatter(p)
    BY DEF WriteFrontmatter, Rollback
  <2>2. ~MoveToCompleted(p)
    BY DEF MoveToCompleted, Rollback
  <2>3. ~CommitTransaction(p)
    BY DEF CommitTransaction
  <2> QED
    BY <2>1, <2>2, <2>3
<1>5. ~WriteSprintRow(p)
  BY DEF WriteSprintRow, AfterReopen
<1>6. ~RewriteBody(p) /\ ~Reconcile(p)
  <2>1. AfterBody(job[p]) \in {"reconcile", "idle"}
    BY DEF AfterBody
  <2> QED
    BY <2>1 DEF RewriteBody, Reconcile
<1>7. ~DirectStep(p)
  BY DEF DirectStep, WriteFrontmatterFree, MoveFromCompleted, SetPath,
         ForceStatus, ResetHarness, RemoveFile, RemoveRow, DeleteTask,
         RemoveOrphan, AfterReopen
<1> QED
  BY <1>1, <1>2, <1>3, <1>4, <1>5, <1>6, <1>7 DEF Step, TransitionStep, BodyStep

OnlyTransitions == Command \subseteq {"start", "complete", "check"}

LEMMA IssueApart ==
  ASSUME TypeInv, NEW p \in Proc, NEW c \in AllCommands, NEW t \in Task,
         Issue(p, c, t)
  PROVE  Apart(p)
<1>0. /\ ProcOK /\ pc[p] = "idle"
      /\ UNCHANGED <<file, dbStatus, ticket, torn, faults>>
  BY DEF TypeInv, Issue, tables, files
<1>1. \E l \in {"lookup", "read", "ensure"} : \E k : Continue(p, l, k)
  <2>1. CASE c = "start"
    BY <2>1 DEF Issue
  <2>2. CASE c # "start"
    BY <2>2 DEF Issue
  <2> QED
    BY <2>1, <2>2
<1>2. /\ pc'[p] \in {"lookup", "read", "ensure"}
      /\ \A q \in Proc \ {p} : pc'[q] = pc[q] /\ job'[q] = job[q]
  BY <1>0, <1>1, ContinueEffect
<1> QED
  BY <1>0, <1>2 DEF Apart, Leaves, Writes

\* Outside its transaction a command writes the file of no prepared Task.
LEMMA OutsideLeaves ==
  ASSUME OnlyTransitions, TypeInv, FlowInv, FilesInv, NEW p \in Proc, Step(p),
         pc[p] \notin InTransaction, NEW t \in Prepared
  PROVE  Leaves(t) /\ faults' = faults
<1>0. /\ pc[p] # "idle" => /\ FlowOK(pc[p], job[p]) /\ job[p].cmd \in Command
                           /\ job[p].task \in Task
      /\ job[p].task \in Prepared => KeepsTask(p)
      /\ file \in [Task -> [Loc -> Content]] /\ ticket \in [Task -> BOOLEAN]
      /\ t \in Task /\ ticket[t]
  BY SetAssumption DEF FlowInv, FlowOK, FilesInv, KeptTask, TypeInv, DataOK, ProcOK, GoodJob
<1>1. CASE ReadStatus(p)
  BY <1>1 DEF ReadStatus, Leaves, tables, files
<1>2. CASE GateStep(p)
  BY <1>2 DEF GateStep, EnsureItems, Gate, CheckItem, Leaves, tables, files
<1>3. CASE TransitionStep(p)
  BY <1>3
  DEF TransitionStep, Lookup, Resolve, BeginTransaction, UpdateStatus,
      WriteFrontmatter, MoveToCompleted, CommitTransaction, WriteSprintRow,
      InTransaction, Leaves, tables, files
<1>4. CASE ReadBody(p) \/ ReadForStub(p) \/ Reconcile(p)
  BY <1>4 DEF ReadBody, ReadForStub, Reconcile, Leaves, tables, files
<1>5. CASE IssueTicket(p)
  <2>1. job[p].cmd = "start" /\ job[p].task \in Task
    BY <1>0, <1>5 DEF IssueTicket, FlowOK, OnlyTransitions
  <2>2. UNCHANGED <<file, dbStatus, torn, faults>>
    BY <1>5 DEF IssueTicket, files
  <2>3. ticket'[t] = ticket[t]
    <3>1. CASE t = job[p].task
      BY <1>0, <1>5, <2>1, <3>1 DEF IssueTicket
    <3>2. CASE t # job[p].task
      BY <1>0, <1>5, <3>2 DEF IssueTicket
    <3> QED
      BY <3>1, <3>2
  <2> QED
    BY <2>2, <2>3 DEF Leaves
<1>6. CASE RewriteBody(p)
  <2>1. job[p].task \notin Prepared
    BY <1>0, <1>6 DEF RewriteBody, KeepsTask
  <2>2. file'[t] = file[t]
    BY <1>0, <1>6, <2>1 DEF RewriteBody, WriteFile
  <2> QED
    BY <1>6, <2>2 DEF RewriteBody, Leaves, tables
<1>7. ~DirectStep(p)
  BY <1>0
  DEF DirectStep, WriteFrontmatterFree, MoveFromCompleted, SetPath,
      ForceStatus, ResetHarness, RemoveFile, RemoveRow, DeleteTask,
      RemoveOrphan, FlowOK, OnlyTransitions, Direct
<1> QED
  BY <1>1, <1>2, <1>3, <1>4, <1>5, <1>6, <1>7 DEF Step, BodyStep

LEMMA OutsideFaults ==
  ASSUME OnlyTransitions, TypeInv, FlowInv, NEW p \in Proc, Step(p), pc[p] \notin InTransaction
  PROVE  faults' = faults
<1>1. CASE ReadStatus(p) \/ GateStep(p)
  BY <1>1 DEF ReadStatus, GateStep, EnsureItems, Gate, CheckItem
<1>2. CASE TransitionStep(p)
  BY <1>2
  DEF TransitionStep, Lookup, Resolve, BeginTransaction, UpdateStatus,
      WriteFrontmatter, MoveToCompleted, CommitTransaction, WriteSprintRow,
      InTransaction
<1>3. CASE BodyStep(p)
  BY <1>3 DEF BodyStep, IssueTicket, ReadBody, ReadForStub, RewriteBody, Reconcile
<1>4. ~DirectStep(p)
  <2>1. pc[p] # "idle" => FlowOK(pc[p], job[p]) /\ job[p].cmd \in Command
    BY DEF FlowInv, FlowOK
  <2> QED
    BY <2>1
    DEF DirectStep, WriteFrontmatterFree, MoveFromCompleted, SetPath,
        ForceStatus, ResetHarness, RemoveFile, RemoveRow, DeleteTask,
        RemoveOrphan, FlowOK, OnlyTransitions, Direct
<1> QED
  BY <1>1, <1>2, <1>3, <1>4 DEF Step

LEMMA OutsideLabels ==
  ASSUME OnlyTransitions, TypeInv, LockInv, FlowInv, FilesInv, LockInv', NEW p \in Proc, Step(p),
         pc[p] \notin InTransaction
  PROVE  /\ pc'[p] \notin Writes
         /\ job'[p].task \in Prepared =>
              /\ pc'[p] \notin {"body", "rewrite"}
              /\ pc'[p] \in {"begin", "lock", "fm"} => job'[p].path \in Loc
<1>0. /\ ProcOK /\ Carries(p) /\ pc[p] # "idle" /\ job[p] \in Job /\ job[p].task \in Task
      /\ FlowOK(pc[p], job[p])
      /\ job[p].task \in Prepared => KeepsTask(p) /\ ticket[job[p].task]
  BY StepCarries DEF TypeInv, ProcOK, GoodJob, FlowInv, FilesInv, KeptTask
<1>1. pc'[p] \notin Writes
  <2>1. CASE UpdateStatus(p)
    BY <1>0, <2>1, EndLabels, ContinueEffect DEF UpdateStatus, Goto, Writes
  <2>2. CASE ~UpdateStatus(p)
    <3>1. lock' = lock /\ lock # p
      <4>1. lock' = lock
        BY <2>2 DEF Step, ReadStatus, GateStep, EnsureItems, Gate, CheckItem,
           TransitionStep, Lookup, Resolve, BeginTransaction, UpdateStatus,
           WriteFrontmatter, MoveToCompleted, CommitTransaction, WriteSprintRow,
           BodyStep, IssueTicket, ReadBody, ReadForStub, RewriteBody, Reconcile,
           DirectStep, WriteFrontmatterFree, MoveFromCompleted, SetPath,
           ForceStatus, ResetHarness, RemoveFile, RemoveRow, RemoveOrphan, DeleteTask,
           InTransaction
      <4> QED
        BY <4>1 DEF LockInv, WriterHoldsLock
    <3> QED
      BY <3>1 DEF LockInv, WriterHoldsLock, Writes, InTransaction
  <2> QED
    BY <2>1, <2>2
<1>2. ASSUME job'[p].task \in Prepared, pc'[p] \in {"body", "rewrite", "begin", "lock", "fm"}
      PROVE  pc'[p] \notin {"body", "rewrite"} /\ job'[p].path \in Loc
  <2>1. job[p].task \in Prepared
    BY <1>0, <1>2 DEF Carries
  <2>2. CASE IssueTicket(p)
    <3>1. job[p].cmd = "start" /\ ticket[job[p].task]
      BY <1>0, <2>1, <2>2 DEF IssueTicket, FlowOK, OnlyTransitions
    <3>2. Goto(p, "reconcile")
      BY <2>2, <3>1 DEF IssueTicket
    <3> QED
      BY <1>0, <1>2, <3>2, ContinueEffect DEF Goto
  <2>3. ~ReadBody(p)
    BY <1>0, <2>1 DEF ReadBody, KeepsTask
  <2>4. CASE ReadForStub(p)
    <3>1. FirstTransition(p)
      BY <2>1, <2>4 DEF ReadForStub
    <3> QED
      BY <1>0, <1>2, <3>1, EndLabels
  <2>5. CASE Resolve(p)
    <3> DEFINE found == Resolved(job[p].task, job[p].path)
    <3>1. \/ TransitionFailed(p)
          \/ \E l \in {"drop_row", "force"} : Goto(p, l)
          \/ /\ found # Nowhere
             /\ \E l : Continue(p, l, [job[p] EXCEPT !.path = found])
             /\ pc'[p] \in {"begin", "remove", "fm_free"}
      <4>1. CASE found = Nowhere
        BY <2>5, <4>1 DEF Resolve
      <4>2. CASE found # Nowhere
        BY <1>0, <2>5, <4>2, ContinueEffect DEF Resolve
      <4> QED
        BY <4>1, <4>2
    <3>2. found # Nowhere => found \in Loc
      BY <1>0 DEF Resolved, Loc, Job
    <3>3. [job[p] EXCEPT !.path = found].path = found
      BY <1>0 DEF Job
    <3> HIDE DEF found
    <3>4. ~TransitionFailed(p) /\ \A l \in {"drop_row", "force"} : ~Goto(p, l)
      BY <1>0, <1>2, EndLabels, ContinueEffect DEF Goto
    <3>5. PICK l : Continue(p, l, [job[p] EXCEPT !.path = found])
      BY <3>1, <3>4
    <3>6. job'[p] = [job[p] EXCEPT !.path = found]
      BY <1>0, <1>2, <3>5, ContinueEffect
    <3> QED
      BY <1>2, <3>1, <3>2, <3>3, <3>4, <3>6
  <2>6. CASE BeginTransaction(p) \/ UpdateStatus(p)
    <3>1. TransitionFailed(p) \/ Goto(p, "lock") \/ Goto(p, "fm")
      BY <2>6 DEF BeginTransaction, UpdateStatus
    <3>2. job[p].path \in Loc
      BY <1>0, <2>1, <2>6 DEF BeginTransaction, UpdateStatus, KeepsTask
    <3> QED
      BY <1>0, <1>2, <3>1, <3>2, EndLabels, ContinueEffect DEF Goto
  <2> QED
    BY <1>2, <2>2, <2>3, <2>4, <2>5, <2>6, Entries
<1> QED
  BY <1>1, <1>2

LEMMA OutsideKeeps ==
  ASSUME OnlyTransitions, TypeInv, LockInv, FlowInv, FilesInv, LockInv', NEW p \in Proc, Step(p),
         pc[p] \notin InTransaction
  PROVE  FilesInv'
<1>1. Apart(p)
  <2>1. Carries(p)
    BY StepCarries
  <2>2. faults' = faults
    BY OutsideFaults
  <2> QED
    BY <2>1, <2>2, OutsideLeaves, OutsideLabels DEF Apart, Carries, Writes, InTransaction
<1> QED
  BY <1>1, ApartKeeps

\* What is known inside a transaction: the status it read is still there, and
\* nobody else is in one.
LEMMA InsideFacts ==
  ASSUME TypeInv, LockInv, FlowInv, FilesInv, NEW p \in Proc, pc[p] \in InTransaction,
         NEW t, t = job[p].task
  PROVE  /\ t \in Task /\ job[p] \in Job /\ ProcOK
         /\ dbStatus[t] = job[p].from
         /\ job[p].from \in {"todo", "in-progress"}
         /\ job[p].to \in {"todo", "in-progress", "done"}
         /\ \A q \in Proc \ {p} : pc[q] \notin InTransaction
         /\ file[t] \in [Loc -> Content]
         /\ t \in Prepared => KeptTask(t) /\ KeepsTask(p)
<1>1. FlowOK(pc[p], job[p]) /\ GoodJob(job[p]) /\ job[p] \in Job
  BY DEF FlowInv, TypeInv, ProcOK, InTransaction
<1>2. <<job[p].from, job[p].to>> \in Edges
  BY <1>1 DEF FlowOK, InTransaction, Tx, Transitions, Edges
<1>3. /\ job[p].from \in {"todo", "in-progress"}
      /\ job[p].to \in {"todo", "in-progress", "done"}
  BY <1>2 DEF Edges
<1>4. dbStatus[t] = job[p].from /\ \A q \in Proc \ {p} : pc[q] \notin InTransaction
  BY DEF LockInv, WriterHoldsLock, TestedStatusHolds
<1>5. t \in Task /\ file[t] \in [Loc -> Content]
  BY <1>1 DEF GoodJob, TypeInv, DataOK
<1> QED
  BY <1>1, <1>3, <1>4, <1>5 DEF FilesInv, TypeInv

\* A step that writes to the file of one Task leaves the others alone.
LEMMA WriteLeaves ==
  ASSUME TypeInv, NEW t \in Task, NEW l \in Loc, NEW s, WriteFile(t, l, s)
  PROVE  /\ file'[t] = [file[t] EXCEPT ![l] = s]
         /\ \A u \in Task \ {t} : file'[u] = file[u]
  BY DEF WriteFile, TypeInv, DataOK

\* The one copy of a Task written in place.
LEMMA WriteInPlace ==
  ASSUME NEW t, NEW l \in Loc, file[t] \in [Loc -> Content], l \in Copies(t),
         NEW s, s # Absent, file'[t] = [file[t] EXCEPT ![l] = s]
  PROVE  /\ Copies(t)' = Copies(t)
         /\ file'[t][l] = s
<1>1. \A m \in Loc : file'[t][m] # Absent <=> file[t][m] # Absent
  <2>1. TAKE m \in Loc
  <2>2. CASE m = l
    BY <2>2 DEF Copies
  <2>3. CASE m # l
    BY <2>3
  <2> QED
    BY <2>2, <2>3
<1> QED
  BY <1>1 DEF Copies

LEMMA FmKeeps ==
  ASSUME TypeInv, LockInv, FlowInv, FilesInv, NEW p \in Proc, Carries(p),
         WriteFrontmatter(p)
  PROVE  FilesInv'
<1>0. PICK t : t = job[p].task
  OBVIOUS
<1> DEFINE l == job[p].path
<1>1. pc[p] = "fm" /\ pc[p] \in InTransaction /\ pc[p] \notin Writes
  BY DEF WriteFrontmatter, InTransaction, Writes
<1>2. /\ t \in Task /\ job[p] \in Job /\ ProcOK
      /\ job[p].to # Absent
      /\ \A q \in Proc \ {p} : pc[q] \notin InTransaction
      /\ file[t] \in [Loc -> Content]
      /\ t \in Prepared => KeptTask(t) /\ l \in Loc
  BY <1>0, <1>1, InsideFacts DEF KeepsTask, Absent
<1>3. UNCHANGED <<dbStatus, ticket, torn>> /\ (faults' = 0 => faults = 0)
  <2>1. faults \in Nat
    BY DEF TypeInv, DataOK
  <2> QED
    BY <2>1 DEF WriteFrontmatter, Fault, tables
<1>4. \A q \in Proc : ~WrittenBy(q, t) /\ ~MovedBy(q, t)
  BY <1>1, <1>2 DEF WrittenBy, MovedBy, Writes, InTransaction
<1>5. \A q \in Proc \ {p} : ~WrittenBy(q, t)' /\ ~MovedBy(q, t)'
  BY <1>2 DEF Carries, WrittenBy, MovedBy, Writes, InTransaction
<1>6. CASE file[t][l] # Absent /\ WriteFile(t, l, job[p].to) /\ Goto(p, "move")
  <2>1. pc'[p] = "move" /\ job'[p] = job[p]
    BY <1>2, <1>6, ContinueEffect DEF Goto
  <2>2. ASSUME NEW u \in Prepared \ {t} PROVE Leaves(u)
    <3>1. u \in Task
      BY SetAssumption
    <3>2. file'[u] = file[u]
      BY <1>2, <1>6, <3>1 DEF WriteFile, TypeInv, DataOK
    <3> QED
      BY <1>3, <3>2 DEF Leaves
  <2>3. ASSUME t \in Prepared PROVE KeptTask(t)' /\ KeepsTask(p)'
    <3>1. file'[t] = [file[t] EXCEPT ![l] = job[p].to]
      BY <1>2, <1>6, <2>3, WriteLeaves
    <3>2. l \in Copies(t)
      BY <1>2, <1>6, <2>3 DEF Copies
    <3>3. Copies(t)' = Copies(t) /\ file'[t][l] = job[p].to
      BY <1>2, <2>3, <3>1, <3>2, WriteInPlace
    <3>4. WrittenBy(p, t)'
      BY <1>0, <2>1 DEF WrittenBy, Writes
    <3>5. \A q \in Proc : ~MovedBy(q, t)'
      BY <1>5, <2>1 DEF MovedBy
    <3>6. Place(t)' = Place(t)
      BY <1>3, <1>4, <3>5 DEF Place, Home
    <3>7. KeptTask(t)'
      BY <1>2, <1>3, <2>3, <3>3, <3>4, <3>6 DEF KeptTask
    <3>8. KeepsTask(p)'
      BY <1>0, <1>2, <2>1, <3>2, <3>3 DEF KeepsTask, Writes
    <3> QED
      BY <3>7, <3>8
  <2> QED
    BY <1>0, <1>1, <1>3, <2>2, <2>3, InsideKeeps DEF LockInv
<1>7. CASE UNCHANGED file /\ TransitionFailed(p)
  <2>1. pc'[p] \in {"idle", "lookup", "ticket", "reconcile"}
    BY <1>2, <1>7, EndLabels
  <2>2. \A u \in Prepared : Leaves(u)
    BY <1>3, <1>7 DEF Leaves
  <2>3. \A q \in Proc : ~WrittenBy(q, t)' /\ ~MovedBy(q, t)'
    BY <1>5, <2>1 DEF WrittenBy, MovedBy, Writes
  <2>4. t \in Prepared => KeptTask(t)'
    BY <1>2, <1>3, <1>4, <2>2, <2>3, LeftAlone
  <2>5. KeepsTask(p)'
    BY <2>1 DEF KeepsTask, Writes
  <2> QED
    BY <1>0, <1>1, <1>3, <2>2, <2>4, <2>5, InsideKeeps DEF LockInv
<1> QED
  BY <1>0, <1>6, <1>7 DEF WriteFrontmatter, Rollback

LEMMA CommitKeeps ==
  ASSUME TypeInv, LockInv, FlowInv, FilesInv, NEW p \in Proc, Carries(p),
         CommitTransaction(p)
  PROVE  FilesInv'
<1>0. PICK t : t = job[p].task
  OBVIOUS
<1> DEFINE l == job[p].path
<1>1. pc[p] = "commit" /\ pc[p] \in InTransaction /\ pc[p] \in Writes
  BY DEF CommitTransaction, InTransaction, Writes
<1>2. /\ t \in Task /\ job[p] \in Job /\ ProcOK
      /\ dbStatus[t] = job[p].from
      /\ dbStatus[t] # "done"
      /\ \A q \in Proc \ {p} : pc[q] \notin InTransaction
      /\ t \in Prepared => KeptTask(t) /\ KeepsTask(p)
  BY <1>0, <1>1, InsideFacts
<1>3. pc'[p] \in {"idle", "lookup", "ticket", "reconcile", "row"}
  <2>1. \/ Goto(p, "row") \/ TransitionSucceeded(p) \/ TransitionFailed(p)
    BY DEF CommitTransaction
  <2> QED
    BY <1>2, <2>1, EndLabels, ContinueEffect DEF Goto
<1>4. \A q \in Proc : ~WrittenBy(q, t)' /\ ~MovedBy(q, t)'
  <2>1. ASSUME NEW q \in Proc \ {p} PROVE ~WrittenBy(q, t)' /\ ~MovedBy(q, t)'
    BY <1>2 DEF Carries, WrittenBy, MovedBy, Writes, InTransaction
  <2>2. ~WrittenBy(p, t)' /\ ~MovedBy(p, t)'
    BY <1>3 DEF WrittenBy, MovedBy, Writes
  <2> QED
    BY <2>1, <2>2
<1>5. UNCHANGED <<file, ticket>> /\ faults \in Nat
  BY DEF CommitTransaction, files, TypeInv, DataOK
<1>6. KeepsTask(p)'
  BY <1>3 DEF KeepsTask, Writes
<1>7. Copies(t)' = Copies(t)
  BY <1>5 DEF Copies
<1>8. CASE /\ dbStatus' = [dbStatus EXCEPT ![t] = job[p].to]
           /\ torn' = torn \ {t}
           /\ UNCHANGED faults
  <2>1. dbStatus'[t] = job[p].to /\ \A u \in Task \ {t} : dbStatus'[u] = dbStatus[u]
    BY <1>2, <1>8 DEF TypeInv, DataOK
  <2>2. \A u \in Prepared \ {t} : Leaves(u)
    BY <1>5, <1>8, <2>1, SetAssumption DEF Leaves
  <2>3. ASSUME t \in Prepared PROVE KeptTask(t)'
    <3>1. /\ l \in Copies(t) /\ file[t][l] = job[p].to /\ job[p].to # Absent
          /\ \E m \in Loc : Copies(t) = {m}
      BY <1>0, <1>1, <1>2, <2>3 DEF KeepsTask, KeptTask
    <3>2. SaysStatus(t)'
      BY <1>5, <1>7, <2>1, <3>1 DEF SaysStatus
    <3>3. (\E q \in Proc : MovedBy(q, t)) <=> job[p].to = "done"
      BY <1>0, <1>1, <1>2 DEF MovedBy, InTransaction
    <3>4. Place(t)' = Place(t)
      BY <1>2, <1>4, <2>1, <3>3 DEF Place, Home
    <3> QED
      BY <1>2, <1>5, <1>7, <1>8, <2>1, <2>3, <3>1, <3>2, <3>4 DEF KeptTask
  <2> QED
    BY <1>0, <1>1, <1>6, <1>8, <2>2, <2>3, InsideKeeps DEF LockInv
<1>9. CASE Fault /\ torn' = torn \cup {t} /\ UNCHANGED dbStatus
  <2>1. faults' # 0
    BY <1>5, <1>9 DEF Fault
  <2>2. \A u \in Prepared \ {t} : Leaves(u)
    BY <1>5, <1>9 DEF Leaves
  <2>3. t \in Prepared => KeptTask(t)'
    BY <1>2, <1>5, <1>7, <1>9, <2>1 DEF KeptTask
  <2> QED
    BY <1>0, <1>1, <1>6, <2>1, <2>2, <2>3, InsideKeeps DEF LockInv
<1> QED
  BY <1>0, <1>8, <1>9 DEF CommitTransaction

LEMMA MoveEffect ==
  ASSUME TypeInv, NEW t \in Task, MoveFile(t, "tasks", "completed"),
         Copies(t) = {"tasks"}
  PROVE  /\ Copies(t)' = {"completed"}
         /\ file'[t]["completed"] = file[t]["tasks"]
         /\ \A u \in Task \ {t} : file'[u] = file[u]
<1>1. /\ file \in [Task -> [Loc -> Content]]
      /\ file[t]["completed"] = Absent /\ file[t]["sprint"] = Absent
      /\ file[t]["tasks"] # Absent
  BY DEF TypeInv, DataOK, Copies, Loc
<1>2. file' = [file EXCEPT ![t] = [@ EXCEPT !["tasks"] = Absent,
                                            !["completed"] = file[t]["tasks"]]]
  BY <1>1 DEF MoveFile
<1>3. file'[t] = [file[t] EXCEPT !["tasks"] = Absent,
                                 !["completed"] = file[t]["tasks"]]
  BY <1>1, <1>2
<1>4. /\ file'[t]["tasks"] = Absent /\ file'[t]["sprint"] = Absent
      /\ file'[t]["completed"] = file[t]["tasks"]
  BY <1>1, <1>3 DEF Loc
<1>5. Copies(t)' = {"completed"}
  BY <1>1, <1>4 DEF Copies, Loc
<1> QED
  BY <1>1, <1>2, <1>4, <1>5

LEMMA MoveKeeps ==
  ASSUME TypeInv, LockInv, FlowInv, FilesInv, NEW p \in Proc, Carries(p),
         MoveToCompleted(p)
  PROVE  FilesInv'
<1>0. PICK t : t = job[p].task
  OBVIOUS
<1> DEFINE l == job[p].path
           moves == t \notin SprintTask /\ job[p].to = "done" /\ l = "tasks"
<1>1. pc[p] = "move" /\ pc[p] \in InTransaction /\ pc[p] \in Writes
  BY DEF MoveToCompleted, InTransaction, Writes
<1>2. /\ t \in Task /\ job[p] \in Job /\ ProcOK
      /\ dbStatus[t] = job[p].from
      /\ dbStatus[t] # "done" /\ job[p].from # Absent
      /\ job[p].to # Absent
      /\ \A q \in Proc \ {p} : pc[q] \notin InTransaction
      /\ file[t] \in [Loc -> Content]
      /\ t \in Prepared => KeptTask(t) /\ KeepsTask(p)
  BY <1>0, <1>1, InsideFacts DEF Absent
<1>3. UNCHANGED <<dbStatus, ticket>> /\ (faults' = 0 => faults = 0)
  <2>1. faults \in Nat
    BY DEF TypeInv, DataOK
  <2> QED
    BY <2>1 DEF MoveToCompleted, Fault, tables
<1>4. \A q \in Proc \ {p} : ~WrittenBy(q, t)' /\ ~MovedBy(q, t)'
  BY <1>2 DEF Carries, WrittenBy, MovedBy, Writes, InTransaction
<1>5. Place(t) = Home(t)
  <2>1. \A q \in Proc : ~MovedBy(q, t)
    BY <1>1, <1>2 DEF MovedBy, InTransaction
  <2> QED
    BY <1>2, <2>1 DEF Place
<1>6. t \in Prepared => /\ l \in Loc /\ Copies(t) = {l} /\ file[t][l] = job[p].to
                        /\ faults = 0 => l = Home(t)
  BY <1>0, <1>1, <1>2, <1>5 DEF KeepsTask, KeptTask, Copies
<1>7. CASE ~moves /\ Goto(p, "commit") /\ UNCHANGED <<file, faults, torn>>
  <2>1. pc'[p] = "commit" /\ job'[p] = job[p]
    BY <1>2, <1>7, ContinueEffect DEF Goto
  <2>2. \A u \in Prepared : Leaves(u)
    BY <1>3, <1>7 DEF Leaves
  <2>3. WrittenBy(p, t)'
    BY <1>0, <2>1 DEF WrittenBy, Writes
  <2>4. ASSUME t \in Prepared PROVE KeptTask(t)' /\ KeepsTask(p)'
    <3>1. Copies(t)' = Copies(t)
      BY <1>7 DEF Copies
    <3>2. (\E q \in Proc : MovedBy(q, t)') => job[p].to = "done"
      BY <1>4, <2>1 DEF MovedBy
    <3>3. faults = 0 => Place(t)' = Home(t)
      <4>1. ASSUME faults = 0 PROVE t \in SprintTask \/ job[p].to # "done"
        BY <1>6, <1>7, <2>4, <4>1 DEF Home
      <4> QED
        BY <1>2, <1>3, <3>2, <4>1 DEF Place, Home
    <3>4. KeptTask(t)'
      BY <1>2, <1>3, <1>5, <1>7, <2>3, <2>4, <3>1, <3>3 DEF KeptTask
    <3>5. KeepsTask(p)'
      BY <1>0, <1>2, <1>6, <1>7, <2>1, <2>4, <3>1 DEF KeepsTask, Writes
    <3> QED
      BY <3>4, <3>5
  <2> QED
    BY <1>0, <1>1, <1>3, <2>2, <2>4, InsideKeeps DEF LockInv
<1>8. CASE /\ moves
           /\ MoveFile(t, "tasks", "completed")
           /\ Continue(p, "commit", [job[p] EXCEPT !.path = "completed",
                                                   !.moved = TRUE])
           /\ UNCHANGED <<faults, torn>>
  <2>1. pc'[p] = "commit"
        /\ job'[p] = [job[p] EXCEPT !.path = "completed", !.moved = TRUE]
    BY <1>2, <1>8, ContinueEffect
  <2>2. job'[p].task = t /\ job'[p].path = "completed" /\ job'[p].to = job[p].to
    BY <1>0, <1>2, <2>1 DEF Job
  <2>3. ASSUME NEW u \in Prepared \ {t} PROVE Leaves(u)
    <3>1. u \in Task
      BY SetAssumption
    <3>2. file'[u] = file[u]
      BY <1>2, <1>8, <3>1 DEF MoveFile, TypeInv, DataOK
    <3> QED
      BY <1>3, <1>8, <3>2 DEF Leaves
  <2>4. ASSUME t \in Prepared PROVE KeptTask(t)' /\ KeepsTask(p)'
    <3>1. Copies(t)' = {"completed"} /\ file'[t]["completed"] = job[p].to
      BY <1>2, <1>6, <1>8, <2>4, MoveEffect
    <3>2. WrittenBy(p, t)' /\ MovedBy(p, t)'
      BY <1>8, <2>1, <2>2 DEF WrittenBy, MovedBy, Writes
    <3>3. Place(t)' = "completed"
      BY <1>8, <3>2 DEF Place
    <3>4. KeptTask(t)'
      BY <1>2, <1>3, <2>4, <3>1, <3>2, <3>3 DEF KeptTask, Loc
    <3>5. KeepsTask(p)'
      <4>1. job'[p].path \in Copies(t)' /\ file'[t][job'[p].path] = job'[p].to
        BY <2>2, <3>1
      <4> QED
        BY <1>2, <2>1, <2>2, <4>1 DEF KeepsTask
    <3> QED
      BY <3>4, <3>5
  <2> QED
    BY <1>0, <1>1, <1>3, <2>3, <2>4, InsideKeeps DEF LockInv
<1>9. CASE moves /\ TransitionFailed(p)
           /\ IF file[t][l] # Absent
              THEN /\ Fault
                   /\ \/ WriteFile(t, l, job[p].from) /\ UNCHANGED torn
                      \/ torn' = torn \cup {t} /\ UNCHANGED file
              ELSE UNCHANGED <<file, faults, torn>>
  <2>1. pc'[p] \in {"idle", "lookup", "ticket", "reconcile"}
    BY <1>2, <1>9, EndLabels
  <2>2. KeepsTask(p)'
    BY <2>1 DEF KeepsTask, Writes
  <2>3. ASSUME NEW u \in Prepared \ {t} PROVE Leaves(u)
    <3>1. u \in Task
      BY SetAssumption
    <3>2. file'[u] = file[u]
      BY <1>2, <1>9, <3>1 DEF WriteFile, TypeInv, DataOK
    <3> QED
      BY <1>3, <1>9, <3>2 DEF Leaves
  <2>4. ASSUME t \in Prepared PROVE KeptTask(t)'
    <3>1. file[t][l] # Absent
      BY <1>2, <1>6, <2>4
    <3>2. faults' # 0
      BY <1>9, <3>1 DEF Fault, TypeInv, DataOK
    <3>3. CASE WriteFile(t, l, job[p].from)
      <4>1. file'[t] = [file[t] EXCEPT ![l] = job[p].from]
        BY <1>2, <1>6, <2>4, <3>3, WriteLeaves
      <4>2. Copies(t)' = Copies(t) /\ file'[t][l] = job[p].from
        BY <1>2, <1>6, <2>4, <4>1, WriteInPlace
      <4>3. SaysStatus(t)'
        BY <1>2, <1>3, <1>6, <2>4, <4>2 DEF SaysStatus
      <4> QED
        BY <1>2, <1>3, <1>6, <2>4, <3>2, <4>2, <4>3 DEF KeptTask
    <3>4. CASE torn' = torn \cup {t} /\ UNCHANGED file
      <4>1. Copies(t)' = Copies(t)
        BY <3>4 DEF Copies
      <4> QED
        BY <1>2, <1>3, <1>6, <2>4, <3>2, <3>4, <4>1 DEF KeptTask
    <3> QED
      BY <1>9, <3>1, <3>3, <3>4
  <2> QED
    BY <1>0, <1>1, <1>3, <2>2, <2>3, <2>4, InsideKeeps DEF LockInv
<1> QED
  BY <1>0, <1>7, <1>8, <1>9 DEF MoveToCompleted, Rollback

LEMMA CrashKeeps ==
  ASSUME TypeInv, LockInv, FlowInv, FilesInv, NEW p \in Proc, Crash(p)
  PROVE  FilesInv'
<1>0. PICK t : t = job[p].task
  OBVIOUS
<1>1. /\ UNCHANGED <<dbStatus, ticket, file>> /\ faults' # 0
      /\ torn' = IF pc[p] \in Writes THEN torn \cup {t} ELSE torn
      /\ ProcOK /\ Return(p)
  BY <1>0 DEF Crash, tables, files, Fault, TypeInv, DataOK, Writes
<1>2. /\ pc'[p] = "idle"
      /\ \A q \in Proc \ {p} : pc'[q] = pc[q] /\ job'[q] = job[q]
  BY <1>1, ContinueEffect DEF Return, Goto
<1>3. Carries(p)
  BY <1>2 DEF Carries
<1>4. CASE pc[p] \notin Writes
  <2>1. Apart(p)
    BY <1>1, <1>2, <1>4 DEF Apart, Leaves, Writes
  <2> QED
    BY <2>1, ApartKeeps
<1>5. CASE pc[p] \in Writes
  <2>1. pc[p] \in InTransaction
    BY <1>5 DEF Writes, InTransaction
  <2>2. \A u \in Prepared \ {t} : Leaves(u)
    BY <1>1 DEF Leaves
  <2>3. ASSUME t \in Prepared PROVE KeptTask(t)'
    <3>1. KeptTask(t)
      BY <2>3 DEF FilesInv
    <3>2. Copies(t)' = Copies(t)
      BY <1>1 DEF Copies
    <3> QED
      BY <1>1, <1>5, <3>1, <3>2 DEF KeptTask
  <2> QED
    BY <1>0, <1>1, <1>2, <1>3, <2>1, <2>2, <2>3, InsideKeeps DEF LockInv
<1> QED
  BY <1>4, <1>5

LEMMA FilesInvInit == Init => FilesInv
<1> SUFFICES ASSUME Init PROVE FilesInv
  OBVIOUS
<1>1. ASSUME NEW t \in Prepared PROVE KeptTask(t)
  <2>1. t \in Task /\ Home(t) \in Loc
    BY SetAssumption DEF Home, Loc
  <2>2. \A l \in Loc : file[t][l] = IF l = Home(t) THEN "todo" ELSE Absent
    BY <2>1 DEF Init
  <2>3. Copies(t) = {Home(t)}
    BY <2>1, <2>2 DEF Copies, Absent
  <2>4. dbStatus[t] = "todo" /\ ticket[t] /\ dbStatus[t] # Absent
    BY <1>1, <2>1 DEF Init, Absent
  <2>5. SaysStatus(t)
    BY <2>1, <2>2, <2>3, <2>4 DEF SaysStatus
  <2>6. Place(t) = Home(t)
    BY <2>4 DEF Place, MovedBy, Init
  <2> QED
    BY <2>1, <2>3, <2>4, <2>5, <2>6 DEF KeptTask
<1>2. ASSUME NEW p \in Proc PROVE KeepsTask(p)
  BY DEF Init, KeepsTask, Writes
<1> QED
  BY <1>1, <1>2 DEF FilesInv

LEMMA FilesInvStep ==
  ASSUME OnlyTransitions
  PROVE  /\ TypeInv /\ LockInv /\ FlowInv /\ FilesInv /\ LockInv'
         /\ [Next]_vars
         => FilesInv'
<1> SUFFICES ASSUME TypeInv, LockInv, FlowInv, FilesInv, LockInv', [Next]_vars
             PROVE  FilesInv'
  OBVIOUS
<1>1. ASSUME UNCHANGED vars PROVE FilesInv'
  BY <1>1 DEF vars, tables, files, FilesInv, KeptTask, KeepsTask, SaysStatus,
     Copies, Place, MovedBy, WrittenBy
<1>2. ASSUME NEW p \in Proc, NEW c \in AllCommands, NEW t \in Task, Issue(p, c, t)
      PROVE  FilesInv'
  BY <1>2, IssueApart, ApartKeeps
<1>3. ASSUME NEW p \in Proc, Crash(p) PROVE FilesInv'
  BY <1>3, CrashKeeps
<1>4. ASSUME NEW p \in Proc, Step(p) PROVE FilesInv'
  <2>1. CASE pc[p] \notin InTransaction
    BY <1>4, <2>1, OutsideKeeps
  <2>2. CASE pc[p] \in InTransaction
    <3>1. WriteFrontmatter(p) \/ MoveToCompleted(p) \/ CommitTransaction(p)
      BY <1>4, <2>2 DEF Step, ReadStatus, GateStep, EnsureItems, Gate, CheckItem,
         TransitionStep, Lookup, Resolve, BeginTransaction, UpdateStatus,
         WriteSprintRow, BodyStep, IssueTicket, ReadBody, ReadForStub,
         RewriteBody, Reconcile, DirectStep, WriteFrontmatterFree,
         MoveFromCompleted, SetPath, ForceStatus, ResetHarness, RemoveFile,
         RemoveRow, RemoveOrphan, DeleteTask, InTransaction
    <3>2. Carries(p)
      BY <1>4, StepCarries
    <3> QED
      BY <3>1, <3>2, FmKeeps, MoveKeeps, CommitKeeps
  <2> QED
    BY <2>1, <2>2
<1> QED
  BY <1>1, <1>2, <1>3, <1>4, NextCases

LEMMA FilesInvAgrees == TypeInv /\ FilesInv => TransitionsAgree
<1> SUFFICES ASSUME TypeInv, FilesInv, NEW t \in Prepared, ~InFlight(t)
             PROVE  /\ t \in torn \/ FileAgrees(t)
                    /\ faults > 0 \/ InPlace(t)
  BY DEF TransitionsAgree
<1>1. KeptTask(t)
  BY DEF FilesInv
<1>2. \A q \in Proc : ~WrittenBy(q, t) /\ ~MovedBy(q, t)
  BY DEF InFlight, WrittenBy, MovedBy, Writes, InTransaction
<1>3. t \in torn \/ FileAgrees(t)
  BY <1>1, <1>2 DEF KeptTask, SaysStatus, FileAgrees
<1>4. faults = 0 => InPlace(t)
  BY <1>1, <1>2 DEF KeptTask, Place, InPlace
<1>5. faults = 0 \/ faults > 0
  BY DEF TypeInv, DataOK
<1> QED
  BY <1>3, <1>4, <1>5

\* However many processes start and complete Tasks and check their items at
\* once, wherever they crash or fail: outside a transaction the file of a Task
\* that needs neither ticket nor Result section says what the database says,
\* unless its last transition died after its file work; and before the first
\* failure it lies where its status says (transitionTask, MoveTaskToCompleted).
THEOREM FilesAgree ==
  ASSUME Command \subseteq {"start", "complete", "check"}
  PROVE  Spec => []TransitionsAgree
<1> DEFINE Inv == TypeInv /\ LockInv /\ FlowInv /\ FilesInv
<1>1. Init => Inv
  BY TypeInvInit, LockInvInit, FlowInvInit, FilesInvInit
<1>2. Inv /\ [Next]_vars => Inv'
  BY TypeInvStep, LockInvStep, FlowInvStep, FilesInvStep DEF OnlyTransitions
<1>3. Inv => TransitionsAgree
  BY FilesInvAgrees
<1> QED
  BY <1>1, <1>2, <1>3, PTL DEF Spec

-----------------------------------------------------------------------------
(* One command at a time, all commands, and nothing fails: at rest the     *)
(* database, the files and SPRINT.md agree, and the state machine of the   *)
(* guides is kept but for `task update`.                                   *)

Alone == \A p, q \in Proc : p = q

\* The labels between the first write of a command and its last, at which the
\* command has found the file of its Task, at which it has given the file its new
\* status, and at which the database still has the old one.
Amiss   == {"move", "commit", "unmove", "set_path", "force", "row", "drop_row", "drop"}
Found   == {"begin", "lock", "fm", "fm_free", "remove", "rewrite", "move", "unmove"}
Written == {"move", "commit", "unmove", "set_path", "force", "row"}
Tested  == {"resolve", "begin", "lock", "fm", "fm_free", "remove"}
             \cup (Amiss \ {"row"})

FileSays(t, s) == \E l \in Loc : Copies(t) = {l} /\ file[t][l] = s
RowSays(t, s)  == t \in SprintTask => row[t] = s
Agrees(t)      == FileAgrees(t) /\ RowSays(t, dbStatus[t])

\* What a process relies on at its label, and what it has written by then.
OnDisk(p) ==
  LET j == job[p]
      t == j.task
  IN
  /\ pc[p] = "resolve" => j.path \in Loc
  /\ pc[p] \in Found => Copies(t) = {j.path}
  /\ pc[p] = "rewrite" => j.buf = file[t][j.path]
  /\ pc[p] \in Tested => dbStatus[t] = j.from
  /\ pc[p] \in Written => FileSays(t, j.to) /\ RowSays(t, j.from)
  /\ pc[p] = "row" => dbStatus[t] = j.to
  /\ pc[p] \in {"drop_row", "drop"} => Copies(t) = {}
  /\ pc[p] = "drop" => RowSays(t, Absent)
  /\ pc[p] = "orphan" => dbStatus[t] = Absent

\* The statuses a command that tests none in a transaction goes from and to.
Intent(p) ==
  LET j == job[p]
  IN
  /\ j.cmd = "update" => j.to \in Status /\ (pc[p] # "read" => j.from \in Status)
  /\ j.cmd = "reopen" /\ pc[p] # "read" =>
       j.from = "done" \/ <<j.from, j.to>> = <<"in-progress", "todo">>
  /\ j.cmd = "delete" /\ pc[p] \notin {"read", "orphan"} => j.from = "todo"
  /\ pc[p] = "reset" => j.from = "done"

\* What the Harness Gate needs to be right, and that it was.
Armed(p) ==
  /\ pc[p] = "gate" => seeded[job[p].task]
  /\ Passed(p) => checked[job[p].task] = Item

Settled(t) == Agrees(t) \/ \E p \in Proc : pc[p] \in Amiss /\ job[p].task = t
Held(p)    == pc[p] # "idle" => OnDisk(p) /\ Intent(p) /\ Armed(p)

AloneInv == (\A t \in Task : Settled(t)) /\ (\A p \in Proc : Held(p))

Ground == Alone /\ MaxFaults = 0 /\ TypeInv /\ LockInv /\ FlowInv /\ AloneInv

LEMMA GroundFacts ==
  ASSUME Ground, NEW p \in Proc, pc[p] # "idle"
  PROVE  /\ ~ Fault /\ (pc[p] \notin InTransaction => Free /\ ~ Busy)
         /\ OnDisk(p) /\ Intent(p) /\ Armed(p) /\ FlowOK(pc[p], job[p])
         /\ pc[p] \notin Amiss => Agrees(job[p].task)
         /\ ProcOK /\ DataOK /\ job[p] \in Job /\ GoodJob(job[p]) /\ job[p].task \in Task
<1>1. TypeInv
  BY DEF Ground
<1>2. /\ ProcOK /\ DataOK /\ job[p] \in Job /\ GoodJob(job[p]) /\ job[p].task \in Task
  BY <1>1, RunningFacts
<1>3. ~ Fault
  BY <1>2 DEF Ground, DataOK, Fault
<1>4. pc[p] \notin InTransaction => Free /\ ~ Busy
  BY <1>2, SentinelAssumption DEF Ground, Alone, LockInv, WriterHoldsLock, DataOK, Free, Busy
<1>5. OnDisk(p) /\ Intent(p) /\ Armed(p) /\ FlowOK(pc[p], job[p])
  BY DEF Ground, AloneInv, Held, FlowInv
<1>6. pc[p] \notin Amiss => Agrees(job[p].task)
  BY <1>2 DEF Ground, AloneInv, Settled, Alone
<1> QED
  BY <1>2, <1>3, <1>4, <1>5, <1>6

\* Tasks other than the one in hand.
LEMMA OthersSettled ==
  ASSUME Ground, NEW p \in Proc, NEW t, pc[p] \in Amiss => t = job[p].task,
         \A u \in Task \ {t} : /\ file'[u] = file[u] /\ row'[u] = row[u]
                               /\ dbStatus'[u] = dbStatus[u],
         Settled(t)', Held(p)'
  PROVE  AloneInv'
<1>1. ASSUME NEW u \in Task, u # t PROVE Agrees(u)'
  <2>1. Agrees(u)
    BY <1>1 DEF Ground, AloneInv, Settled, Alone
  <2>2. file'[u] = file[u] /\ row'[u] = row[u] /\ dbStatus'[u] = dbStatus[u]
    BY <1>1
  <2> QED
    BY <2>1, <2>2 DEF Agrees, FileAgrees, RowSays, Copies
<1>2. \A u \in Task : Settled(u)'
  BY <1>1 DEF Settled
<1>3. \A q \in Proc : Held(q)'
  BY DEF Ground, Alone
<1> QED
  BY <1>2, <1>3 DEF AloneInv

\* A step that leaves what is recorded alone.
LEMMA Reads ==
  ASSUME Ground, NEW p \in Proc, UNCHANGED <<dbStatus, file, row>>, Held(p)',
         \/ pc[p] \notin Amiss
         \/ pc'[p] \in Amiss /\ job'[p].task = job[p].task
  PROVE  AloneInv'
<1>1. CASE pc[p] \notin Amiss
  <2>1. \A u \in Task : Agrees(u)
    BY <1>1 DEF Ground, AloneInv, Settled, Alone
  <2>2. \A u \in Task : Agrees(u)'
    BY <2>1 DEF Agrees, FileAgrees, RowSays, Copies
  <2>3. \A q \in Proc : Held(q)'
    BY DEF Ground, Alone
  <2> QED
    BY <2>2, <2>3 DEF AloneInv, Settled
<1>2. CASE pc'[p] \in Amiss /\ job'[p].task = job[p].task
  BY <1>2, OthersSettled DEF Settled
<1> QED
  BY <1>1, <1>2

\* The ends of a transition, and of a command.
LEMMA EndsHeld ==
  ASSUME TypeInv, NEW p \in Proc, pc[p] # "idle",
         \/ Return(p)
         \/ job[p].cmd = "complete" /\ FirstTransition(p)
         \/ job[p].cmd \in Transitions /\ (TransitionFailed(p) \/ TransitionSucceeded(p)),
         job[p].cmd = "complete" => checked'[job[p].task] = Item
  PROVE  /\ Held(p)'
         /\ pc'[p] \in {"idle", "lookup", "ticket", "reconcile"}
<1>1. CASE Return(p)
  <2>1. pc'[p] = "idle"
    BY <1>1, RunningFacts, ContinueEffect DEF Return, Goto
  <2> QED
    BY <2>1 DEF Held
<1>2. CASE ~ Return(p)
  <2>1. ProcOK /\ job[p] \in Job
    BY RunningFacts
  <2>2. \/ job[p].cmd = "start" /\ Goto(p, "ticket")
        \/ job[p].cmd = "complete" /\ Goto(p, "reconcile")
        \/ job[p].cmd = "complete" /\ \E s, r :
             Continue(p, "lookup", [job[p] EXCEPT !.from = s, !.to = r])
    BY <1>2 DEF FirstTransition, TransitionFailed, TransitionSucceeded, Transitions
  <2>3. /\ job'[p].cmd = job[p].cmd /\ job'[p].task = job[p].task
        /\ \/ job[p].cmd = "start" /\ pc'[p] = "ticket"
           \/ job[p].cmd = "complete" /\ pc'[p] \in {"lookup", "reconcile"}
    <3>1. CASE \E s, r : Continue(p, "lookup", [job[p] EXCEPT !.from = s, !.to = r])
      <4>1. PICK s, r : Continue(p, "lookup", [job[p] EXCEPT !.from = s, !.to = r])
        BY <3>1
      <4> DEFINE k == [job[p] EXCEPT !.from = s, !.to = r]
      <4>2. k.cmd = job[p].cmd /\ k.task = job[p].task
        BY <2>1 DEF Job
      <4> HIDE DEF k
      <4>3. pc'[p] = "lookup" /\ job'[p] = k
        BY <2>1, <4>1, ContinueEffect DEF k
      <4> QED
        BY <1>2, <2>2, <4>2, <4>3, <2>1, ContinueEffect DEF Goto
    <3>2. CASE ~ \E s, r : Continue(p, "lookup", [job[p] EXCEPT !.from = s, !.to = r])
      BY <2>1, <2>2, <3>2, ContinueEffect DEF Goto
    <3> QED
      BY <3>1, <3>2
  <2>4. OnDisk(p)'
    BY <2>3 DEF OnDisk, Found, Tested, Written, Amiss
  <2>5. Intent(p)' /\ Armed(p)'
    BY <2>3 DEF Intent, Armed, Passed
  <2> QED
    BY <2>3, <2>4, <2>5 DEF Held
<1> QED
  BY <1>1, <1>2

LEMMA ResolvedOne ==
  ASSUME NEW t \in Task, NEW m, NEW l \in Loc, Copies(t) = {l}
  PROVE  Resolved(t, m) = l \/ (m \notin Loc)
<1>1. \A k \in Loc : file[t][k] # Absent <=> k = l
  BY DEF Copies
<1>2. (CHOOSE k \in Loc : Copies(t) = {k}) = l
  OBVIOUS
<1> QED
  BY <1>1, <1>2 DEF Resolved, Loc

LEMMA AloneIssue ==
  ASSUME Ground, NEW p \in Proc, NEW c \in AllCommands, NEW t \in Task, Issue(p, c, t)
  PROVE  AloneInv'
<1>0. ProcOK /\ pc[p] = "idle" /\ UNCHANGED <<dbStatus, file, row>>
  BY DEF Ground, TypeInv, Issue, tables, files
<1>1. /\ job'[p].cmd = c
      /\ \/ c \in {"start", "check"} /\ pc'[p] \in {"lookup", "ensure"}
         \/ pc'[p] = "read" /\ (c = "update" => job'[p].to \in Status)
  <2> DEFINE new == [NoJob EXCEPT !.cmd = c, !.task = t]
  <2>0. new.cmd = c
    BY DEF NoJob
  <2>1. CASE c = "start"
    <3> DEFINE k == [new EXCEPT !.from = "todo", !.to = "in-progress"]
    <3>1. Continue(p, "lookup", k) /\ k.cmd = c
      BY <2>1 DEF Issue, NoJob
    <3> HIDE DEF k
    <3> QED
      BY <1>0, <2>1, <3>1, ContinueEffect
  <2>2. CASE c = "check"
    <3>1. PICK i \in Item :
            Continue(p, "ensure", [new EXCEPT !.item = i, !.next = "check"])
      BY <2>2 DEF Issue
    <3> DEFINE k == [new EXCEPT !.item = i, !.next = "check"]
    <3>2. Continue(p, "ensure", k) /\ k.cmd = c
      BY <3>1 DEF NoJob
    <3> HIDE DEF k
    <3> QED
      BY <1>0, <2>2, <3>2, ContinueEffect
  <2>3. CASE c \in {"reopen", "update"}
    <3>1. PICK s \in Status : Continue(p, "read", [new EXCEPT !.to = s])
      BY <2>3 DEF Issue, Status
    <3> DEFINE k == [new EXCEPT !.to = s]
    <3>2. Continue(p, "read", k) /\ k.cmd = c /\ k.to = s
      BY <3>1 DEF NoJob
    <3> HIDE DEF k
    <3> QED
      BY <1>0, <2>3, <3>2, ContinueEffect
  <2>4. CASE c \notin {"start", "check", "reopen", "update"}
    <3>1. Continue(p, "read", new)
      BY <2>4 DEF Issue
    <3> HIDE DEF new
    <3> QED
      BY <1>0, <2>0, <2>4, <3>1, ContinueEffect
  <2> QED
    BY <2>1, <2>2, <2>3, <2>4
<1>2. Held(p)'
  <2>1. OnDisk(p)'
    BY <1>1 DEF OnDisk, Found, Tested, Written, Amiss
  <2>2. Intent(p)' /\ Armed(p)'
    BY <1>1 DEF Intent, Armed, Passed
  <2> QED
    BY <2>1, <2>2 DEF Held
<1> QED
  BY <1>0, <1>2, Reads DEF Amiss

LEMMA AloneRead ==
  ASSUME Ground, NEW p \in Proc, ReadStatus(p)
  PROVE  AloneInv'
<1> DEFINE j == job[p]
           s == dbStatus[j.task]
           k == [j EXCEPT !.cascade = (s = "todo"), !.next = "gate"]
           m == [j EXCEPT !.from = s, !.path = dbPath[j.task]]
<1>0. /\ ProcOK /\ pc[p] = "read" /\ UNCHANGED <<dbStatus, file, row>>
      /\ j \in Job /\ Agrees(j.task) /\ Intent(p) /\ FlowOK("read", j) /\ DataOK
      /\ j.task \in Task
  BY GroundFacts DEF ReadStatus, tables, files, Amiss
<1>1. \/ Return(p)
      \/ j.cmd = "complete" /\ Continue(p, "ensure", k)
      \/ j.cmd = "checkpoint" /\ Goto(p, "ticket")
      \/ j.cmd = "delete" /\ s = Absent /\ Goto(p, "orphan")
      \/ /\ Continue(p, "resolve", m)
         /\ \/ j.cmd = "reopen" /\ (s = "done" \/ (s = "in-progress" /\ j.to = "todo"))
            \/ j.cmd = "delete" /\ s = "todo"
            \/ j.cmd = "update" /\ s # Absent
  BY DEF ReadStatus
<1>2. k.cmd = j.cmd /\ m.cmd = j.cmd /\ m.task = j.task /\ m.from = s /\ m.to = j.to
      /\ m.path \in Loc
  BY <1>0 DEF Job, DataOK
<1>3. s \in Status \cup {Absent}
  BY <1>0 DEF DataOK, Content
<1> HIDE DEF k, m
<1> SUFFICES Held(p)'
  BY <1>0, Reads DEF Amiss
<1>4. CASE Return(p) \/ j.cmd \in {"complete", "checkpoint"}
  <2>1. \/ pc'[p] = "idle"
        \/ pc'[p] = "ensure" /\ job'[p].cmd = "complete"
        \/ pc'[p] = "ticket" /\ job'[p].cmd = "checkpoint"
    BY <1>0, <1>1, <1>2, <1>4, ContinueEffect DEF Return, Goto
  <2> QED
    BY <2>1 DEF Held, OnDisk, Intent, Armed, Passed, Found, Tested, Written, Amiss
<1>5. CASE j.cmd = "delete" /\ s = Absent /\ Goto(p, "orphan")
  <2>1. pc'[p] = "orphan" /\ job'[p] = j
    BY <1>0, <1>5, ContinueEffect DEF Goto
  <2> QED
    BY <1>0, <1>5, <2>1 DEF Held, OnDisk, Intent, Armed, Passed, Found, Tested, Written, Amiss
<1>6. CASE j.cmd \in {"reopen", "delete", "update"} /\ Continue(p, "resolve", m)
  <2>1. pc'[p] = "resolve" /\ job'[p] = m
    BY <1>0, <1>6, ContinueEffect
  <2>2. OnDisk(p)'
    BY <1>0, <1>2, <2>1 DEF OnDisk, Found, Tested, Written, Amiss
  <2>3. Intent(p)' 
    BY <1>0, <1>1, <1>2, <1>3, <1>6, <2>1, ContinueEffect DEF Intent, Return, Goto
  <2>4. Armed(p)'
    BY <1>2, <1>6, <2>1 DEF Armed, Passed
  <2> QED
    BY <2>2, <2>3, <2>4 DEF Held
<1> QED
  BY <1>1, <1>4, <1>5, <1>6

LEMMA AloneGate ==
  ASSUME Ground, NEW p \in Proc, GateStep(p)
  PROVE  AloneInv'
<1> DEFINE j == job[p]
           k == [j EXCEPT !.next = "idle"]
<1>0. /\ pc[p] \in {"ensure", "gate", "check"} /\ UNCHANGED <<dbStatus, file, row>>
  BY DEF GateStep, EnsureItems, Gate, CheckItem, tables, files
<1>1. /\ ProcOK /\ DataOK /\ j \in Job /\ GoodJob(j) /\ j.task \in Task
      /\ Agrees(j.task) /\ Intent(p) /\ Armed(p) /\ FlowOK(pc[p], j) /\ Free
  BY <1>0, GroundFacts DEF Amiss, InTransaction
<1>2. k.cmd = j.cmd
  BY <1>1 DEF Job
<1>6. /\ Gate(p) => \/ Unchecked(j.task) /\ Continue(p, "ensure", k)
                    \/ ~ Unchecked(j.task) /\ (Goto(p, "stub") \/ Return(p))
      /\ CheckItem(p) => Continue(p, "ensure", k) \/ Return(p)
  BY DEF Gate, CheckItem
<1> HIDE DEF k
<1> SUFFICES Held(p)'
  BY <1>0, Reads DEF Amiss
<1>3. CASE EnsureItems(p)
  <2>1. \/ pc'[p] = "idle"
        \/ /\ pc'[p] \in {"gate", "check"} /\ pc'[p] = j.next
           /\ job'[p] = j /\ seeded'[j.task]
    BY <1>1, <1>3, ContinueEffect DEF EnsureItems, Return, Goto, GoodJob, Free, Busy, DataOK
  <2>2. pc'[p] # "idle" => (j.cmd = "complete" /\ pc'[p] = "gate") \/ j.cmd = "check"
    BY <1>1, <2>1 DEF FlowOK
  <2> QED
    BY <2>1, <2>2 DEF Held, OnDisk, Intent, Armed, Passed, Found, Tested, Written, Amiss
<1>4. CASE Gate(p)
  <2>1. pc[p] = "gate" /\ j.cmd = "complete" /\ UNCHANGED checked
    BY <1>1, <1>4 DEF Gate, FlowOK, tables
  <2>2. \/ pc'[p] = "idle"
        \/ pc'[p] = "ensure" /\ job'[p].cmd = "complete"
        \/ pc'[p] = "stub" /\ job'[p] = j /\ ~ Unchecked(j.task)
    BY <1>1, <1>2, <1>4, <1>6, <2>1, ContinueEffect DEF Return, Goto
  <2>3. ~ Unchecked(j.task) => checked[j.task] = Item
    BY <1>1, <2>1 DEF Armed, Unchecked
  <2> QED
    BY <2>1, <2>2, <2>3
    DEF Held, OnDisk, Intent, Armed, Passed, Found, Tested, Written, Amiss
<1>5. CASE CheckItem(p)
  <2>1. j.cmd = "check"
    BY <1>1, <1>5 DEF CheckItem, FlowOK, ProcOK
  <2>2. pc'[p] = "idle" \/ (pc'[p] = "ensure" /\ job'[p].cmd = "check")
    BY <1>1, <1>2, <1>5, <1>6, <2>1, ContinueEffect DEF Return, Goto
  <2> QED
    BY <2>2 DEF Held, OnDisk, Intent, Armed, Passed, Found, Tested, Written, Amiss
<1> QED
  BY <1>3, <1>4, <1>5 DEF GateStep

\* The file of a Task in hand that has a row is where it is found.
LEMMA OneFile ==
  ASSUME Ground, NEW p \in Proc, pc[p] # "idle", pc[p] \notin Amiss,
         dbStatus[job[p].task] # Absent
  PROVE  \E l \in Loc : /\ Copies(job[p].task) = {l}
                        /\ file[job[p].task][l] = dbStatus[job[p].task]
                        /\ \A m \in Loc : Resolved(job[p].task, m) = l
  BY GroundFacts, ResolvedOne DEF Agrees, FileAgrees

LEMMA SameCopies ==
  ASSUME UNCHANGED file
  PROVE  \A t \in Task : Copies(t)' = Copies(t)
  BY DEF Copies

LEMMA AloneLookup ==
  ASSUME Ground, NEW p \in Proc, Lookup(p) \/ BeginTransaction(p) \/ UpdateStatus(p)
  PROVE  AloneInv'
<1> DEFINE j == job[p]
           k == [j EXCEPT !.path = dbPath[j.task], !.moved = FALSE]
<1>0. /\ pc[p] \in {"lookup", "begin", "lock"}
      /\ UNCHANGED <<dbStatus, file, row, checked>>
  BY DEF Lookup, BeginTransaction, UpdateStatus, tables, files
<1>1. /\ ProcOK /\ j \in Job /\ j.task \in Task /\ TypeInv
      /\ OnDisk(p) /\ Armed(p) /\ j.cmd \in Transitions
  BY <1>0, GroundFacts DEF Ground, FlowOK, Tx
<1>2. /\ k.cmd = j.cmd /\ k.task = j.task /\ k.from = j.from /\ k.to = j.to
      /\ k.path \in Loc
  BY <1>0, <1>1, RunningFacts DEF Job, DataOK
<1>3. \/ TransitionFailed(p)
      \/ dbStatus[j.task] = j.from /\ Continue(p, "resolve", k)
      \/ pc[p] = "begin" /\ Goto(p, "lock")
      \/ pc[p] = "lock" /\ Goto(p, "fm")
  BY DEF Lookup, BeginTransaction, UpdateStatus
<1>4. j.cmd = "complete" => checked'[j.task] = Item
  BY <1>0, <1>1 DEF Armed, Passed
<1> HIDE DEF k
<1> SUFFICES Held(p)'
  BY <1>0, Reads DEF Amiss
<1>5. CASE TransitionFailed(p)
  BY <1>0, <1>1, <1>4, <1>5, EndsHeld
<1>6. CASE ~ TransitionFailed(p)
  <2>1. /\ job'[p].cmd = j.cmd /\ job'[p].task = j.task
        /\ job'[p].from = j.from
        /\ job'[p].path = j.path \/ pc'[p] = "resolve"
        /\ pc'[p] = "resolve" => job'[p].from = dbStatus[j.task] /\ job'[p].path \in Loc
        /\ \/ pc'[p] = "resolve"
           \/ pc'[p] = "lock" /\ pc[p] = "begin"
           \/ pc'[p] = "fm" /\ pc[p] = "lock"
    BY <1>1, <1>2, <1>3, <1>6, ContinueEffect DEF Goto
  <2>2. \A t \in Task : Copies(t)' = Copies(t)
    BY <1>0, SameCopies
  <2>3. OnDisk(p)'
    BY <1>0, <1>1, <2>1, <2>2 DEF OnDisk, Found, Tested, Written, Amiss
  <2>4. Intent(p)' /\ Armed(p)'
    BY <1>1, <1>4, <2>1 DEF Intent, Armed, Passed, Transitions
  <2> QED
    BY <2>3, <2>4 DEF Held
<1> QED
  BY <1>5, <1>6

LEMMA AloneResolve ==
  ASSUME Ground, NEW p \in Proc, Resolve(p)
  PROVE  AloneInv'
<1> DEFINE j == job[p]
           found == Resolved(j.task, j.path)
           k == [j EXCEPT !.path = found]
<1>0. pc[p] = "resolve" /\ UNCHANGED <<dbStatus, file, row, checked>>
  BY DEF Resolve, files
<1>1. /\ ProcOK /\ j \in Job /\ GoodJob(j) /\ j.task \in Task /\ DataOK
      /\ OnDisk(p) /\ Intent(p) /\ Armed(p) /\ FlowOK("resolve", j)
  BY <1>0, GroundFacts
<1>2. dbStatus[j.task] = j.from /\ j.from # Absent
  <2>1. dbStatus[j.task] = j.from
    BY <1>0, <1>1 DEF OnDisk, Tested
  <2>2. j.from \in Status
    BY <1>0, <1>1 DEF FlowOK, Intent, Transitions, Direct, Edges, Status
  <2> QED
    BY <2>1, <2>2 DEF Status, Absent
<1>3. PICK l \in Loc : /\ Copies(j.task) = {l} /\ found = l
  BY <1>0, <1>1, <1>2, OneFile DEF Amiss, OnDisk
<1>4. /\ k.cmd = j.cmd /\ k.task = j.task /\ k.from = j.from /\ k.to = j.to /\ k.path = l
  BY <1>1, <1>3 DEF Job
<1>5. \/ j.cmd \in Transitions /\ Continue(p, "begin", k)
      \/ j.cmd = "delete" /\ Continue(p, "remove", k)
      \/ j.cmd \in Direct /\ Continue(p, "fm_free", k)
  <2>1. found # Nowhere
    BY <1>3 DEF Loc, Nowhere
  <2> QED
    BY <1>1, <2>1 DEF Resolve, FlowOK, Transitions, Direct
<1> HIDE DEF k
<1>6. /\ job'[p] = k
      /\ \/ j.cmd \in Transitions /\ pc'[p] = "begin"
         \/ j.cmd = "delete" /\ pc'[p] = "remove"
         \/ j.cmd \in Direct /\ pc'[p] = "fm_free"
  BY <1>1, <1>5, ContinueEffect
<1>7. \A t \in Task : Copies(t)' = Copies(t)
  BY <1>0, SameCopies
<1>8. OnDisk(p)'
  BY <1>0, <1>1, <1>2, <1>3, <1>4, <1>6, <1>7 DEF OnDisk, Found, Tested, Written, Amiss
<1>9. Intent(p)' /\ Armed(p)'
  BY <1>0, <1>1, <1>4, <1>6 DEF Intent, Armed, Passed
<1> QED
  BY <1>0, <1>8, <1>9, Reads DEF Held, Amiss

\* Writing and renaming the one file of a Task.
LEMMA WriteOne ==
  ASSUME DataOK, NEW t \in Task, NEW l \in Loc, Copies(t) = {l},
         NEW s \in Content, WriteFile(t, l, s)
  PROVE  /\ \A u \in Task \ {t} : file'[u] = file[u]
         /\ file'[t][l] = s
         /\ \A v \in Task : v = t => Copies(v)' = IF s = Absent THEN {} ELSE {l}
<1>1. /\ \A u \in Task \ {t} : file'[u] = file[u]
      /\ file'[t][l] = s
      /\ \A m \in Loc \ {l} : file'[t][m] = file[t][m]
  BY DEF WriteFile, DataOK
<1>2. \A m \in Loc : file[t][m] # Absent <=> m = l
  BY DEF Copies
<1> QED
  BY <1>1, <1>2 DEF Copies

LEMMA MoveOne ==
  ASSUME DataOK, NEW t \in Task, NEW l \in Loc, NEW m \in Loc, l # m,
         Copies(t) = {l}, MoveFile(t, l, m)
  PROVE  /\ \A u \in Task \ {t} : file'[u] = file[u]
         /\ file'[t][m] = file[t][l]
         /\ \A v \in Task : v = t => Copies(v)' = {m}
<1>1. \A k \in Loc : file[t][k] # Absent <=> k = l
  BY DEF Copies
<1>2. file[t][m] = Absent
  BY <1>1
<1>3. file' = [file EXCEPT ![t] = [@ EXCEPT ![l] = Absent, ![m] = file[t][l]]]
  BY <1>2 DEF MoveFile
<1>4. /\ \A u \in Task \ {t} : file'[u] = file[u]
      /\ file'[t][m] = file[t][l] /\ file'[t][l] = Absent
      /\ \A k \in Loc \ {l, m} : file'[t][k] = file[t][k]
  BY <1>3 DEF DataOK
<1> QED
  BY <1>1, <1>4 DEF Copies

LEMMA AloneFrontmatter ==
  ASSUME Ground, NEW p \in Proc, WriteFrontmatter(p)
  PROVE  AloneInv'
<1> DEFINE j == job[p]
<1>0. /\ pc[p] = "fm" /\ UNCHANGED <<dbStatus, row, checked>>
  BY DEF WriteFrontmatter, tables
<1>1. /\ ProcOK /\ j \in Job /\ GoodJob(j) /\ j.task \in Task /\ DataOK /\ ~ Fault
      /\ OnDisk(p) /\ Intent(p) /\ Armed(p) /\ FlowOK("fm", j) /\ Agrees(j.task)
  BY <1>0, GroundFacts DEF Amiss
<1>2. /\ Copies(j.task) = {j.path} /\ dbStatus[j.task] = j.from
      /\ j.cmd \in Transitions /\ {j.from, j.to} \subseteq Status
  BY <1>0, <1>1 DEF OnDisk, Found, Tested, FlowOK, Tx, Edges, Status, Transitions
<1>3. j.path \in Loc /\ file[j.task][j.path] # Absent /\ j.to \in Content \ {Absent}
  BY <1>2 DEF Copies, Content, Status, Absent
<1>4. WriteFile(j.task, j.path, j.to) /\ Goto(p, "move")
  BY <1>1, <1>3 DEF WriteFrontmatter
<1>5. PICK t \in Task : t = j.task
  BY <1>1
<1>6. /\ \A u \in Task \ {t} : file'[u] = file[u]
      /\ file'[t][j.path] = j.to /\ Copies(t)' = {j.path}
  BY <1>1, <1>2, <1>3, <1>4, <1>5, WriteOne
<1>7. pc'[p] = "move" /\ job'[p] = j
  BY <1>1, <1>4, ContinueEffect DEF Goto
<1>8. FileSays(t, j.to)' /\ RowSays(t, j.from)'
  BY <1>0, <1>1, <1>2, <1>3, <1>5, <1>6, <1>7 DEF FileSays, RowSays, Agrees
<1>9. OnDisk(p)'
  BY <1>0, <1>2, <1>5, <1>6, <1>7, <1>8
  DEF OnDisk, FileSays, RowSays, Found, Tested, Written, Amiss
<1>10. Intent(p)' /\ Armed(p)'
  BY <1>0, <1>1, <1>2, <1>7 DEF Intent, Armed, Passed, Transitions
<1> QED
  BY <1>0, <1>5, <1>6, <1>7, <1>9, <1>10, OthersSettled DEF Held, Settled, Amiss

LEMMA AloneMove ==
  ASSUME Ground, NEW p \in Proc, MoveToCompleted(p)
  PROVE  AloneInv'
<1> DEFINE j == job[p]
           k == [j EXCEPT !.path = "completed", !.moved = TRUE]
<1>0. /\ pc[p] = "move" /\ UNCHANGED <<dbStatus, row, checked>>
  BY DEF MoveToCompleted, tables
<1>1. /\ ProcOK /\ j \in Job /\ GoodJob(j) /\ j.task \in Task /\ DataOK /\ ~ Fault
      /\ OnDisk(p) /\ Intent(p) /\ Armed(p) /\ FlowOK("move", j)
  BY <1>0, GroundFacts
<1>2. /\ Copies(j.task) = {j.path} /\ dbStatus[j.task] = j.from
      /\ FileSays(j.task, j.to) /\ RowSays(j.task, j.from)
      /\ j.cmd \in Transitions
  BY <1>0, <1>1 DEF OnDisk, Found, Tested, Written, Amiss, FlowOK, Tx
<1>3. j.path \in Loc /\ file[j.task][j.path] # Absent /\ file[j.task][j.path] = j.to
  BY <1>2 DEF Copies, FileSays
<1>4. k.cmd = j.cmd /\ k.task = j.task /\ k.from = j.from /\ k.to = j.to
  BY <1>1 DEF Job
<1>5. \/ Goto(p, "commit") /\ UNCHANGED file
      \/ /\ MoveFile(j.task, "tasks", "completed") /\ Continue(p, "commit", k)
         /\ j.path = "tasks"
  BY <1>1, <1>3 DEF MoveToCompleted
<1> HIDE DEF k
<1>6. PICK t \in Task : t = j.task
  BY <1>1
<1>7. /\ pc'[p] = "commit" /\ job'[p].cmd = j.cmd /\ job'[p].task = j.task
      /\ job'[p].from = j.from /\ job'[p].to = j.to
  BY <1>1, <1>4, <1>5, ContinueEffect DEF Goto
<1>8. /\ \A u \in Task \ {t} : file'[u] = file[u]
      /\ \E l \in Loc : Copies(t)' = {l} /\ file'[t][l] = j.to
  <2>1. CASE UNCHANGED file
    BY <1>2, <1>6, <2>1, SameCopies DEF FileSays
  <2>2. CASE MoveFile(j.task, "tasks", "completed") /\ j.path = "tasks"
    BY <1>1, <1>2, <1>3, <1>6, <2>2, MoveOne DEF Loc
  <2> QED
    BY <1>5, <2>1, <2>2
<1>9. OnDisk(p)'
  BY <1>0, <1>2, <1>6, <1>7, <1>8
  DEF OnDisk, FileSays, RowSays, Found, Tested, Written, Amiss
<1>10. Intent(p)' /\ Armed(p)'
  BY <1>0, <1>1, <1>2, <1>7 DEF Intent, Armed, Passed, Transitions
<1> QED
  BY <1>0, <1>6, <1>7, <1>8, <1>9, <1>10, OthersSettled DEF Held, Settled, Amiss

LEMMA AloneCommit ==
  ASSUME Ground, NEW p \in Proc, CommitTransaction(p)
  PROVE  AloneInv'
<1> DEFINE j == job[p]
<1>0. /\ pc[p] = "commit" /\ UNCHANGED <<file, row, checked>>
  BY DEF CommitTransaction, files
<1>1. /\ ProcOK /\ j \in Job /\ GoodJob(j) /\ j.task \in Task /\ DataOK /\ ~ Fault
      /\ TypeInv /\ OnDisk(p) /\ Armed(p) /\ FlowOK("commit", j)
  BY <1>0, GroundFacts DEF Ground
<1>2. /\ FileSays(j.task, j.to) /\ RowSays(j.task, j.from)
      /\ j.cmd \in Transitions /\ j.to \in Status
  BY <1>0, <1>1 DEF OnDisk, Written, FlowOK, Tx, Edges, Status, Transitions
<1>3. /\ dbStatus' = [dbStatus EXCEPT ![j.task] = j.to]
      /\ IF j.task \in SprintTask THEN Goto(p, "row") ELSE TransitionSucceeded(p)
  BY <1>1 DEF CommitTransaction
<1>4. PICK t \in Task : t = j.task
  BY <1>1
<1>5. dbStatus'[t] = j.to /\ \A u \in Task \ {t} : dbStatus'[u] = dbStatus[u]
  BY <1>1, <1>3, <1>4 DEF DataOK
<1>6. \A u \in Task : Copies(u)' = Copies(u)
  BY <1>0, SameCopies
<1>7. CASE t \in SprintTask
  <2>1. pc'[p] = "row" /\ job'[p] = j
    BY <1>1, <1>3, <1>4, <1>7, ContinueEffect DEF Goto
  <2>2. OnDisk(p)'
    BY <1>0, <1>2, <1>4, <1>5, <1>6, <2>1
    DEF OnDisk, FileSays, RowSays, Found, Tested, Written, Amiss
  <2>3. Intent(p)' /\ Armed(p)'
    BY <1>0, <1>1, <1>2, <2>1 DEF Intent, Armed, Passed, Transitions
  <2> QED
    BY <1>0, <1>4, <1>5, <2>1, <2>2, <2>3, OthersSettled DEF Held, Settled, Amiss
<1>8. CASE t \notin SprintTask
  <2>1. Held(p)'
    BY <1>0, <1>1, <1>2, <1>3, <1>4, <1>8, EndsHeld DEF Armed, Passed
  <2>2. Agrees(t)'
    BY <1>0, <1>2, <1>4, <1>5, <1>6, <1>8
    DEF Agrees, FileAgrees, FileSays, RowSays, Status, Absent
  <2> QED
    BY <1>0, <1>4, <1>5, <2>1, <2>2, OthersSettled DEF Settled
<1> QED
  BY <1>7, <1>8

LEMMA AloneRow ==
  ASSUME Ground, NEW p \in Proc, WriteSprintRow(p)
  PROVE  AloneInv'
<1> DEFINE j == job[p]
<1>0. /\ pc[p] = "row" /\ UNCHANGED <<file, dbStatus, checked>>
      /\ row' = [row EXCEPT ![j.task] = NewCell(j)]
  BY DEF WriteSprintRow, tables
<1>1. /\ ProcOK /\ j \in Job /\ GoodJob(j) /\ j.task \in Task /\ DataOK
      /\ TypeInv /\ OnDisk(p) /\ Intent(p) /\ Armed(p) /\ FlowOK("row", j)
  BY <1>0, GroundFacts DEF Ground
<1>2. /\ FileSays(j.task, j.to) /\ RowSays(j.task, j.from) /\ dbStatus[j.task] = j.to
  BY <1>0, <1>1 DEF OnDisk, Written
<1>3. /\ j.cmd \in Transitions \cup Direct /\ j.to \in Status
      /\ j.cmd # "update" => j.from # "absorbed"
      /\ j.cmd = "reopen" => j.from = "done" \/ AfterReopen(j) = "reconcile"
  BY <1>0, <1>1 DEF FlowOK, Intent, Edges, Status, Transitions, Direct, AfterReopen
<1>4. PICK t \in Task : t = j.task
  BY <1>1
<1>5. /\ t \in SprintTask => row'[t] = j.to
      /\ \A u \in Task \ {t} : row'[u] = row[u]
  BY <1>0, <1>1, <1>2, <1>3, <1>4 DEF DataOK, RowSays, NewCell
<1>6. \A u \in Task : Copies(u)' = Copies(u)
  BY <1>0, SameCopies
<1>7. Agrees(t)'
  BY <1>0, <1>2, <1>3, <1>4, <1>5, <1>6
  DEF Agrees, FileAgrees, FileSays, RowSays, Status, Absent
<1>8. Held(p)'
  <2>1. CASE j.cmd = "reopen" /\ Goto(p, AfterReopen(j))
    <3>1. /\ job'[p] = j
          /\ pc'[p] = "reconcile" \/ (pc'[p] = "reset" /\ j.from = "done")
      BY <1>1, <1>3, <2>1, ContinueEffect DEF Goto, AfterReopen
    <3> QED
      BY <1>0, <1>1, <2>1, <3>1
      DEF Held, OnDisk, Intent, Armed, Passed, Found, Tested, Written, Amiss
  <2>2. CASE ~ (j.cmd = "reopen" /\ Goto(p, AfterReopen(j)))
    <3>1. \/ Return(p)
          \/ j.cmd \in Transitions /\ TransitionSucceeded(p)
      BY <1>3, <2>2 DEF WriteSprintRow, Transitions, Direct
    <3> QED
      BY <1>0, <1>1, <3>1, EndsHeld DEF Armed, Passed
  <2> QED
    BY <2>1, <2>2
<1> QED
  BY <1>0, <1>4, <1>5, <1>7, <1>8, OthersSettled DEF Settled

LEMMA AloneTicket ==
  ASSUME Ground, NEW p \in Proc, IssueTicket(p) \/ Reconcile(p)
  PROVE  AloneInv'
<1>0. /\ pc[p] \in {"ticket", "reconcile"} /\ UNCHANGED <<dbStatus, file, row>>
  BY DEF IssueTicket, Reconcile, files
<1>1. ProcOK /\ FlowOK(pc[p], job[p])
  BY <1>0, GroundFacts
<1>2. \/ pc'[p] = "idle"
      \/ /\ job'[p] = job[p] /\ job[p].cmd \in {"start", "checkpoint"}
         /\ pc'[p] \in {"reconcile", "body"}
  <2>1. CASE Reconcile(p)
    BY <1>1, <2>1, ContinueEffect DEF Reconcile, Goto, Return
  <2>2. CASE IssueTicket(p)
    <3>1. pc[p] = "ticket" /\ \E l \in {"idle", "reconcile", "body"} : Goto(p, l)
      BY <2>2 DEF IssueTicket, AfterBody
    <3>2. job[p].cmd \in {"start", "checkpoint"}
      BY <1>1, <3>1 DEF FlowOK
    <3> QED
      BY <1>1, <3>1, <3>2, ContinueEffect DEF Goto
  <2> QED
    BY <2>1, <2>2
<1>3. Held(p)'
  BY <1>2 DEF Held, OnDisk, Intent, Armed, Passed, Found, Tested, Written, Amiss
<1> QED
  BY <1>0, <1>3, Reads DEF Amiss

LEMMA AloneBodyRead ==
  ASSUME Ground, NEW p \in Proc, ReadBody(p) \/ ReadForStub(p)
  PROVE  AloneInv'
<1> DEFINE j == job[p]
           k(l) == [j EXCEPT !.path = l, !.buf = file[j.task][l]]
<1>0. /\ pc[p] \in {"body", "stub"} /\ UNCHANGED <<dbStatus, file, row, checked>>
  BY DEF ReadBody, ReadForStub, files, tables
<1>1. /\ ProcOK /\ j \in Job /\ j.task \in Task /\ TypeInv /\ DataOK
      /\ Armed(p) /\ FlowOK(pc[p], j)
  BY <1>0, GroundFacts DEF Ground
<1>2. j.cmd \in {"start", "checkpoint", "complete"}
  BY <1>0, <1>1 DEF FlowOK
<1>3. \/ pc[p] = "body" /\ j.cmd # "complete" /\ Goto(p, AfterBody(j))
      \/ pc[p] = "stub" /\ j.cmd = "complete" /\ FirstTransition(p)
      \/ /\ dbStatus[j.task] # Absent
         /\ \/ Continue(p, "rewrite", k(Resolved(j.task, dbPath[j.task])))
            \/ /\ file[j.task][dbPath[j.task]] # Absent
               /\ Continue(p, "rewrite", k(dbPath[j.task]))
  BY <1>1 DEF ReadBody, ReadForStub, FlowOK
<1>4. \A l : /\ k(l).cmd = j.cmd /\ k(l).task = j.task
             /\ k(l).path = l /\ k(l).buf = file[j.task][l]
  BY <1>1 DEF Job
<1> HIDE DEF k
<1> SUFFICES Held(p)'
  BY <1>0, Reads DEF Amiss
<1>5. CASE Goto(p, AfterBody(j)) /\ j.cmd # "complete"
  <2>1. pc'[p] = "idle" \/ (pc'[p] = "reconcile" /\ job'[p] = j)
    BY <1>1, <1>5, ContinueEffect DEF Goto, AfterBody
  <2> QED
    BY <1>2, <1>5, <2>1
    DEF Held, OnDisk, Intent, Armed, Passed, Found, Tested, Written, Amiss
<1>6. CASE j.cmd = "complete" /\ FirstTransition(p)
  BY <1>0, <1>1, <1>6, EndsHeld DEF Armed, Passed
<1>7. ASSUME dbStatus[j.task] # Absent, NEW m, Continue(p, "rewrite", k(m)),
             \/ m = Resolved(j.task, dbPath[j.task])
             \/ m = dbPath[j.task] /\ file[j.task][m] # Absent
      PROVE  Held(p)'
  <2>1. PICK l \in Loc : /\ Copies(j.task) = {l}
                         /\ Resolved(j.task, dbPath[j.task]) = l
    BY <1>0, <1>1, <1>7, OneFile DEF Amiss, DataOK
  <2>2. m = l
    BY <1>1, <1>7, <2>1 DEF Copies, DataOK
  <2>3. pc'[p] = "rewrite" /\ job'[p] = k(m)
    BY <1>1, <1>7, ContinueEffect
  <2>4. \A t \in Task : Copies(t)' = Copies(t)
    BY <1>0, SameCopies
  <2>5. OnDisk(p)'
    BY <1>0, <1>1, <1>4, <2>1, <2>2, <2>3, <2>4
    DEF OnDisk, Found, Tested, Written, Amiss
  <2>6. Intent(p)' /\ Armed(p)'
    BY <1>0, <1>1, <1>2, <1>4, <2>3 DEF Intent, Armed, Passed
  <2> QED
    BY <2>5, <2>6 DEF Held
<1> QED
  BY <1>3, <1>5, <1>6, <1>7

LEMMA AloneRewrite ==
  ASSUME Ground, NEW p \in Proc, RewriteBody(p)
  PROVE  AloneInv'
<1> DEFINE j == job[p]
<1>0. /\ pc[p] = "rewrite" /\ UNCHANGED <<dbStatus, row, checked>>
      /\ WriteFile(j.task, j.path, j.buf)
  BY DEF RewriteBody, tables
<1>1. /\ ProcOK /\ j \in Job /\ j.task \in Task /\ TypeInv /\ DataOK
      /\ OnDisk(p) /\ Armed(p) /\ FlowOK("rewrite", j)
  BY <1>0, GroundFacts DEF Ground
<1>2. j.path \in Loc /\ j.buf = file[j.task][j.path]
  BY <1>0, <1>1 DEF OnDisk, Found, Copies
<1>3. UNCHANGED file
  BY <1>0, <1>1, <1>2 DEF WriteFile, DataOK
<1> SUFFICES Held(p)'
  BY <1>0, <1>3, Reads DEF Amiss
<1>4. CASE j.cmd = "complete"
  BY <1>0, <1>1, <1>4, EndsHeld DEF RewriteBody, Armed, Passed
<1>5. CASE j.cmd # "complete"
  <2>1. pc'[p] = "idle" \/ (pc'[p] = "reconcile" /\ job'[p] = j /\ j.cmd = "start")
    BY <1>1, <1>5, ContinueEffect DEF RewriteBody, Goto, AfterBody
  <2> QED
    BY <2>1 DEF Held, OnDisk, Intent, Armed, Passed, Found, Tested, Written, Amiss
<1> QED
  BY <1>4, <1>5

LEMMA AloneUpdateFile ==
  ASSUME Ground, NEW p \in Proc, WriteFrontmatterFree(p)
  PROVE  AloneInv'
<1> DEFINE j == job[p]
<1>0. /\ pc[p] = "fm_free" /\ UNCHANGED <<dbStatus, row>>
  BY DEF WriteFrontmatterFree, tables
<1>1. /\ ProcOK /\ j \in Job /\ GoodJob(j) /\ j.task \in Task /\ DataOK /\ ~ Fault
      /\ OnDisk(p) /\ Intent(p) /\ FlowOK("fm_free", j) /\ Agrees(j.task)
  BY <1>0, GroundFacts DEF Amiss
<1>2. /\ Copies(j.task) = {j.path} /\ dbStatus[j.task] = j.from
      /\ j.cmd \in Direct /\ {j.from, j.to} \subseteq Status
  BY <1>0, <1>1 DEF OnDisk, Found, Tested, FlowOK, Intent, Status, Direct
<1>3. j.path \in Loc /\ file[j.task][j.path] # Absent /\ j.to \in Content \ {Absent}
  BY <1>2 DEF Copies, Content, Status, Absent
<1>4. /\ WriteFile(j.task, j.path, j.to)
      /\ \E l \in {"unmove", "force"} : /\ Goto(p, l)
                                        /\ l = "unmove" => j.cmd = "reopen"
  BY <1>1, <1>3 DEF WriteFrontmatterFree
<1>5. PICK t \in Task : t = j.task
  BY <1>1
<1>6. /\ \A u \in Task \ {t} : file'[u] = file[u]
      /\ file'[t][j.path] = j.to /\ Copies(t)' = {j.path}
  BY <1>1, <1>2, <1>3, <1>4, <1>5, WriteOne
<1>7. pc'[p] \in {"unmove", "force"} /\ job'[p] = j
  BY <1>1, <1>4, ContinueEffect DEF Goto
<1>8. RowSays(t, dbStatus[t])
  BY <1>1, <1>5 DEF Agrees
<1>9. OnDisk(p)'
  BY <1>0, <1>2, <1>3, <1>5, <1>6, <1>7, <1>8
  DEF OnDisk, FileSays, RowSays, Found, Tested, Written, Amiss
<1>10. Intent(p)' /\ Armed(p)'
  BY <1>0, <1>1, <1>2, <1>7 DEF Intent, Armed, Passed, Direct
<1> QED
  BY <1>0, <1>5, <1>6, <1>7, <1>9, <1>10, OthersSettled DEF Held, Settled, Amiss

LEMMA AloneUnmove ==
  ASSUME Ground, NEW p \in Proc, MoveFromCompleted(p)
  PROVE  AloneInv'
<1> DEFINE j == job[p]
<1>0. /\ pc[p] = "unmove" /\ UNCHANGED <<dbStatus, row>>
  BY DEF MoveFromCompleted, tables
<1>1. /\ ProcOK /\ j \in Job /\ j.task \in Task /\ DataOK /\ ~ Fault
      /\ OnDisk(p) /\ Intent(p) /\ FlowOK("unmove", j)
  BY <1>0, GroundFacts
<1>2. /\ Copies(j.task) = {j.path} /\ dbStatus[j.task] = j.from /\ j.cmd = "reopen"
      /\ FileSays(j.task, j.to) /\ RowSays(j.task, j.from)
  BY <1>0, <1>1 DEF OnDisk, Found, Tested, Written, Amiss, FlowOK
<1>3. PICK t \in Task : t = j.task
  BY <1>1
<1>4. \/ /\ MoveFile(t, "completed", "tasks") /\ Goto(p, "set_path")
         /\ j.path = "completed"
      \/ UNCHANGED file /\ Goto(p, "force")
  BY <1>1, <1>3 DEF MoveFromCompleted
<1>5. /\ \A u \in Task \ {t} : file'[u] = file[u]
      /\ \E l \in Loc : Copies(t)' = {l} /\ file'[t][l] = j.to
  <2>1. CASE UNCHANGED file
    BY <1>2, <1>3, <2>1, SameCopies DEF FileSays
  <2>2. CASE MoveFile(t, "completed", "tasks") /\ j.path = "completed"
    <3>1. file[t]["completed"] = j.to /\ Copies(t) = {"completed"}
      BY <1>2, <1>3, <2>2 DEF FileSays
    <3> QED
      BY <1>1, <2>2, <3>1, MoveOne DEF Loc
  <2> QED
    BY <1>4, <2>1, <2>2
<1>6. pc'[p] \in {"set_path", "force"} /\ job'[p] = j
  BY <1>1, <1>4, ContinueEffect DEF Goto
<1>7. OnDisk(p)'
  BY <1>0, <1>2, <1>3, <1>5, <1>6
  DEF OnDisk, FileSays, RowSays, Found, Tested, Written, Amiss
<1>8. Intent(p)' /\ Armed(p)'
  BY <1>0, <1>1, <1>2, <1>6 DEF Intent, Armed, Passed
<1> QED
  BY <1>0, <1>3, <1>5, <1>6, <1>7, <1>8, OthersSettled DEF Held, Settled, Amiss

LEMMA AlonePath ==
  ASSUME Ground, NEW p \in Proc, SetPath(p)
  PROVE  AloneInv'
<1> DEFINE j == job[p]
<1>0. /\ pc[p] = "set_path" /\ UNCHANGED <<dbStatus, file, row>>
  BY DEF SetPath, files
<1>1. ProcOK /\ j.task \in Task /\ OnDisk(p) /\ Intent(p) /\ FlowOK("set_path", j)
  BY <1>0, GroundFacts
<1>2. pc'[p] = "force" /\ job'[p] = j
  BY <1>1, ContinueEffect DEF SetPath, Goto
<1>3. \A u \in Task : Copies(u)' = Copies(u)
  BY <1>0, SameCopies
<1>4. OnDisk(p)'
  BY <1>0, <1>1, <1>2, <1>3
  DEF OnDisk, FileSays, RowSays, Found, Tested, Written, Amiss
<1>5. Intent(p)' /\ Armed(p)'
  BY <1>0, <1>1, <1>2 DEF Intent, Armed, Passed, FlowOK
<1> QED
  BY <1>0, <1>2, <1>4, <1>5, Reads DEF Held, Amiss

LEMMA AloneForce ==
  ASSUME Ground, NEW p \in Proc, ForceStatus(p)
  PROVE  AloneInv'
<1> DEFINE j == job[p]
<1>0. /\ pc[p] = "force" /\ UNCHANGED <<file, row>>
  BY DEF ForceStatus, files
<1>1. /\ ProcOK /\ j \in Job /\ j.task \in Task /\ DataOK /\ Free /\ ~ Busy
      /\ OnDisk(p) /\ Intent(p) /\ FlowOK("force", j)
  BY <1>0, GroundFacts DEF InTransaction
<1>2. /\ FileSays(j.task, j.to) /\ RowSays(j.task, j.from)
      /\ dbStatus[j.task] = j.from /\ {j.from, j.to} \subseteq Status
      /\ j.cmd \in Direct
  BY <1>0, <1>1 DEF OnDisk, Written, Tested, Amiss, FlowOK, Intent, Status, Direct
<1>3. dbStatus' = [dbStatus EXCEPT ![j.task] = j.to]
  BY <1>1, <1>2 DEF ForceStatus, Status, Absent
<1>4. PICK t \in Task : t = j.task
  BY <1>1
<1>5. dbStatus'[t] = j.to /\ \A u \in Task \ {t} : dbStatus'[u] = dbStatus[u]
  BY <1>1, <1>3, <1>4 DEF DataOK
<1>6. \A u \in Task : Copies(u)' = Copies(u)
  BY <1>0, SameCopies
<1>7. CASE t \in SprintTask
  <2>1. pc'[p] = "row" /\ job'[p] = j
    BY <1>1, <1>4, <1>7, ContinueEffect DEF ForceStatus, Goto
  <2>2. OnDisk(p)'
    BY <1>0, <1>2, <1>4, <1>5, <1>6, <2>1
    DEF OnDisk, FileSays, RowSays, Found, Tested, Written, Amiss
  <2>3. Intent(p)' /\ Armed(p)'
    BY <1>0, <1>1, <1>2, <2>1 DEF Intent, Armed, Passed, Direct
  <2> QED
    BY <1>0, <1>4, <1>5, <2>1, <2>2, <2>3, OthersSettled DEF Held, Settled, Amiss
<1>8. CASE t \notin SprintTask
  <2>1. \/ pc'[p] = "idle"
        \/ /\ job'[p] = j /\ j.cmd = "reopen"
           /\ pc'[p] = "reconcile" \/ (pc'[p] = "reset" /\ j.from = "done")
    BY <1>1, <1>2, <1>4, <1>8, ContinueEffect DEF ForceStatus, Goto, AfterReopen, Direct
  <2>2. Held(p)'
    BY <1>0, <1>1, <2>1
    DEF Held, OnDisk, Intent, Armed, Passed, Found, Tested, Written, Amiss
  <2>3. Agrees(t)'
    BY <1>0, <1>2, <1>4, <1>5, <1>6, <1>8
    DEF Agrees, FileAgrees, FileSays, RowSays, Status, Absent
  <2> QED
    BY <1>0, <1>4, <1>5, <2>2, <2>3, OthersSettled DEF Settled
<1> QED
  BY <1>7, <1>8

LEMMA AloneReset ==
  ASSUME Ground, NEW p \in Proc, ResetHarness(p)
  PROVE  AloneInv'
<1>0. /\ pc[p] = "reset" /\ UNCHANGED <<dbStatus, file, row>>
  BY DEF ResetHarness, files
<1>1. ProcOK /\ Intent(p) /\ FlowOK("reset", job[p])
  BY <1>0, GroundFacts
<1>2. pc'[p] = "reconcile" /\ job'[p] = job[p]
  BY <1>1, ContinueEffect DEF ResetHarness, Goto
<1>3. Held(p)'
  BY <1>0, <1>1, <1>2
  DEF Held, OnDisk, Intent, Armed, Passed, Found, Tested, Written, Amiss, FlowOK
<1> QED
  BY <1>0, <1>3, Reads DEF Amiss

LEMMA AloneDelete ==
  ASSUME Ground, NEW p \in Proc, RemoveFile(p) \/ RemoveRow(p) \/ DeleteTask(p)
  PROVE  AloneInv'
<1> DEFINE j == job[p]
<1>0. pc[p] \in {"remove", "drop_row", "drop"}
  BY DEF RemoveFile, RemoveRow, DeleteTask
<1>1. /\ ProcOK /\ j \in Job /\ GoodJob(j) /\ j.task \in Task /\ DataOK /\ ~ Fault
      /\ Free /\ ~ Busy /\ OnDisk(p) /\ Intent(p) /\ FlowOK(pc[p], j)
  BY <1>0, GroundFacts DEF InTransaction
<1>2. j.cmd = "delete" /\ dbStatus[j.task] = j.from /\ j.from = "todo"
  BY <1>0, <1>1 DEF OnDisk, Tested, Amiss, FlowOK, Intent
<1>3. PICK t \in Task : t = j.task
  BY <1>1
<1>4. CASE RemoveFile(p)
  <2>1. pc[p] = "remove" /\ UNCHANGED <<dbStatus, row>> /\ WriteFile(j.task, j.path, Absent)
    BY <1>1, <1>4 DEF RemoveFile, tables
  <2>2. Copies(t) = {j.path} /\ j.path \in Loc
    BY <1>1, <1>3, <2>1 DEF OnDisk, Found, Copies
  <2>3. Copies(t)' = {} /\ \A u \in Task \ {t} : file'[u] = file[u]
    BY <1>1, <1>3, <2>1, <2>2, WriteOne DEF Content
  <2>4. pc'[p] = "drop_row" /\ job'[p] = j
    BY <1>1, <1>4, ContinueEffect DEF RemoveFile, Goto
  <2>5. OnDisk(p)'
    BY <1>2, <1>3, <2>1, <2>3, <2>4 DEF OnDisk, Found, Tested, Written, Amiss
  <2>6. Intent(p)' /\ Armed(p)'
    BY <1>2, <2>4 DEF Intent, Armed, Passed
  <2> QED
    BY <1>3, <2>1, <2>3, <2>4, <2>5, <2>6, OthersSettled DEF Held, Settled, Amiss
<1>5. CASE RemoveRow(p)
  <2>1. /\ pc[p] = "drop_row" /\ UNCHANGED <<dbStatus, file>>
        /\ row' = IF t \in SprintTask THEN [row EXCEPT ![t] = Absent] ELSE row
    BY <1>3, <1>5 DEF RemoveRow, tables
  <2>2. /\ t \in SprintTask => row'[t] = Absent
        /\ \A u \in Task \ {t} : row'[u] = row[u]
    BY <1>1, <2>1 DEF DataOK
  <2>3. \A u \in Task : Copies(u)' = Copies(u)
    BY <2>1, SameCopies
  <2>4. pc'[p] = "drop" /\ job'[p] = j
    BY <1>1, <1>5, ContinueEffect DEF RemoveRow, Goto
  <2>5. OnDisk(p)'
    BY <1>1, <1>2, <1>3, <2>1, <2>2, <2>3, <2>4
    DEF OnDisk, Found, Tested, Written, Amiss, RowSays
  <2>6. Intent(p)' /\ Armed(p)'
    BY <1>2, <2>4 DEF Intent, Armed, Passed
  <2> QED
    BY <1>3, <2>1, <2>2, <2>4, <2>5, <2>6, OthersSettled DEF Held, Settled, Amiss
<1>6. CASE DeleteTask(p)
  <2>1. /\ pc[p] = "drop" /\ UNCHANGED <<file, row>> /\ Return(p)
        /\ dbStatus' = [dbStatus EXCEPT ![t] = Absent]
    BY <1>1, <1>3, <1>6 DEF DeleteTask, files
  <2>2. dbStatus'[t] = Absent /\ \A u \in Task \ {t} : dbStatus'[u] = dbStatus[u]
    BY <1>1, <2>1 DEF DataOK
  <2>3. \A u \in Task : Copies(u)' = Copies(u)
    BY <2>1, SameCopies
  <2>4. Agrees(t)'
    BY <1>1, <1>3, <2>1, <2>2, <2>3 DEF OnDisk, Agrees, FileAgrees, RowSays
  <2>5. Held(p)'
    BY <1>1, <2>1, ContinueEffect DEF Return, Goto, Held
  <2> QED
    BY <1>3, <2>1, <2>2, <2>4, <2>5, OthersSettled DEF Settled
<1> QED
  BY <1>4, <1>5, <1>6

\* Nothing failed, so what has no row has no file either.
LEMMA AloneOrphan ==
  ASSUME Ground, NEW p \in Proc, RemoveOrphan(p)
  PROVE  AloneInv'
<1> DEFINE j == job[p]
<1>0. pc[p] = "orphan" /\ UNCHANGED <<dbStatus, row>> /\ Return(p)
  BY DEF RemoveOrphan, tables
<1>1. /\ ProcOK /\ j.task \in Task /\ OnDisk(p) /\ Agrees(j.task)
  BY <1>0, GroundFacts DEF Amiss
<1>2. Copies(j.task) = {}
  BY <1>0, <1>1 DEF OnDisk, Agrees, FileAgrees
<1>3. UNCHANGED file
  BY <1>2 DEF RemoveOrphan
<1>4. Held(p)'
  BY <1>0, <1>1, ContinueEffect DEF Return, Goto, Held
<1> QED
  BY <1>0, <1>3, <1>4, Reads DEF Amiss

LEMMA AloneInit == Init => AloneInv
<1> SUFFICES ASSUME Init PROVE AloneInv
  OBVIOUS
<1>1. ASSUME NEW t \in Task PROVE Agrees(t)
  <2>1. Home(t) \in Loc
    BY DEF Home, Loc
  <2>2. Copies(t) = {Home(t)} /\ file[t][Home(t)] = "todo"
    BY <2>1 DEF Init, Copies, Absent
  <2> QED
    BY <2>1, <2>2 DEF Init, Agrees, FileAgrees, RowSays, Absent
<1> QED
  BY <1>1 DEF AloneInv, Settled, Held, Init

LEMMA AloneNext == Ground /\ [Next]_vars => AloneInv'
<1> SUFFICES ASSUME Ground, [Next]_vars PROVE AloneInv'
  OBVIOUS
<1>1. CASE UNCHANGED vars
  <2>1. UNCHANGED <<dbStatus, file, row, seeded, checked, pc, job>>
    BY <1>1 DEF vars, tables, files
  <2>2. AloneInv
    BY DEF Ground
  <2> QED
    BY <2>1, <2>2
    DEF AloneInv, Settled, Held, Agrees, FileAgrees, RowSays, Copies, OnDisk, FileSays,
        Intent, Armed, Passed
<1>2. ASSUME NEW p \in Proc, Crash(p) PROVE FALSE
  BY <1>2, GroundFacts DEF Crash
<1>3. ASSUME NEW p \in Proc, Step(p) PROVE AloneInv'
  BY <1>3, AloneRead, AloneGate, AloneLookup, AloneResolve, AloneFrontmatter, AloneMove,
     AloneCommit, AloneRow, AloneTicket, AloneBodyRead, AloneRewrite, AloneUpdateFile,
     AloneUnmove, AlonePath, AloneForce, AloneReset, AloneDelete, AloneOrphan
  DEF Step, TransitionStep, BodyStep, DirectStep
<1> QED
  BY <1>1, <1>2, <1>3, AloneIssue, NextCases

\* Whatever commands ran, one after the other: where nothing fails, the database,
\* the one file of a Task and the row of SPRINT.md say the same whenever no
\* command is under way (Start, Complete, Reopen, Delete, Update, syncTaskStatus).
THEOREM RecordsAgree ==
  ASSUME Alone, MaxFaults = 0
  PROVE  Spec => []RestAgrees
<1> DEFINE Inv == TypeInv /\ LockInv /\ FlowInv /\ AloneInv
<1>1. Init => Inv
  BY TypeInvInit, LockInvInit, FlowInvInit, AloneInit
<1>2. Inv /\ [Next]_vars => Inv'
  BY TypeInvStep, LockInvStep, FlowInvStep, AloneNext DEF Ground
<1>3. Inv => RestAgrees
  BY DEF AloneInv, Settled, Agrees, RowSays, RestAgrees, Idle, Amiss
<1> QED
  BY <1>1, <1>2, <1>3, PTL DEF Spec

\* What leads to the row of SPRINT.md and to the reset of the checks.
LEMMA RowLabels ==
  ASSUME TypeInv, FlowInv, NEW p \in Proc, Step(p), pc'[p] \in {"row", "reset"}
  PROVE  CommitTransaction(p) \/ ForceStatus(p) \/ WriteSprintRow(p)
<1>0. ProcOK
  BY DEF TypeInv
<1> USE <1>0, EndLabels, ContinueEffect DEF Goto
<1>1. ~ReadStatus(p)
  BY DEF ReadStatus
<1>2. ~GateStep(p)
  <2>1. ~EnsureItems(p)
    BY DEF EnsureItems, ProcOK, GoodJob, Return
  <2>2. ~Gate(p) /\ ~CheckItem(p)
    BY DEF Gate, CheckItem
  <2> QED
    BY <2>1, <2>2 DEF GateStep
<1>3. ~Lookup(p) /\ ~BeginTransaction(p) /\ ~UpdateStatus(p)
  BY DEF Lookup, BeginTransaction, UpdateStatus
<1>4. ~Resolve(p)
  BY DEF Resolve
<1>5. ~WriteFrontmatter(p) /\ ~MoveToCompleted(p)
  BY DEF WriteFrontmatter, MoveToCompleted, Rollback
<1>6. ~BodyStep(p)
  <2>1. AfterBody(job[p]) \in {"reconcile", "idle"}
    BY DEF AfterBody
  <2>2. ~IssueTicket(p) /\ ~ReadBody(p)
    BY <2>1 DEF IssueTicket, ReadBody
  <2>3. ~RewriteBody(p)
    BY <2>1 DEF RewriteBody
  <2>4. ~ReadForStub(p)
    BY DEF ReadForStub
  <2>5. ~Reconcile(p)
    BY DEF Reconcile
  <2> QED
    BY <2>2, <2>3, <2>4, <2>5 DEF BodyStep
<1>7. DirectStep(p) => ForceStatus(p)
  BY DEF DirectStep, WriteFrontmatterFree, MoveFromCompleted, SetPath,
         ResetHarness, RemoveFile, RemoveRow, DeleteTask, RemoveOrphan
<1> QED
  BY <1>1, <1>2, <1>3, <1>4, <1>5, <1>6, <1>7 DEF Step, TransitionStep

LEMMA EarnedSame ==
  ASSUME UNCHANGED checked, \A t \in Task : Disarming(t)' <=> Disarming(t)
  PROVE  Earned' = Earned
  BY DEF Earned

\* At the moment a reopened Task loses its status it loses its checks.
LEMMA PromiseForce ==
  ASSUME Ground, NEW p \in Proc, ForceStatus(p), job[p].cmd = "reopen"
  PROVE  Promise!Next
<1> DEFINE j == job[p]
<1>0. pc[p] = "force" /\ UNCHANGED checked
  BY DEF ForceStatus
<1>1. /\ ProcOK /\ j.task \in Task /\ DataOK /\ Free /\ ~ Busy
      /\ OnDisk(p) /\ Intent(p) /\ FlowOK("force", j)
  BY <1>0, GroundFacts DEF InTransaction
<1>2. /\ dbStatus[j.task] = j.from
      /\ \/ j.from = "done" /\ j.to \in {"todo", "in-progress"}
         \/ j.from = "in-progress" /\ j.to = "todo"
  BY <1>0, <1>1 DEF OnDisk, Tested, Amiss, FlowOK, Intent
<1>3. PICK t \in Task : t = j.task
  BY <1>1
<1>4. /\ dbStatus' = [dbStatus EXCEPT ![t] = j.to] /\ job'[p] = j
      /\ pc'[p] = "row" \/ pc'[p] = AfterReopen(j)
  BY <1>1, <1>2, <1>3, ContinueEffect DEF ForceStatus, Goto, Absent, AfterReopen
<1>5. \A u \in Task : ~ Disarming(u)
  BY <1>0 DEF Disarming, Ground, Alone
<1>6. Earned = checked
  BY <1>1, <1>5 DEF Earned, DataOK
<1>7. CASE j.from = "done"
  <2>1. \A u \in Task : Disarming(u)' <=> u = t
    BY <1>3, <1>4, <1>7 DEF Disarming, Ground, Alone, AfterReopen
  <2>2. Earned' = [checked EXCEPT ![t] = {}]
    BY <1>0, <1>1, <2>1 DEF Earned, DataOK
  <2>3. Promise!Reopen(t)
    BY <1>2, <1>3, <1>4, <1>6, <1>7, <2>2 DEF Promise!Reopen, Promise!Become
  <2> QED
    BY <2>3 DEF Promise!Next
<1>8. CASE j.from # "done"
  <2>1. \A u \in Task : ~ Disarming(u)'
    BY <1>3, <1>4, <1>8 DEF Disarming, Ground, Alone
  <2>2. Earned' = Earned
    BY <1>0, <1>5, <2>1, EarnedSame
  <2>3. Promise!StepBack(t)
    BY <1>2, <1>3, <1>4, <1>8, <2>2 DEF Promise!StepBack, Promise!Become
  <2> QED
    BY <2>3 DEF Promise!Next
<1> QED
  BY <1>7, <1>8

LEMMA PromiseReset ==
  ASSUME Ground, NEW p \in Proc, ResetHarness(p)
  PROVE  UNCHANGED <<dbStatus, Earned>>
<1> DEFINE j == job[p]
<1>0. pc[p] = "reset" /\ UNCHANGED dbStatus
  BY DEF ResetHarness
<1>1. /\ ProcOK /\ j.task \in Task /\ DataOK /\ Free /\ ~ Busy
      /\ Intent(p) /\ FlowOK("reset", j)
  BY <1>0, GroundFacts DEF InTransaction
<1>2. j.cmd = "reopen" /\ j.from = "done"
  BY <1>0, <1>1 DEF FlowOK, Intent
<1>3. PICK t \in Task : t = j.task
  BY <1>1
<1>4. checked' = [checked EXCEPT ![t] = {}] /\ pc'[p] = "reconcile"
  BY <1>1, <1>3, ContinueEffect DEF ResetHarness, Goto
<1>5. \A u \in Task : Disarming(u) <=> u = t
  BY <1>0, <1>2, <1>3 DEF Disarming, Ground, Alone
<1>6. \A u \in Task : ~ Disarming(u)'
  BY <1>4 DEF Disarming, Ground, Alone
<1>7. Earned' = Earned
  BY <1>1, <1>4, <1>5, <1>6 DEF Earned, DataOK
<1> QED
  BY <1>0, <1>7

LEMMA PromiseAlone ==
  ASSUME Ground, NEW p \in Proc, Step(p)
  PROVE  \/ UNCHANGED <<dbStatus, Earned>>
         \/ Promise!Next
         \/ UpdateBy(p)
<1> DEFINE j == job[p]
<1>0. /\ pc[p] # "idle" /\ Carries(p) /\ Next
  BY StepCarries DEF Ground, Next
<1>1. /\ ProcOK /\ j.task \in Task /\ DataOK /\ ~ Fault
      /\ OnDisk(p) /\ Intent(p) /\ Armed(p) /\ FlowOK(pc[p], j)
      /\ TypeInv /\ LockInv /\ FlowInv
  BY <1>0, GroundFacts DEF Ground
<1>2. UNCHANGED checked \/ Checks(p) \/ Resets(p)
  BY <1>0, <1>1, CheckWriters DEF Ground, Alone
<1>3. UNCHANGED dbStatus \/ Commits(p) \/ Forces(p) \/ Drops(p)
  BY <1>0, <1>1, StatusWriters DEF Ground, Alone
<1>4. CASE pc[p] = "force"
  <2>1. ForceStatus(p)
    BY <1>4 DEF Step, ReadStatus, GateStep, EnsureItems, Gate, CheckItem,
         TransitionStep, Lookup, Resolve, BeginTransaction, UpdateStatus,
         WriteFrontmatter, MoveToCompleted, CommitTransaction, WriteSprintRow,
         BodyStep, IssueTicket, ReadBody, ReadForStub, RewriteBody, Reconcile,
         DirectStep, WriteFrontmatterFree, MoveFromCompleted, SetPath,
         ForceStatus, ResetHarness, RemoveFile, RemoveRow, RemoveOrphan, DeleteTask
  <2>2. j.cmd \in Direct
    BY <1>1, <1>4 DEF FlowOK
  <2> QED
    BY <1>4, <2>1, <2>2, PromiseForce DEF UpdateBy, Direct
<1>5. CASE pc[p] = "reset"
  <2>1. ResetHarness(p)
    BY <1>5 DEF Step, ReadStatus, GateStep, EnsureItems, Gate, CheckItem,
         TransitionStep, Lookup, Resolve, BeginTransaction, UpdateStatus,
         WriteFrontmatter, MoveToCompleted, CommitTransaction, WriteSprintRow,
         BodyStep, IssueTicket, ReadBody, ReadForStub, RewriteBody, Reconcile,
         DirectStep, WriteFrontmatterFree, MoveFromCompleted, SetPath,
         ForceStatus, ResetHarness, RemoveFile, RemoveRow, RemoveOrphan, DeleteTask
  <2> QED
    BY <2>1, PromiseReset
<1>6. CASE pc[p] = "row"
  <2>1. WriteSprintRow(p)
    BY <1>6 DEF Step, ReadStatus, GateStep, EnsureItems, Gate, CheckItem,
         TransitionStep, Lookup, Resolve, BeginTransaction, UpdateStatus,
         WriteFrontmatter, MoveToCompleted, CommitTransaction, WriteSprintRow,
         BodyStep, IssueTicket, ReadBody, ReadForStub, RewriteBody, Reconcile,
         DirectStep, WriteFrontmatterFree, MoveFromCompleted, SetPath,
         ForceStatus, ResetHarness, RemoveFile, RemoveRow, RemoveOrphan, DeleteTask
  <2>2. UNCHANGED <<dbStatus, checked>>
    BY <2>1 DEF WriteSprintRow, tables
  <2>3. \A u \in Task : Disarming(u)' <=> Disarming(u)
    <3>1. CASE j.cmd = "reopen"
      <4>1. /\ job'[p] = j /\ pc'[p] \in {"reset", "reconcile"}
            /\ pc'[p] = "reset" <=> j.from = "done"
        BY <1>1, <2>1, <3>1, ContinueEffect DEF WriteSprintRow, Goto, AfterReopen
      <4> QED
        BY <1>6, <3>1, <4>1 DEF Disarming, Ground, Alone
    <3>2. CASE j.cmd # "reopen"
      <4>1. pc'[p] = "idle" \/ job'[p].cmd # "reopen"
        BY <1>0, <3>2 DEF Carries
      <4> QED
        BY <3>2, <4>1 DEF Disarming, Ground, Alone
    <3> QED
      BY <3>1, <3>2
  <2> QED
    BY <2>2, <2>3, EarnedSame
<1>7. CASE pc[p] \notin {"force", "reset", "row"}
  <2>1. \A u \in Task : ~ Disarming(u)
    BY <1>7 DEF Disarming, Ground, Alone
  <2>2. pc'[p] \in {"row", "reset"} => job'[p].cmd # "reopen"
    <3>1. pc'[p] \in {"row", "reset"} => pc[p] = "commit"
      BY <1>1, <1>7, RowLabels DEF CommitTransaction, ForceStatus, WriteSprintRow
    <3> QED
      BY <1>0, <1>1, <3>1 DEF Carries, FlowOK, Tx, Transitions
  <2>3. \A u \in Task : ~ Disarming(u)'
    BY <2>2 DEF Disarming, Ground, Alone
  <2>4. Earned = checked /\ Earned' = checked'
    <3>1. TypeInv'
      BY <1>0, <1>1, TypeInvStep
    <3>2. checked' = [t \in Task |-> checked'[t]]
      BY <3>1 DEF TypeInv, DataOK
    <3> QED
      BY <1>1, <2>1, <2>3, <3>2 DEF Earned, DataOK
  <2>5. CASE UNCHANGED <<dbStatus, checked>>
    BY <2>4, <2>5
  <2>6. CASE Checks(p)
    <3>1. j.item \in Item
      BY <1>1, <2>6 DEF Checks, ProcOK, GoodJob
    <3>2. Promise!Check(j.task, j.item)
      BY <2>4, <2>6 DEF Checks, Promise!Check
    <3> QED
      BY <1>1, <3>1, <3>2 DEF Promise!Next
  <2>7. CASE Commits(p) /\ UNCHANGED checked
    BY <1>1, <2>4, <2>7, PromiseCommit DEF Armed
  <2>8. CASE Drops(p) /\ UNCHANGED checked
    <3>1. dbStatus[j.task] = "todo"
      BY <1>1, <2>8 DEF Drops, OnDisk, Tested, Amiss, Intent, FlowOK
    <3>2. Promise!Delete(j.task)
      BY <2>4, <2>8, <3>1 DEF Drops, Sets, Absent, Promise!Delete, Promise!Become
    <3> QED
      BY <1>1, <3>2 DEF Promise!Next
  <2> QED
    BY <1>2, <1>3, <1>7, <2>5, <2>6, <2>7, <2>8 DEF Checks, Resets, Commits, Forces, Drops
<1> QED
  BY <1>4, <1>5, <1>6, <1>7

LEMMA PromiseAloneNext ==
  ASSUME Ground, [Next]_vars
  PROVE  [Promise!Next \/ \E p \in Proc : UpdateBy(p)]_(Promise!vars)
<1>1. CASE UNCHANGED vars
  <2>1. UNCHANGED <<dbStatus, checked, pc, job>>
    BY <1>1 DEF vars, tables
  <2>2. \A u \in Task : Disarming(u)' <=> Disarming(u)
    BY <2>1 DEF Disarming
  <2> QED
    BY <2>1, <2>2, EarnedSame DEF Promise!vars
<1>2. ASSUME NEW p \in Proc, Crash(p) PROVE FALSE
  BY <1>2, GroundFacts DEF Crash
<1>3. ASSUME NEW p \in Proc, Step(p)
      PROVE  UNCHANGED <<dbStatus, Earned>> \/ Promise!Next \/ UpdateBy(p)
  BY <1>3, PromiseAlone
<1>4. ASSUME NEW p \in Proc, NEW c \in AllCommands, NEW t \in Task, Issue(p, c, t)
      PROVE  UNCHANGED <<dbStatus, Earned>>
  <2>1. UNCHANGED <<dbStatus, checked>> /\ pc[p] = "idle" /\ TypeInv /\ ProcOK
    BY <1>4 DEF Issue, tables, Ground, TypeInv
  <2>2. \E l \in {"lookup", "ensure", "read"} : \E k : Continue(p, l, k)
    <3>1. CASE c = "start"
      BY <1>4, <3>1 DEF Issue
    <3>2. CASE c # "start"
      BY <1>4, <3>2 DEF Issue
    <3> QED
      BY <3>1, <3>2
  <2>3. pc'[p] \in {"lookup", "ensure", "read"}
    BY <2>1, <2>2, ContinueEffect
  <2>4. \A u \in Task : Disarming(u)' <=> Disarming(u)
    BY <2>1, <2>3 DEF Disarming, Ground, Alone
  <2> QED
    BY <2>1, <2>4, EarnedSame
<1> QED
  BY <1>1, <1>2, <1>3, <1>4, NextCases DEF Promise!vars

\* Whatever commands run, one after the other, where nothing fails: every step
\* that `task update` does not make is one TaskStateMachine promises.  A Task is
\* reopened with its checks taken away, deleted from todo, and done only with
\* every required item checked (Complete, Reopen, Delete, HarnessCheck).
THEOREM LifecycleImplementsButForUpdate ==
  ASSUME Alone, MaxFaults = 0
  PROVE  Spec => PromiseButForUpdate
<1> DEFINE Inv == TypeInv /\ LockInv /\ FlowInv /\ AloneInv
<1>1. Init => Inv
  BY TypeInvInit, LockInvInit, FlowInvInit, AloneInit
<1>2. Inv /\ [Next]_vars => Inv'
  BY TypeInvStep, LockInvStep, FlowInvStep, AloneNext DEF Ground
<1>3. Inv /\ [Next]_vars => [Promise!Next \/ \E p \in Proc : UpdateBy(p)]_(Promise!vars)
  BY PromiseAloneNext DEF Ground
<1>4. Init => Promise!Init
  BY PromiseInit
<1> QED
  BY <1>1, <1>2, <1>3, <1>4, PTL DEF Spec, PromiseButForUpdate
=============================================================================
