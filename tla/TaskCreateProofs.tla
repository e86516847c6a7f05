-------------------------- MODULE TaskCreateProofs --------------------------
(***************************************************************************)
(* Theorems about TaskCreate, for any number of processes, worktrees and   *)
(* titles, whatever rows, files and counter they start from.               *)
(***************************************************************************)
EXTENDS TaskCreate, TLAPS

-----------------------------------------------------------------------------
(* Type correctness.                                                       *)

LEMMA NoJobType == NoJob \in Job
  BY DEF NoJob, Job, AllCommands

LEMMA IdsType == \A s : s \subseteq Rows \/ s \subseteq Files => Ids(s) \subseteq Nat
  BY DEF Ids, Rows, Files

ProcOK == pc \in [Proc -> Label] /\ job \in [Proc -> Job]

\* Every step of a process goes through Continue.
LEMMA ContinueOK ==
  ASSUME ProcOK, NEW p \in Proc, NEW l \in Label, NEW j \in Job, Continue(p, l, j)
  PROVE  ProcOK'
  BY NoJobType DEF ProcOK, Continue

LEMMA GotoOK ==
  ASSUME ProcOK, NEW p \in Proc, NEW l \in Label, Goto(p, l)
  PROVE  ProcOK'
  BY ContinueOK DEF Goto, ProcOK

LEMMA ReturnOK ==
  ASSUME ProcOK, NEW p \in Proc, Return(p)
  PROVE  ProcOK'
  BY GotoOK DEF Return, Label

DataOK == /\ now \in Nat
          /\ counter \in Nat
          /\ tasks \subseteq Rows
          /\ files \in [Worktree -> SUBSET Files]
          /\ backlog \in [Worktree -> SUBSET Nat]
          /\ faults \in Nat
          /\ torn \subseteq Nat

LEMMA TypeOKParts == (TypeOK <=> DataOK /\ ProcOK) /\ (TypeOK' <=> DataOK' /\ ProcOK')
  BY DEF TypeOK, DataOK, ProcOK

LEMMA TodayType == now \in Nat => Today \in Int
  BY CreateAssumption DEF Today

LEMMA Grows ==
  ASSUME NEW n \in Nat, NEW m \in Nat, NEW k, k = n \/ k = AtLeast(n, m)
  PROVE  n <= k
  BY DEF AtLeast

LEMMA AtLeastType == \A m, n \in Nat : AtLeast(m, n) \in Nat /\ m <= AtLeast(m, n)
                                         /\ n <= AtLeast(m, n)
  BY DEF AtLeast

LEMMA FaultType == faults \in Nat /\ (Fault \/ UNCHANGED faults) => faults' \in Nat
  BY DEF Fault

LEMMA TypeInit == Init => TypeOK
  <1> SUFFICES ASSUME Init PROVE TypeOK
    OBVIOUS
  <1> USE CreateAssumption
  <1>1. tasks \subseteq Rows
    BY DEF Init, Rows
  <1>2. \A n \in KnownFiles : KnownFile(n) \in Files
    BY DEF Files, KnownFile
  <1>3. {KnownFile(n) : n \in KnownFiles} \in SUBSET Files
    BY <1>2
  <1>4. files \in [Worktree -> SUBSET Files]
    BY <1>3 DEF Init
  <1>5. ProcOK
    BY NoJobType DEF Init, ProcOK, Label
  <1> QED BY <1>1, <1>4, <1>5 DEF Init, TypeOK, ProcOK

\* What an assignment to a local variable leaves of a command's job.
LEMMA JobFields ==
  ASSUME NEW j \in Job
  PROVE  /\ \A n \in Nat : /\ [j EXCEPT !.id = n] \in Job
                           /\ [j EXCEPT !.max = n] \in Job
         /\ \A s \in SUBSET Nat : /\ [j EXCEPT !.page = s] \in Job
                                  /\ [j EXCEPT !.unlisted = s] \in Job
                                  /\ [j EXCEPT !.orphans = s] \in Job
         /\ \A s \in SUBSET Files : [j EXCEPT !.missing = s] \in Job
         /\ \A n \in Nat, s \in SUBSET Nat :
              [j EXCEPT !.id = n, !.unlisted = s] \in Job
  BY DEF Job

LEMMA JobTypes ==
  ASSUME NEW j \in Job
  PROVE  /\ j.id \in Nat /\ j.max \in Nat /\ j.page \subseteq Nat
         /\ j.title \in Title \cup {KnownTitle}
         /\ j.seen \subseteq Files /\ j.missing \subseteq Files
         /\ j.unlisted \subseteq Nat /\ j.orphans \subseteq Nat
  BY DEF Job

LEMMA TypeCreate ==
  ASSUME TypeOK, NEW p \in Proc, Create(p)
  PROVE  TypeOK'
  <1> USE TypeOKParts
  <1>0. ProcOK /\ DataOK /\ job[p] \in Job
    BY DEF ProcOK
  <1>j. /\ job[p].id \in Nat /\ job[p].max \in Nat
        /\ job[p].title \in Title \cup {KnownTitle}
    BY <1>0, JobTypes
  <1>1. ASSUME NEW title \in Title, CheckTitle(p, title)
        PROVE  TypeOK'
    <2>1. [NoJob EXCEPT !.cmd = "create", !.title = title] \in Job
      BY NoJobType DEF Job, AllCommands
    <2> QED BY <1>0, <1>1, <2>1, ContinueOK DEF CheckTitle, DataOK, Label
  <1>2. CASE Scan(p)
    <2>1. Ids(files[Tree[p]]) \subseteq Nat
      BY <1>0, CreateAssumption, IdsType DEF DataOK
    <2>2. PICK n \in Nat : Continue(p, "bump", [job[p] EXCEPT !.max =
                              IF n > TaskIDSanityMax THEN 0 ELSE n])
      BY <1>2, <2>1 DEF Scan
    <2>3. (IF n > TaskIDSanityMax THEN 0 ELSE n) \in Nat
      OBVIOUS
    <2>4. ProcOK'
      BY <1>0, <2>2, <2>3, ContinueOK, JobFields DEF Label
    <2> QED BY <1>0, <1>2, <2>4 DEF Scan, DataOK
  <1>3. CASE Bump(p)
    <2>1. ProcOK'
      BY <1>0, <1>3, GotoOK DEF Bump, Label
    <2>2. counter' \in Nat /\ faults' \in Nat
      BY <1>0, <1>3, <1>j, AtLeastType, FaultType DEF Bump, DataOK
    <2> QED BY <1>0, <1>3, <2>1, <2>2 DEF Bump, DataOK
  <1>4. CASE ReadMax(p)
    <2>1. Ids(tasks) \subseteq Nat
      BY <1>0, IdsType DEF DataOK
    <2>2. PICK n \in Nat : Continue(p, "sync", [job[p] EXCEPT !.max = n])
      BY <1>4, <2>1 DEF ReadMax
    <2>3. ProcOK'
      BY <1>0, <2>2, ContinueOK, JobFields DEF Label
    <2> QED BY <1>0, <1>4, <2>3 DEF ReadMax, DataOK
  <1>5. CASE SyncCounter(p)
    <2>1. ProcOK'
      BY <1>0, <1>5, GotoOK, ReturnOK DEF SyncCounter, Label
    <2>2. counter' \in Nat /\ faults' \in Nat
      BY <1>0, <1>5, <1>j, AtLeastType, FaultType DEF SyncCounter, DataOK
    <2> QED BY <1>0, <1>5, <2>1, <2>2 DEF SyncCounter, DataOK
  <1>6. CASE NextCounter(p)
    <2>1. counter + 1 \in Nat
      BY <1>0 DEF DataOK
    <2>2. ProcOK'
      BY <1>0, <1>6, <2>1, ContinueOK, ReturnOK, JobFields DEF NextCounter, Label
    <2>3. counter' \in Nat /\ faults' \in Nat
      BY <1>0, <1>6, <2>1, FaultType DEF NextCounter, DataOK
    <2> QED BY <1>0, <1>6, <2>2, <2>3 DEF NextCounter, DataOK
  <1>7. CASE WriteFile(p)
    <2> DEFINE f == [id |-> job[p].id, title |-> job[p].title,
                     created |-> Today, sprint |-> SprintValue]
    <2>1. f \in Files
      BY <1>0, <1>j, TodayType DEF Files, DataOK, SprintValue
    <2> HIDE DEF f
    <2>2. ProcOK'
      BY <1>0, <1>7, GotoOK, ReturnOK DEF WriteFile, Label
    <2>3. files' = [files EXCEPT ![Tree[p]] = @ \cup {f}] \/ UNCHANGED files
      BY <1>7 DEF WriteFile, f
    <2>4. files' \in [Worktree -> SUBSET Files]
      BY <1>0, <2>1, <2>3, CreateAssumption DEF DataOK
    <2>5. faults' \in Nat
      BY <1>0, <1>7, FaultType DEF WriteFile, DataOK
    <2> QED BY <1>0, <1>7, <2>2, <2>4, <2>5 DEF WriteFile, DataOK
  <1>8. CASE InsertRow(p)
    <2> DEFINE r == [id |-> job[p].id, title |-> job[p].title,
                     created |-> Today, at |-> now]
    <2>1. r \in Rows
      BY <1>0, <1>j, TodayType DEF Rows, DataOK
    <2> HIDE DEF r
    <2>2. ProcOK'
      BY <1>0, <1>8, GotoOK, ReturnOK DEF InsertRow, Label
    <2>3. tasks' = tasks \cup {r} \/ UNCHANGED tasks
      BY <1>8 DEF InsertRow, r
    <2>4. faults' \in Nat
      BY <1>0, <1>8, FaultType DEF InsertRow, DataOK
    <2> QED BY <1>0, <1>8, <2>1, <2>2, <2>3, <2>4 DEF InsertRow, DataOK
  <1>9. CASE UndoFile(p)
    <2>1. ProcOK'
      BY <1>0, <1>9, ReturnOK DEF UndoFile
    <2>2. files' \in [Worktree -> SUBSET Files]
      BY <1>0, <1>9, CreateAssumption DEF UndoFile, DataOK
    <2>3. torn' \subseteq Nat /\ faults' \in Nat
      BY <1>0, <1>9, <1>j, FaultType DEF UndoFile, DataOK
    <2> QED BY <1>0, <1>9, <2>1, <2>2, <2>3 DEF UndoFile, DataOK
  <1> QED
    BY <1>1, <1>2, <1>3, <1>4, <1>5, <1>6, <1>7, <1>8, <1>9 DEF Create

LEMMA AfterLabels == \A j : AfterListing(j) \in Label /\ AfterSummary(j) \in Label
  BY DEF AfterListing, AfterSummary, Label

LEMMA TypePage ==
  ASSUME TypeOK, NEW p \in Proc, Page(p)
  PROVE  TypeOK'
  <1> USE TypeOKParts, CreateAssumption
  <1>0. ProcOK /\ DataOK /\ job[p] \in Job
    BY DEF ProcOK
  <1>j. job[p].id \in Nat /\ job[p].page \subseteq Nat
    BY <1>0, JobTypes
  <1>b. backlog[Tree[p]] \in SUBSET Nat
    BY <1>0 DEF DataOK
  <1>1. CASE ReadBacklog(p)
    <2>1. ProcOK'
      BY <1>0, <1>1, <1>b, ContinueOK, GotoOK, JobFields, AfterLabels
         DEF ReadBacklog, Label
    <2>2. faults' \in Nat
      BY <1>0, <1>1, FaultType DEF ReadBacklog, DataOK
    <2> QED BY <1>0, <1>1, <2>1, <2>2 DEF ReadBacklog, DataOK
  <1>2. CASE WriteBacklog(p)
    <2>1. ProcOK'
      BY <1>0, <1>2, GotoOK, AfterLabels DEF WriteBacklog
    <2>2. backlog' \in [Worktree -> SUBSET Nat] /\ faults' \in Nat
      BY <1>0, <1>2, <1>j, FaultType DEF WriteBacklog, DataOK
    <2> QED BY <1>0, <1>2, <2>1, <2>2 DEF WriteBacklog, DataOK
  <1>3. CASE ReadSummary(p)
    <2>1. ProcOK'
      BY <1>0, <1>3, <1>b, ContinueOK, GotoOK, JobFields, AfterLabels
         DEF ReadSummary, Label
    <2> QED BY <1>0, <1>3, <2>1 DEF ReadSummary, DataOK
  <1>4. CASE WriteSummary(p)
    <2>1. ProcOK'
      BY <1>0, <1>4, GotoOK, AfterLabels DEF WriteSummary
    <2>2. backlog' \in [Worktree -> SUBSET Nat]
      BY <1>0, <1>4, <1>j DEF WriteSummary, DataOK
    <2> QED BY <1>0, <1>4, <2>1, <2>2 DEF WriteSummary, DataOK
  <1> QED BY <1>1, <1>2, <1>3, <1>4 DEF Page

LEMMA TypeSync ==
  ASSUME TypeOK, NEW p \in Proc, Sync(p)
  PROVE  TypeOK'
  <1> USE TypeOKParts, CreateAssumption
  <1>0. ProcOK /\ DataOK /\ job[p] \in Job
    BY DEF ProcOK
  <1>j. /\ job[p].seen \subseteq Files /\ job[p].missing \subseteq Files
        /\ job[p].unlisted \subseteq Nat /\ job[p].orphans \subseteq Nat
    BY <1>0, JobTypes
  <1>1. CASE ListFiles(p)
    <2>1. files[Tree[p]] \in SUBSET Files
      BY <1>0 DEF DataOK
    <2>2. [NoJob EXCEPT !.cmd = "sync", !.seen = files[Tree[p]]] \in Job
      BY <2>1, NoJobType DEF Job, AllCommands
    <2> QED BY <1>0, <1>1, <2>2, ContinueOK DEF ListFiles, DataOK, Label
  <1>2. CASE FindMissing(p)
    <2>1. {f \in StillThere(p) : f.id \notin Ids(tasks)} \in SUBSET Files
      BY <1>j DEF StillThere
    <2> QED BY <1>0, <1>2, <2>1, ContinueOK, JobFields
            DEF FindMissing, DataOK, Label
  <1>3. CASE FindUnlisted(p)
    <2>1. {f \in StillThere(p) : f.sprint = ""} \subseteq Files
      BY <1>j DEF StillThere
    <2>2. Ids({f \in StillThere(p) : f.sprint = ""}) \ backlog[Tree[p]] \in SUBSET Nat
      BY <2>1, IdsType
    <2> QED BY <1>0, <1>3, <2>2, ContinueOK, JobFields
            DEF FindUnlisted, DataOK, Label
  <1>4. CASE ReadRows(p)
    <2>1. Ids(tasks) \ Ids(job[p].seen) \in SUBSET Nat
      BY <1>0, IdsType DEF DataOK
    <2> QED BY <1>0, <1>4, <2>1, ContinueOK, JobFields DEF ReadRows, DataOK, Label
  <1>5. CASE FindOrphans(p)
    <2>1. job[p].orphans \ (backlog[Tree[p]] \cup FileExistsInAnyWorktree(p))
            \in SUBSET Nat
      BY <1>j
    <2> QED BY <1>0, <1>5, <2>1, ContinueOK, JobFields
            DEF FindOrphans, DataOK, Label
  <1>6. CASE RepairRow(p)
    <2>1. CASE job[p].missing = {} /\ Goto(p, "relist")
               /\ UNCHANGED <<tasks, counter, faults>>
      <3>1. ProcOK'
        BY <1>0, <2>1, GotoOK DEF Label
      <3> QED BY <1>0, <1>6, <2>1, <3>1 DEF RepairRow, DataOK
    <2>2. ASSUME NEW f \in job[p].missing,
                 Continue(p, "repair", [job[p] EXCEPT !.missing = @ \ {f}]),
                 \/ /\ tasks' = IF f.id \in Ids(tasks) THEN tasks
                              ELSE tasks \cup {[id |-> f.id, title |-> f.title,
                                                created |-> f.created, at |-> now]}
                    /\ counter' = AtLeast(counter, f.id)
                    /\ UNCHANGED faults
                 \/ Fault /\ UNCHANGED <<tasks, counter>>
          PROVE  TypeOK'
      <3>1. job[p].missing \ {f} \in SUBSET Files
        BY <1>j
      <3>2. ProcOK'
        BY <1>0, <2>2, <3>1, ContinueOK, JobFields DEF Label
      <3>3. f \in Files
        BY <1>j
      <3>4. /\ f.id \in Nat /\ f.created \in Int
            /\ f.title \in Title \cup {KnownTitle}
        BY <3>3 DEF Files
      <3>n. counter \in Nat /\ faults \in Nat /\ now \in Int
        BY <1>0 DEF DataOK
      <3> DEFINE r == [id |-> f.id, title |-> f.title, created |-> f.created,
                       at |-> now]
      <3>5. r \in Rows
        BY <3>4, <3>n DEF Rows
      <3> HIDE DEF r
      <3>6. tasks' = tasks \cup {r} \/ tasks' = tasks
        BY <2>2 DEF r
      <3>7. counter' \in Nat /\ faults' \in Nat
        BY <2>2, <3>4, <3>n, AtLeastType, FaultType
      <3> QED BY <1>0, <1>6, <3>2, <3>5, <3>6, <3>7 DEF RepairRow, DataOK
    <2> QED BY <1>6, <2>1, <2>2 DEF RepairRow
  <1>7. CASE Relist(p)
    <2>1. \A n \in job[p].unlisted : n \in Nat /\ job[p].unlisted \ {n} \in SUBSET Nat
      BY <1>j
    <2>2. ProcOK'
      BY <1>0, <1>7, <2>1, ContinueOK, GotoOK, JobFields DEF Relist, Label
    <2> QED BY <1>0, <1>7, <2>2 DEF Relist, DataOK
  <1>8. CASE Purge(p)
    <2>1. \A n \in job[p].orphans : job[p].orphans \ {n} \in SUBSET Nat
      BY <1>j
    <2>2. ProcOK'
      BY <1>0, <1>8, <2>1, ContinueOK, GotoOK, JobFields DEF Purge, Label
    <2>3. tasks' \subseteq tasks /\ faults' \in Nat
      BY <1>0, <1>8, FaultType DEF Purge, DataOK
    <2> QED BY <1>0, <1>8, <2>2, <2>3 DEF Purge, DataOK
  <1> QED
    BY <1>1, <1>2, <1>3, <1>4, <1>5, <1>6, <1>7, <1>8 DEF Sync

LEMMA TypeNext == TypeOK /\ [Next]_vars => TypeOK'
  <1> SUFFICES ASSUME TypeOK, [Next]_vars PROVE TypeOK'
    OBVIOUS
  <1>1. CASE UNCHANGED vars
    BY <1>1 DEF vars, TypeOK
  <1>2. CASE Tick
    BY <1>2 DEF Tick, TypeOK
  <1>3. ASSUME NEW p \in Proc, Crash(p) PROVE TypeOK'
    <2>1. ProcOK /\ DataOK /\ job[p].id \in Nat
      BY TypeOKParts, JobTypes DEF ProcOK
    <2>2. ProcOK'
      BY <1>3, <2>1, ReturnOK DEF Crash
    <2>3. torn' \subseteq Nat /\ faults' \in Nat
      BY <1>3, <2>1, FaultType DEF Crash, DataOK
    <2> QED BY <1>3, <2>1, <2>2, <2>3, TypeOKParts DEF Crash, DataOK
  <1> QED BY <1>1, <1>2, <1>3, TypeCreate, TypePage, TypeSync DEF Next

\* Every variable keeps its type, whatever the number of processes, worktrees
\* and Tasks.
THEOREM CreateTypeCorrect == Spec => []TypeOK
  BY TypeInit, TypeNext, PTL DEF Spec

-----------------------------------------------------------------------------
(* Distinct identifiers.  The counter never falls and an identifier is the *)
(* counter's next value, so that it differs from all in hand.  That sync   *)
(* is no create has to be carried along: the two share the code that       *)
(* writes BACKLOG.md, and sync's identifiers are not its own.              *)

SyncLabel == {"rows", "page", "ghosts", "stat", "repair", "relist", "purge"}

IdInv == /\ TypeOK
         /\ \A p \in Proc : pc[p] \in SyncLabel => job[p].cmd # "create"
         /\ \A p \in Proc : Holds(p) => job[p].id <= counter
         /\ DistinctIds

\* What a step of p means for identifiers: p takes the counter's next value,
\* or keeps what it has while the counter does not fall.
Issued(p) == counter' = counter + 1 /\ job'[p].id = counter + 1
Kept(p)   == counter <= counter' /\ (Holds(p)' => Holds(p) /\ job'[p].id = job[p].id)
SyncOK(p) == pc'[p] \in SyncLabel => job'[p].cmd # "create"
OthersRest(p) == \A q \in Proc \ {p} : pc'[q] = pc[q] /\ job'[q] = job[q]
IdStep(p) == OthersRest(p) /\ SyncOK(p) /\ (Issued(p) \/ Kept(p))

LEMMA ContinueEffect ==
  ASSUME ProcOK, NEW p \in Proc, NEW l, NEW j, Continue(p, l, j)
  PROVE  /\ pc'[p] = l
         /\ l # "idle" => job'[p] = j
         /\ OthersRest(p)
  BY DEF ProcOK, Continue, OthersRest

LEMMA GotoEffect ==
  ASSUME ProcOK, NEW p \in Proc, NEW l, Goto(p, l)
  PROVE  /\ pc'[p] = l
         /\ l # "idle" => job'[p] = job[p]
         /\ OthersRest(p)
  BY ContinueEffect DEF Goto

LEMMA ReturnEffect ==
  ASSUME ProcOK, NEW p \in Proc, Return(p)
  PROVE  pc'[p] = "idle" /\ OthersRest(p)
  BY GotoEffect DEF Return

\* After an assignment to one local variable of a command the others are as
\* before.
Moves(p, l) == pc'[p] = l /\ OthersRest(p) /\ job'[p].cmd = job[p].cmd

LEMMA Assign ==
  ASSUME ProcOK, NEW p \in Proc, NEW l, l # "idle", NEW s
  PROVE  /\ Continue(p, l, [job[p] EXCEPT !.id = s])
              => Moves(p, l) /\ job'[p].id = s
         /\ Continue(p, l, [job[p] EXCEPT !.page = s])
              => Moves(p, l) /\ job'[p].id = job[p].id
         /\ Continue(p, l, [job[p] EXCEPT !.missing = s]) => Moves(p, l)
         /\ Continue(p, l, [job[p] EXCEPT !.unlisted = s]) => Moves(p, l)
         /\ Continue(p, l, [job[p] EXCEPT !.orphans = s]) => Moves(p, l)
  <1>0. job[p] \in Job
    BY DEF ProcOK
  <1> DEFINE a == [job[p] EXCEPT !.id = s]
             b == [job[p] EXCEPT !.page = s]
             c == [job[p] EXCEPT !.missing = s]
             d == [job[p] EXCEPT !.unlisted = s]
             e == [job[p] EXCEPT !.orphans = s]
  <1>1. /\ a.cmd = job[p].cmd /\ a.id = s
        /\ b.cmd = job[p].cmd /\ b.id = job[p].id
        /\ c.cmd = job[p].cmd /\ d.cmd = job[p].cmd /\ e.cmd = job[p].cmd
    BY <1>0 DEF Job
  <1> HIDE DEF a, b, c, d, e
  <1>2. Continue(p, l, a) => Moves(p, l) /\ job'[p].id = s
    BY <1>1, ContinueEffect DEF Moves
  <1>3. Continue(p, l, b) => Moves(p, l) /\ job'[p].id = job[p].id
    BY <1>1, ContinueEffect DEF Moves
  <1>4. Continue(p, l, c) => Moves(p, l)
    BY <1>1, ContinueEffect DEF Moves
  <1>5. Continue(p, l, d) => Moves(p, l)
    BY <1>1, ContinueEffect DEF Moves
  <1>6. Continue(p, l, e) => Moves(p, l)
    BY <1>1, ContinueEffect DEF Moves
  <1> QED BY <1>2, <1>3, <1>4, <1>5, <1>6 DEF a, b, c, d, e

LEMMA AssignTwo ==
  ASSUME ProcOK, NEW p \in Proc, NEW l, l # "idle", NEW n, NEW s,
         Continue(p, l, [job[p] EXCEPT !.id = n, !.unlisted = s])
  PROVE  Moves(p, l)
  <1> DEFINE a == [job[p] EXCEPT !.id = n, !.unlisted = s]
  <1>1. a.cmd = job[p].cmd
    BY DEF ProcOK, Job
  <1> HIDE DEF a
  <1>2. Continue(p, l, a) => Moves(p, l)
    BY <1>1, ContinueEffect DEF Moves
  <1> QED BY <1>2 DEF a

LEMMA CreateIds ==
  ASSUME IdInv, NEW p \in Proc, Create(p)
  PROVE  IdStep(p)
  <1>0. /\ ProcOK /\ job[p] \in Job /\ counter \in Nat
        /\ job[p].max \in Nat
    BY JobTypes, TypeOKParts DEF IdInv, ProcOK, DataOK
  <1> USE DEF IdStep
  <1>1. ASSUME NEW title \in Title, CheckTitle(p, title)
        PROVE  IdStep(p)
    BY <1>0, <1>1, ContinueEffect
       DEF CheckTitle, Kept, Holds, Making, SyncOK, SyncLabel
  <1>2. CASE Scan(p)
    BY <1>0, <1>2, ContinueEffect DEF Scan, Kept, Holds, Making, SyncOK, SyncLabel
  <1>3. CASE Bump(p)
    <2>1. counter <= counter'
      BY <1>0, <1>3, Grows DEF Bump
    <2> QED BY <1>0, <1>3, <2>1, GotoEffect
            DEF Bump, Kept, Holds, Making, SyncOK, SyncLabel
  <1>4. CASE ReadMax(p)
    BY <1>0, <1>4, ContinueEffect DEF ReadMax, Kept, Holds, Making, SyncOK, SyncLabel
  <1>5. CASE SyncCounter(p)
    <2>1. counter <= counter'
      BY <1>0, <1>5, Grows DEF SyncCounter
    <2>2. pc'[p] \in {"next", "idle"} /\ OthersRest(p)
      BY <1>0, <1>5, GotoEffect, ReturnEffect DEF SyncCounter
    <2> QED BY <2>1, <2>2 DEF Kept, Holds, Making, SyncOK, SyncLabel
  <1>6. CASE NextCounter(p)
    <2>1. CASE Return(p) /\ UNCHANGED counter
      BY <1>0, <2>1, ReturnEffect DEF Kept, Holds, Making, SyncOK, SyncLabel
    <2>2. CASE counter' = counter + 1
               /\ Continue(p, "file", [job[p] EXCEPT !.id = counter + 1])
      <3>1. Moves(p, "file") /\ job'[p].id = counter + 1
        BY <1>0, <2>2, Assign
      <3> QED BY <2>2, <3>1 DEF Issued, SyncOK, SyncLabel, Moves
    <2> QED BY <1>6, <2>1, <2>2 DEF NextCounter
  <1>7. CASE WriteFile(p)
    <2>1. /\ OthersRest(p) /\ pc'[p] \in {"list", "idle"}
          /\ pc'[p] = "list" => job'[p] = job[p]
      BY <1>0, <1>7, GotoEffect, ReturnEffect DEF WriteFile
    <2>2. pc[p] = "file" /\ counter' = counter
      BY <1>7 DEF WriteFile
    <2> QED BY <1>0, <2>1, <2>2 DEF Kept, Holds, Making, SyncOK, SyncLabel
  <1>8. CASE InsertRow(p)
    <2>1. /\ OthersRest(p) /\ pc'[p] \in {"undo", "idle"}
          /\ pc'[p] = "undo" => job'[p] = job[p]
      BY <1>0, <1>8, GotoEffect, ReturnEffect DEF InsertRow
    <2>2. pc[p] = "insert" /\ counter' = counter
      BY <1>8 DEF InsertRow
    <2> QED BY <1>0, <2>1, <2>2 DEF Kept, Holds, Making, SyncOK, SyncLabel
  <1>9. CASE UndoFile(p)
    BY <1>0, <1>9, ReturnEffect DEF UndoFile, Kept, Holds, Making, SyncOK, SyncLabel
  <1> QED
    BY <1>1, <1>2, <1>3, <1>4, <1>5, <1>6, <1>7, <1>8, <1>9 DEF Create

LEMMA PageIds ==
  ASSUME IdInv, NEW p \in Proc, Page(p)
  PROVE  IdStep(p)
  <1>0. /\ ProcOK /\ job[p] \in Job /\ counter \in Nat
    BY TypeOKParts DEF IdInv, ProcOK, DataOK
  <1>1. pc[p] \in Making /\ counter' = counter
    BY DEF Page, ReadBacklog, WriteBacklog, ReadSummary, WriteSummary, Making
  <1>2. \/ \E s : Continue(p, "listed", [job[p] EXCEPT !.page = s])
        \/ \E s : Continue(p, "summed", [job[p] EXCEPT !.page = s])
        \/ Goto(p, AfterListing(job[p]))
        \/ Goto(p, AfterSummary(job[p]))
    BY DEF Page, ReadBacklog, WriteBacklog, ReadSummary, WriteSummary
  <1>3. CASE \/ \E s : Continue(p, "listed", [job[p] EXCEPT !.page = s])
             \/ \E s : Continue(p, "summed", [job[p] EXCEPT !.page = s])
    <2>1. /\ OthersRest(p) /\ pc'[p] \in {"listed", "summed"}
          /\ job'[p].cmd = job[p].cmd /\ job'[p].id = job[p].id
      BY <1>0, <1>3, Assign DEF Moves
    <2> QED BY <1>0, <1>1, <2>1 DEF IdStep, Kept, Holds, SyncOK, SyncLabel
  <1>4. CASE Goto(p, AfterListing(job[p]))
    BY <1>0, <1>1, <1>4, GotoEffect
       DEF IdStep, Kept, Holds, SyncOK, SyncLabel, AfterListing
  <1>5. CASE Goto(p, AfterSummary(job[p]))
    BY <1>0, <1>1, <1>5, GotoEffect
       DEF IdStep, Kept, Holds, Making, SyncOK, SyncLabel, AfterSummary
  <1> QED BY <1>2, <1>3, <1>4, <1>5

LEMMA SyncIds ==
  ASSUME IdInv, NEW p \in Proc, Sync(p)
  PROVE  /\ IdStep(p)
         /\ job'[p].cmd # "create" \/ pc'[p] = "idle"
  <1>0. /\ ProcOK /\ job[p] \in Job /\ counter \in Nat
        /\ job[p].missing \subseteq Files
    BY JobTypes, TypeOKParts DEF IdInv, ProcOK, DataOK
  <1>a. \/ counter' = counter
        \/ \E f \in job[p].missing : counter' = AtLeast(counter, f.id)
    BY DEF Sync, ListFiles, FindMissing, FindUnlisted, ReadRows, FindOrphans,
           RepairRow, Relist, Purge
  <1>b. \A f \in job[p].missing : f.id \in Nat
    BY <1>0 DEF Files
  <1>1. counter <= counter'
    BY <1>0, <1>a, <1>b, Grows
  <1>2. CASE ListFiles(p)
    <2> DEFINE j == [NoJob EXCEPT !.cmd = "sync", !.seen = files[Tree[p]]]
    <2>1. j.cmd = "sync"
      BY DEF NoJob
    <2>2. Continue(p, "rows", j)
      BY <1>2 DEF ListFiles
    <2> HIDE DEF j
    <2> QED BY <1>0, <1>1, <2>1, <2>2, ContinueEffect
            DEF IdStep, Kept, Holds, Making, SyncOK
  <1>3. CASE FindMissing(p)
    <2>1. job[p].cmd # "create"
      BY <1>3 DEF IdInv, FindMissing, SyncLabel
    <2> QED BY <1>0, <1>1, <1>3, <2>1, Assign
            DEF FindMissing, Moves, IdStep, Kept, Holds, SyncOK
  <1>4. CASE FindUnlisted(p)
    <2>1. job[p].cmd # "create"
      BY <1>4 DEF IdInv, FindUnlisted, SyncLabel
    <2> QED BY <1>0, <1>1, <1>4, <2>1, Assign
            DEF FindUnlisted, Moves, IdStep, Kept, Holds, SyncOK
  <1>5. CASE ReadRows(p)
    <2>1. job[p].cmd # "create"
      BY <1>5 DEF IdInv, ReadRows, SyncLabel
    <2> QED BY <1>0, <1>1, <1>5, <2>1, Assign
            DEF ReadRows, Moves, IdStep, Kept, Holds, SyncOK
  <1>6. CASE FindOrphans(p)
    <2>1. job[p].cmd # "create"
      BY <1>6 DEF IdInv, FindOrphans, SyncLabel
    <2> QED BY <1>0, <1>1, <1>6, <2>1, Assign
            DEF FindOrphans, Moves, IdStep, Kept, Holds, SyncOK
  <1>7. CASE RepairRow(p)
    <2>1. job[p].cmd # "create"
      BY <1>7 DEF IdInv, RepairRow, SyncLabel
    <2>2. \/ \E s : Continue(p, "repair", [job[p] EXCEPT !.missing = s])
          \/ Goto(p, "relist")
      BY <1>7 DEF RepairRow
    <2> QED BY <1>0, <1>1, <2>1, <2>2, GotoEffect, Assign, AssignTwo
            DEF Moves, IdStep, Kept, Holds, SyncOK
  <1>8. CASE Relist(p)
    <2>1. job[p].cmd # "create"
      BY <1>8 DEF IdInv, Relist, SyncLabel
    <2>2. \/ \E n, s : Continue(p, "list", [job[p] EXCEPT !.id = n, !.unlisted = s])
          \/ Goto(p, "purge")
      BY <1>8 DEF Relist
    <2> QED BY <1>0, <1>1, <2>1, <2>2, GotoEffect, Assign, AssignTwo
            DEF Moves, IdStep, Kept, Holds, SyncOK
  <1>9. CASE Purge(p)
    <2>1. job[p].cmd # "create"
      BY <1>9 DEF IdInv, Purge, SyncLabel
    <2>2. \/ \E s : Continue(p, "purge", [job[p] EXCEPT !.orphans = s])
          \/ Goto(p, "summary")
      BY <1>9 DEF Purge
    <2> QED BY <1>0, <1>1, <2>1, <2>2, GotoEffect, Assign, AssignTwo
            DEF Moves, IdStep, Kept, Holds, SyncOK
  <1> QED
    BY <1>2, <1>3, <1>4, <1>5, <1>6, <1>7, <1>8, <1>9 DEF Sync

LEMMA CrashIds ==
  ASSUME IdInv, NEW p \in Proc, Crash(p)
  PROVE  IdStep(p)
  <1>1. ProcOK /\ counter \in Nat
    BY TypeOKParts DEF IdInv, DataOK
  <1> QED BY <1>1, ReturnEffect
          DEF Crash, IdStep, Kept, Holds, Making, SyncOK, SyncLabel

LEMMA IdInvInit == Init => IdInv
  BY TypeInit DEF Init, IdInv, DistinctIds, Holds, Making, SyncLabel

\* An identifier that p takes exceeds all others; one that it keeps differed.
LEMMA IdInvStep ==
  ASSUME IdInv, TypeOK', NEW p \in Proc, IdStep(p)
  PROVE  IdInv'
  <1>0. counter \in Nat /\ counter' \in Nat
    BY TypeOKParts DEF IdInv, DataOK
  <1>t. \A q \in Proc : job[q].id \in Nat
    BY JobTypes, TypeOKParts DEF IdInv, ProcOK
  <1>1. counter <= counter'
    BY <1>0 DEF IdStep, Issued, Kept
  <1>2. \A q \in Proc : q # p => (Holds(q)' <=> Holds(q)) /\ job'[q].id = job[q].id
    BY DEF IdStep, OthersRest, Holds
  <1>3. \A q \in Proc : Holds(q)' => job'[q].id <= counter'
    BY <1>0, <1>t, <1>1, <1>2 DEF IdInv, IdStep, Issued, Kept
  <1>4. \A q \in Proc : q # p /\ Holds(p)' /\ Holds(q)' => job'[p].id # job'[q].id
    BY <1>0, <1>t, <1>2 DEF IdInv, DistinctIds, IdStep, Issued, Kept
  <1>5. DistinctIds'
    BY <1>2, <1>4 DEF IdInv, DistinctIds
  <1>6. \A q \in Proc : pc'[q] \in SyncLabel => job'[q].cmd # "create"
    BY DEF IdInv, IdStep, OthersRest, SyncOK
  <1> QED BY <1>3, <1>5, <1>6 DEF IdInv

LEMMA IdInvNext == IdInv /\ [Next]_vars => IdInv'
  <1> SUFFICES ASSUME IdInv, [Next]_vars PROVE IdInv'
    OBVIOUS
  <1>1. TypeOK'
    BY TypeNext DEF IdInv
  <1>2. CASE UNCHANGED <<counter, pc, job>>
    BY <1>1, <1>2 DEF IdInv, DistinctIds, Holds
  <1>3. ASSUME NEW p \in Proc, Create(p) \/ Page(p) \/ Sync(p) \/ Crash(p)
        PROVE  IdInv'
    BY <1>1, <1>3, CreateIds, PageIds, SyncIds, CrashIds, IdInvStep
  <1> QED BY <1>2, <1>3 DEF Next, Tick, vars

\* "Concurrent calls never collide", whatever the counter was before, with
\* sync beside them and processes dying at any moment.
THEOREM IdsDistinct == Spec => []DistinctIds
  <1>1. IdInv => DistinctIds
    BY DEF IdInv
  <1> QED BY <1>1, IdInvInit, IdInvNext, PTL DEF Spec

-----------------------------------------------------------------------------
(* Unused identifiers.  Where only creates run, rows come by identifiers   *)
(* that the counter has reached, so that the table can outgrow neither the *)
(* maximum that a create read nor the counter it raised to it.             *)

UnusedInv ==
    /\ IdInv
    /\ \A p \in Proc : pc[p] # "idle" => job[p].cmd = "create" /\ pc[p] \notin SyncLabel
    /\ \A p \in Proc : pc[p] = "sync" =>
         \A n \in Ids(tasks) : n <= counter \/ n <= job[p].max
    /\ \A p \in Proc : pc[p] = "next" => \A n \in Ids(tasks) : n <= counter
    /\ UnusedIds

\* The same facts of a step of p.
Creates(p) == pc'[p] # "idle" => job'[p].cmd = "create" /\ pc'[p] \notin SyncLabel
Raises(p)  == /\ pc'[p] = "sync" => \A n \in Ids(tasks) : n <= job'[p].max
              /\ pc'[p] = "next" =>
                   pc[p] = "sync" /\ counter' = AtLeast(counter, job[p].max)
Takes(p)   == Holds(p)' => \/ Holds(p) /\ job'[p].id = job[p].id
                           \/ pc[p] = "next" /\ job'[p].id = counter + 1
Inserts(p) == \/ Ids(tasks') = Ids(tasks)
              \/ /\ Ids(tasks') = Ids(tasks) \cup {job[p].id}
                 /\ Holds(p) /\ pc'[p] = "idle"
RowStep(p) == Creates(p) /\ Raises(p) /\ Takes(p) /\ Inserts(p)

LEMMA Dies ==
  ASSUME NEW p \in Proc, pc'[p] = "idle", Inserts(p)
  PROVE  RowStep(p)
  BY DEF RowStep, Creates, Raises, Takes, Holds, Making

LEMMA GoesOn ==
  ASSUME NEW p \in Proc, job[p].cmd = "create", UNCHANGED tasks,
         pc'[p] \in {"bump", "max", "list", "listed", "summary", "summed",
                     "insert", "undo"},
         job'[p].cmd = job[p].cmd,
         pc'[p] \in Making => pc[p] \in Making /\ job'[p].id = job[p].id
  PROVE  RowStep(p)
  <1>1. pc'[p] \notin {"sync", "next", "idle"} /\ pc'[p] \notin SyncLabel
    BY DEF SyncLabel
  <1>2. Inserts(p)
    BY DEF Inserts
  <1> QED BY <1>1, <1>2 DEF RowStep, Creates, Raises, Takes, Holds

LEMMA CreateRows ==
  ASSUME UnusedInv, NEW p \in Proc, Create(p)
  PROVE  RowStep(p)
  <1>0. ProcOK /\ job[p] \in Job
    BY TypeOKParts DEF UnusedInv, IdInv, ProcOK
  <1>c. pc[p] # "idle" => job[p].cmd = "create"
    BY DEF UnusedInv
  <1>1. ASSUME NEW title \in Title, CheckTitle(p, title)
        PROVE  RowStep(p)
    <2> DEFINE j == [NoJob EXCEPT !.cmd = "create", !.title = title]
    <2>1. j.cmd = "create"
      BY DEF NoJob
    <2>2. Continue(p, "scan", j) /\ UNCHANGED tasks
      BY <1>1 DEF CheckTitle
    <2> HIDE DEF j
    <2>3. pc'[p] = "scan" /\ job'[p].cmd = "create"
      BY <1>0, <2>1, <2>2, ContinueEffect
    <2> QED BY <2>2, <2>3
            DEF RowStep, Creates, Raises, Takes, Inserts, Holds, Making, SyncLabel
  <1>2. CASE Scan(p)
    <2>1. PICK n : Continue(p, "bump", [job[p] EXCEPT !.max = n])
      BY <1>2 DEF Scan
    <2> DEFINE j == [job[p] EXCEPT !.max = n]
    <2>2. j.cmd = job[p].cmd
      BY <1>0 DEF Job
    <2> HIDE DEF j
    <2>3. pc'[p] = "bump" /\ job'[p].cmd = job[p].cmd
      BY <1>0, <2>1, <2>2, ContinueEffect DEF j
    <2> QED BY <1>2, <1>c, <2>3, GoesOn DEF Scan, Making
  <1>3. CASE Bump(p)
    <2>1. pc'[p] = "max" /\ job'[p] = job[p]
      BY <1>0, <1>3, GotoEffect DEF Bump
    <2> QED BY <1>3, <1>c, <2>1, GoesOn DEF Bump, Making
  <1>4. CASE ReadMax(p)
    <2>1. PICK n : Largest(n, Ids(tasks)) /\ Continue(p, "sync", [job[p] EXCEPT !.max = n])
      BY <1>4 DEF ReadMax
    <2> DEFINE j == [job[p] EXCEPT !.max = n]
    <2>2. j.cmd = job[p].cmd /\ j.max = n
      BY <1>0 DEF Job
    <2>3. Continue(p, "sync", j)
      BY <2>1
    <2> HIDE DEF j
    <2>4. pc'[p] = "sync" /\ job'[p].cmd = "create" /\ job'[p].max = n
      BY <1>0, <1>4, <1>c, <2>2, <2>3, ContinueEffect DEF ReadMax
    <2>5. \A m \in Ids(tasks) : m <= job'[p].max
      BY <2>1, <2>4 DEF Largest
    <2>6. Inserts(p)
      BY <1>4 DEF ReadMax, Inserts
    <2> QED BY <2>4, <2>5, <2>6
            DEF RowStep, Creates, Raises, Takes, Holds, Making, SyncLabel
  <1>5. CASE SyncCounter(p)
    <2>1. Inserts(p)
      BY <1>5 DEF SyncCounter, Inserts
    <2>2. CASE Return(p)
      BY <1>0, <2>1, <2>2, ReturnEffect, Dies
    <2>3. CASE counter' = AtLeast(counter, job[p].max) /\ Goto(p, "next")
      <3>1. pc'[p] = "next" /\ job'[p] = job[p] /\ pc[p] = "sync"
        BY <1>0, <1>5, <2>3, GotoEffect DEF SyncCounter
      <3> QED BY <1>c, <2>1, <2>3, <3>1
              DEF RowStep, Creates, Raises, Takes, Holds, Making, SyncLabel
    <2> QED BY <1>5, <2>2, <2>3 DEF SyncCounter
  <1>6. CASE NextCounter(p)
    <2>1. Inserts(p)
      BY <1>6 DEF NextCounter, Inserts
    <2>2. CASE Return(p)
      BY <1>0, <2>1, <2>2, ReturnEffect, Dies
    <2>3. CASE Continue(p, "file", [job[p] EXCEPT !.id = counter + 1])
      <3>1. Moves(p, "file") /\ job'[p].id = counter + 1 /\ pc[p] = "next"
        BY <1>0, <1>6, <2>3, Assign DEF NextCounter
      <3> QED BY <1>c, <2>1, <3>1
              DEF RowStep, Creates, Raises, Takes, SyncLabel, Moves
    <2> QED BY <1>6, <2>2, <2>3 DEF NextCounter
  <1>7. CASE WriteFile(p)
    <2>1. CASE Return(p)
      BY <1>0, <1>7, <2>1, ReturnEffect, Dies DEF WriteFile, Inserts
    <2>2. CASE Goto(p, "list")
      <3>1. pc'[p] = "list" /\ job'[p] = job[p] /\ pc[p] = "file"
        BY <1>0, <1>7, <2>2, GotoEffect DEF WriteFile
      <3> QED BY <1>7, <1>c, <3>1, GoesOn DEF WriteFile, Making
    <2> QED BY <1>7, <2>1, <2>2 DEF WriteFile
  <1>8. CASE InsertRow(p)
    <2>0. pc[p] = "insert" /\ Holds(p)
      BY <1>8, <1>c DEF InsertRow, Holds, Making
    <2>1. CASE Goto(p, "undo") /\ UNCHANGED tasks
      <3>1. pc'[p] = "undo" /\ job'[p] = job[p]
        BY <1>0, <2>1, GotoEffect
      <3> QED BY <1>c, <2>0, <2>1, <3>1, GoesOn DEF Making
    <2>2. CASE Return(p) /\ tasks' = tasks \cup
                 {[id |-> job[p].id, title |-> job[p].title,
                   created |-> Today, at |-> now]}
      <3> DEFINE r == [id |-> job[p].id, title |-> job[p].title,
                       created |-> Today, at |-> now]
      <3>a. r.id = job[p].id
        OBVIOUS
      <3>b. tasks' = tasks \cup {r}
        BY <2>2
      <3> HIDE DEF r
      <3>1. Ids(tasks') = Ids(tasks) \cup {job[p].id}
        BY <3>a, <3>b DEF Ids
      <3>2. pc'[p] = "idle"
        BY <1>0, <2>2, ReturnEffect
      <3> QED BY <2>0, <3>1, <3>2, Dies DEF Inserts
    <2> QED BY <1>8, <2>1, <2>2 DEF InsertRow
  <1>9. CASE UndoFile(p)
    BY <1>0, <1>9, ReturnEffect, Dies DEF UndoFile, Inserts
  <1> QED
    BY <1>1, <1>2, <1>3, <1>4, <1>5, <1>6, <1>7, <1>8, <1>9 DEF Create

LEMMA PageRows ==
  ASSUME UnusedInv, NEW p \in Proc, Page(p)
  PROVE  RowStep(p)
  <1>0. ProcOK /\ job[p] \in Job
    BY TypeOKParts DEF UnusedInv, IdInv, ProcOK
  <1>1. pc[p] \in Making /\ pc[p] # "idle" /\ UNCHANGED tasks
    BY DEF Page, ReadBacklog, WriteBacklog, ReadSummary, WriteSummary, Making
  <1>2. job[p].cmd = "create"
    BY <1>1 DEF UnusedInv
  <1>3. \/ \E s : Continue(p, "listed", [job[p] EXCEPT !.page = s])
        \/ \E s : Continue(p, "summed", [job[p] EXCEPT !.page = s])
        \/ Goto(p, "summary")
        \/ Goto(p, "insert")
    BY <1>2 DEF Page, ReadBacklog, WriteBacklog, ReadSummary, WriteSummary,
                AfterListing, AfterSummary
  <1>4. /\ pc'[p] \in {"listed", "summed", "summary", "insert"}
        /\ job'[p].cmd = job[p].cmd /\ job'[p].id = job[p].id
    <2>1. CASE \E s : Continue(p, "listed", [job[p] EXCEPT !.page = s])
      BY <1>0, <2>1, Assign DEF Moves
    <2>2. CASE \E s : Continue(p, "summed", [job[p] EXCEPT !.page = s])
      BY <1>0, <2>2, Assign DEF Moves
    <2>3. CASE Goto(p, "summary") \/ Goto(p, "insert")
      BY <1>0, <2>3, GotoEffect
    <2> QED BY <1>3, <2>1, <2>2, <2>3
  <1> QED BY <1>1, <1>2, <1>4, GoesOn

LEMMA UnusedInit == Init => UnusedInv
  BY IdInvInit DEF Init, UnusedInv, UnusedIds, Holds, Making

LEMMA UnusedStep ==
  ASSUME UnusedInv, IdInv', NEW p \in Proc, IdStep(p), RowStep(p)
  PROVE  UnusedInv'
  <1>0. /\ counter \in Nat /\ counter' \in Nat
        /\ Ids(tasks) \subseteq Nat
    BY TypeOKParts, IdsType DEF UnusedInv, IdInv, DataOK
  <1>t. \A q \in Proc : job[q].id \in Nat /\ job[q].max \in Nat
    BY JobTypes, TypeOKParts DEF UnusedInv, IdInv, ProcOK
  <1>1. counter <= counter'
    BY <1>0 DEF IdStep, Issued, Kept
  <1>2. \A q \in Proc : q # p => /\ pc'[q] = pc[q] /\ job'[q] = job[q]
                                 /\ Holds(q)' <=> Holds(q)
    BY DEF IdStep, OthersRest, Holds
  <1>3. \A n \in Ids(tasks)' : n \in Nat /\ (n \in Ids(tasks) \/ n <= counter')
    BY <1>0, <1>t, <1>1 DEF RowStep, Inserts, UnusedInv, IdInv, Ids
  <1>4. \A q \in Proc : pc'[q] # "idle" => job'[q].cmd = "create" /\ pc'[q] \notin SyncLabel
    BY <1>2 DEF UnusedInv, RowStep, Creates
  <1>5. \A q \in Proc : pc'[q] = "sync" =>
          \A n \in Ids(tasks)' : n <= counter' \/ n <= job'[q].max
    <2>1. ASSUME NEW q \in Proc, q # p, pc'[q] = "sync", NEW n \in Ids(tasks)'
          PROVE  n <= counter' \/ n <= job'[q].max
      BY <1>0, <1>t, <1>1, <1>2, <1>3, <2>1 DEF UnusedInv
    <2>2. pc'[p] = "sync" => \A n \in Ids(tasks)' : n <= counter' \/ n <= job'[p].max
      BY <1>3 DEF RowStep, Raises
    <2> QED BY <2>1, <2>2
  <1>6. \A q \in Proc : pc'[q] = "next" => \A n \in Ids(tasks)' : n <= counter'
    <2>1. ASSUME NEW q \in Proc, q # p, pc'[q] = "next", NEW n \in Ids(tasks)'
          PROVE  n <= counter'
      BY <1>0, <1>1, <1>2, <1>3, <2>1 DEF UnusedInv
    <2>2. ASSUME pc'[p] = "next", NEW n \in Ids(tasks)'
          PROVE  n <= counter'
      <3>1. pc[p] = "sync" /\ counter' = AtLeast(counter, job[p].max)
        BY <2>2 DEF RowStep, Raises
      <3>2. job[p].max <= counter'
        BY <1>0, <1>t, <3>1, AtLeastType
      <3>3. n \in Ids(tasks) => n <= counter \/ n <= job[p].max
        BY <3>1 DEF UnusedInv
      <3> QED BY <1>0, <1>t, <1>1, <1>3, <3>2, <3>3
    <2> QED BY <2>1, <2>2
  <1>7. UnusedIds'
    <2>1. ASSUME NEW q \in Proc, Holds(q)', q # p
          PROVE  job'[q].id \notin Ids(tasks)'
      <3>1. Holds(q) /\ job'[q].id = job[q].id /\ job[q].id \notin Ids(tasks)
        BY <1>2, <2>1 DEF UnusedInv, UnusedIds
      <3>2. Holds(p) => job[p].id # job[q].id
        BY <2>1, <3>1 DEF UnusedInv, IdInv, DistinctIds
      <3> QED BY <3>1, <3>2 DEF RowStep, Inserts, Ids
    <2>2. ASSUME Holds(p)'
          PROVE  job'[p].id \notin Ids(tasks)'
      <3>1. Ids(tasks)' = Ids(tasks)
        BY <2>2 DEF RowStep, Inserts, Holds, Making, Ids
      <3>2. CASE Holds(p) /\ job'[p].id = job[p].id
        BY <3>1, <3>2 DEF UnusedInv, UnusedIds
      <3>3. CASE pc[p] = "next" /\ job'[p].id = counter + 1
        BY <1>0, <3>1, <3>3 DEF UnusedInv
      <3> QED BY <2>2, <3>2, <3>3 DEF RowStep, Takes
    <2> QED BY <2>1, <2>2 DEF UnusedIds
  <1> QED BY <1>4, <1>5, <1>6, <1>7 DEF UnusedInv

LEMMA UnusedNext ==
  ASSUME "sync" \notin Command
  PROVE  UnusedInv /\ [Next]_vars => UnusedInv'
  <1> SUFFICES ASSUME UnusedInv, [Next]_vars PROVE UnusedInv'
    OBVIOUS
  <1>0. IdInv /\ IdInv' /\ ProcOK
    BY IdInvNext, TypeOKParts DEF UnusedInv, IdInv
  <1>1. CASE UNCHANGED <<counter, tasks, pc, job>>
    BY <1>0, <1>1 DEF UnusedInv, UnusedIds, Holds, Ids
  <1>2. ASSUME NEW p \in Proc, Create(p) PROVE UnusedInv'
    BY <1>0, <1>2, CreateIds, CreateRows, UnusedStep
  <1>3. ASSUME NEW p \in Proc, Page(p) PROVE UnusedInv'
    BY <1>0, <1>3, PageIds, PageRows, UnusedStep
  <1>4. ASSUME NEW p \in Proc, Sync(p) PROVE FALSE
    <2>1. pc[p] \notin SyncLabel
      BY DEF UnusedInv, SyncLabel
    <2> QED BY <1>4, <2>1 DEF Sync, ListFiles, FindMissing, FindUnlisted, ReadRows,
                              FindOrphans, RepairRow, Relist, Purge, SyncLabel
  <1>5. ASSUME NEW p \in Proc, Crash(p) PROVE UnusedInv'
    <2>1. pc'[p] = "idle" /\ Inserts(p)
      BY <1>0, <1>5, ReturnEffect DEF Crash, Inserts
    <2> QED BY <1>0, <1>5, <2>1, CrashIds, Dies, UnusedStep
  <1> QED BY <1>1, <1>2, <1>3, <1>4, <1>5 DEF Next, Tick, vars

\* Where no sync inserts rows, CreateTask's INSERT is never refused for the
\* identifier, and a rollback never takes another Task's file.
THEOREM IdsUnused ==
  ASSUME "sync" \notin Command
  PROVE  Spec => []UnusedIds
  <1>1. UnusedInv => UnusedIds
    BY DEF UnusedInv
  <1> QED BY <1>1, UnusedInit, UnusedNext, PTL DEF Spec
-----------------------------------------------------------------------------
(* Files and rows.  What a step of a process does to what it holds, to the *)
(* files and to the table, once for all properties below.                  *)

CreateLabel == {"scan", "bump", "max", "sync", "next", "file", "insert", "undo"}

\* The files that a sync has seen; a create at its file; a sync whose orphans
\* are final.
Listed(p)    == job[p].seen \cup job[p].missing
Writing(p)   == pc[p] = "file"
Comparing(p) == /\ job[p].cmd # "create"
                /\ pc[p] \in {"repair", "relist", "list", "listed", "purge"}

WhoInv == /\ IdInv
          /\ \A p \in Proc : pc[p] \in CreateLabel => job[p].cmd = "create"
          /\ \A p \in Proc : job[p].cmd = "create" => job[p].title \in Title

LooksOn(p)  == Listed(p)' \subseteq Listed(p) \cup files[Tree[p]]
Suspects(p) ==
    /\ job'[p].orphans \subseteq job[p].orphans \cup Ids(tasks)
    /\ Comparing(p)' =>
         \/ Comparing(p) /\ job'[p].orphans \subseteq job[p].orphans
         \/ job'[p].orphans \cap Ids(Everywhere) = {} /\ UNCHANGED files
Starts(p) ==
    Writing(p)' => /\ pc[p] = "next" /\ job'[p].id = counter + 1 /\ counter' = counter + 1
                   /\ UNCHANGED <<tasks, files, faults>>
Holding(p) ==
    Holds(p)' /\ ~ Writing(p)' =>
      Holds(p) /\ job'[p].id = job[p].id /\ job'[p].title = job[p].title
Who(p) == /\ pc'[p] \in CreateLabel => job'[p].cmd = "create"
          /\ job'[p].cmd = "create" => job'[p].title \in Title

JobStep(p) == LooksOn(p) /\ Suspects(p) /\ Starts(p) /\ Holding(p) /\ Who(p)

\* A process is where it was, but for a field or two of its job.
At(p, l) == pc'[p] = l /\ OthersRest(p)
SameBut(p, fields) ==
    \A x \in {"cmd", "title", "id", "seen", "missing", "orphans"} \ fields :
      job'[p][x] = job[p][x]

LEMMA OneField ==
  ASSUME ProcOK, NEW p \in Proc, NEW l, l # "idle", NEW s
  PROVE  /\ Continue(p, l, [job[p] EXCEPT !.max = s]) => At(p, l) /\ SameBut(p, {})
         /\ Continue(p, l, [job[p] EXCEPT !.page = s]) => At(p, l) /\ SameBut(p, {})
         /\ Continue(p, l, [job[p] EXCEPT !.unlisted = s]) => At(p, l) /\ SameBut(p, {})
         /\ Continue(p, l, [job[p] EXCEPT !.id = s])
              => At(p, l) /\ SameBut(p, {"id"}) /\ job'[p].id = s
         /\ Continue(p, l, [job[p] EXCEPT !.missing = s])
              => At(p, l) /\ SameBut(p, {"missing"}) /\ job'[p].missing = s
         /\ Continue(p, l, [job[p] EXCEPT !.orphans = s])
              => At(p, l) /\ SameBut(p, {"orphans"}) /\ job'[p].orphans = s
  <1>0. job[p] \in Job
    BY DEF ProcOK
  <1> DEFINE a == [job[p] EXCEPT !.max = s]
             b == [job[p] EXCEPT !.page = s]
             c == [job[p] EXCEPT !.unlisted = s]
             d == [job[p] EXCEPT !.id = s]
             e == [job[p] EXCEPT !.missing = s]
             g == [job[p] EXCEPT !.orphans = s]
             Keeps(j, fields) == \A x \in {"cmd", "title", "id", "seen", "missing", "orphans"}
                                           \ fields : j[x] = job[p][x]
  <1>1. Keeps(a, {}) /\ Keeps(b, {}) /\ Keeps(c, {})
    BY <1>0 DEF Job
  <1>2. Keeps(d, {"id"}) /\ d.id = s
    BY <1>0 DEF Job
  <1>3. Keeps(e, {"missing"}) /\ e.missing = s
    BY <1>0 DEF Job
  <1>4. Keeps(g, {"orphans"}) /\ g.orphans = s
    BY <1>0 DEF Job
  <1> HIDE DEF a, b, c, d, e, g
  <1>5. \A j : Continue(p, l, j) => At(p, l) /\ job'[p] = j
    BY ContinueEffect DEF At
  <1>6. \A j, fields : Continue(p, l, j) /\ Keeps(j, fields) => At(p, l) /\ SameBut(p, fields)
    BY <1>5 DEF SameBut
  <1> HIDE DEF Keeps
  <1>7. /\ Continue(p, l, a) => At(p, l) /\ SameBut(p, {})
        /\ Continue(p, l, b) => At(p, l) /\ SameBut(p, {})
        /\ Continue(p, l, c) => At(p, l) /\ SameBut(p, {})
        /\ Continue(p, l, d) => At(p, l) /\ SameBut(p, {"id"}) /\ job'[p].id = s
    BY <1>1, <1>2, <1>5, <1>6
  <1>8. /\ Continue(p, l, e) => At(p, l) /\ SameBut(p, {"missing"}) /\ job'[p].missing = s
        /\ Continue(p, l, g) => At(p, l) /\ SameBut(p, {"orphans"}) /\ job'[p].orphans = s
    BY <1>3, <1>4, <1>5, <1>6
  <1> QED BY <1>7, <1>8 DEF a, b, c, d, e, g

LEMMA TwoFields ==
  ASSUME ProcOK, NEW p \in Proc, NEW l, l # "idle", NEW n, NEW s,
         Continue(p, l, [job[p] EXCEPT !.id = n, !.unlisted = s])
  PROVE  At(p, l) /\ SameBut(p, {"id"})
  <1> DEFINE a == [job[p] EXCEPT !.id = n, !.unlisted = s]
  <1>1. \A x \in {"cmd", "title", "seen", "missing", "orphans"} : a[x] = job[p][x]
    BY DEF ProcOK, Job
  <1>2. Continue(p, l, a)
    OBVIOUS
  <1> HIDE DEF a
  <1>3. At(p, l) /\ job'[p] = a
    BY <1>2, ContinueEffect DEF At
  <1> QED BY <1>1, <1>3 DEF SameBut

LEMMA Goes ==
  ASSUME ProcOK, NEW p \in Proc, NEW l, l # "idle", Goto(p, l)
  PROVE  At(p, l) /\ SameBut(p, {})
  BY GotoEffect DEF At, SameBut

\* A process at rest has no job.
LEMMA Rests ==
  ASSUME ProcOK, NEW p \in Proc, NEW j, Continue(p, "idle", j)
  PROVE  /\ At(p, "idle")
         /\ JobStep(p)
  <1>1. At(p, "idle") /\ job'[p] = NoJob
    BY ContinueEffect DEF ProcOK, Continue, At
  <1>2. /\ job'[p].seen = {} /\ job'[p].missing = {} /\ job'[p].orphans = {}
        /\ job'[p].cmd = "none"
    BY <1>1 DEF NoJob
  <1> QED BY <1>1, <1>2 DEF At, JobStep, LooksOn, Listed, Suspects, Comparing, Starts, Writing,
               Holding, Holds, Making, Who, CreateLabel

\* A step that leaves the job as it is but goes on in the program.
LEMMA GoesOnJob ==
  ASSUME WhoInv, NEW p \in Proc, NEW l, l \notin {"file", "idle"}, At(p, l), SameBut(p, {}),
         Holds(p)' => pc[p] \in Making,
         l \in CreateLabel => job[p].cmd = "create",
         Comparing(p)' => Comparing(p)
  PROVE  JobStep(p)
  BY DEF At, SameBut, JobStep, LooksOn, Listed, Suspects, Starts, Writing, Holding, Holds,
         Who, WhoInv
LEMMA WhoParts ==
  ASSUME WhoInv, NEW p \in Proc
  PROVE  ProcOK /\ job[p] \in Job /\ counter \in Nat
  BY TypeOKParts DEF WhoInv, IdInv, ProcOK, DataOK

LEMMA CreateJob ==
  ASSUME WhoInv, NEW p \in Proc, Create(p)
  PROVE  JobStep(p)
  <1>0. ProcOK /\ job[p] \in Job
    BY WhoParts
  <1>r. \A j : Continue(p, "idle", j) => JobStep(p)
    BY <1>0, Rests
  <1>g. Return(p) => JobStep(p)
    BY <1>r DEF Return, Goto
  <1>1. ASSUME NEW title \in Title, CheckTitle(p, title)
        PROVE  JobStep(p)
    <2> DEFINE j == [NoJob EXCEPT !.cmd = "create", !.title = title]
    <2>1. j.cmd = "create" /\ j.title = title /\ j.seen = {} /\ j.missing = {} /\ j.orphans = {}
      BY DEF NoJob
    <2>2. Continue(p, "scan", j)
      BY <1>1 DEF CheckTitle
    <2> HIDE DEF j
    <2>3. pc'[p] = "scan" /\ job'[p] = j
      BY <1>0, <2>2, ContinueEffect
    <2> QED BY <2>1, <2>3 DEF JobStep, LooksOn, Listed, Suspects, Comparing, Starts, Writing,
               Holding, Holds, Making, Who, CreateLabel
  <1>2. CASE Scan(p)
    <2>1. At(p, "bump") /\ SameBut(p, {})
      BY <1>0, <1>2, OneField DEF Scan
    <2>2. job[p].cmd = "create"
      BY <1>2 DEF Scan, WhoInv, CreateLabel
    <2> QED BY <2>1, <2>2, GoesOnJob DEF At, SameBut, Holds, Making, Comparing
  <1>3. CASE Bump(p)
    <2>1. At(p, "max") /\ SameBut(p, {})
      BY <1>0, <1>3, Goes DEF Bump
    <2>2. job[p].cmd = "create"
      BY <1>3 DEF Bump, WhoInv, CreateLabel
    <2> QED BY <2>1, <2>2, GoesOnJob DEF At, SameBut, Holds, Making, Comparing
  <1>4. CASE ReadMax(p)
    <2>1. At(p, "sync") /\ SameBut(p, {})
      BY <1>0, <1>4, OneField DEF ReadMax
    <2>2. job[p].cmd = "create"
      BY <1>4 DEF ReadMax, WhoInv, CreateLabel
    <2> QED BY <2>1, <2>2, GoesOnJob DEF At, SameBut, Holds, Making, Comparing
  <1>5. CASE SyncCounter(p)
    <2>1. Return(p) \/ (At(p, "next") /\ SameBut(p, {}))
      BY <1>0, <1>5, Goes DEF SyncCounter
    <2>2. job[p].cmd = "create"
      BY <1>5 DEF SyncCounter, WhoInv, CreateLabel
    <2> QED BY <1>g, <2>1, <2>2, GoesOnJob DEF At, SameBut, Holds, Making, Comparing
  <1>6. CASE NextCounter(p)
    <2>1. CASE Return(p)
      BY <1>g, <2>1
    <2>2. CASE /\ counter' = counter + 1 /\ UNCHANGED faults
               /\ Continue(p, "file", [job[p] EXCEPT !.id = counter + 1])
      <3>1. At(p, "file") /\ SameBut(p, {"id"}) /\ job'[p].id = counter + 1
        BY <1>0, <2>2, OneField
      <3>2. pc[p] = "next" /\ UNCHANGED <<tasks, files>> /\ job[p].cmd = "create"
        BY <1>6 DEF NextCounter, WhoInv, CreateLabel
      <3> QED BY <2>2, <3>1, <3>2 DEF At, SameBut, JobStep, LooksOn, Listed, Suspects, Comparing,
                 Starts, Writing, Holding, Who, WhoInv
    <2> QED BY <1>6, <2>1, <2>2 DEF NextCounter
  <1>7. CASE WriteFile(p)
    <2>1. Return(p) \/ (At(p, "list") /\ SameBut(p, {}))
      BY <1>0, <1>7, Goes DEF WriteFile
    <2>2. job[p].cmd = "create" /\ pc[p] \in Making
      BY <1>7 DEF WriteFile, WhoInv, CreateLabel, Making
    <2> QED BY <1>g, <2>1, <2>2, GoesOnJob DEF At, SameBut, Comparing
  <1>8. CASE InsertRow(p)
    <2>1. Return(p) \/ (At(p, "undo") /\ SameBut(p, {}))
      BY <1>0, <1>8, Goes DEF InsertRow
    <2>2. job[p].cmd = "create" /\ pc[p] \in Making
      BY <1>8 DEF InsertRow, WhoInv, CreateLabel, Making
    <2> QED BY <1>g, <2>1, <2>2, GoesOnJob DEF At, SameBut, Comparing
  <1>9. CASE UndoFile(p)
    BY <1>g, <1>9 DEF UndoFile
  <1> QED
    BY <1>1, <1>2, <1>3, <1>4, <1>5, <1>6, <1>7, <1>8, <1>9 DEF Create

LEMMA PageJob ==
  ASSUME WhoInv, NEW p \in Proc, Page(p)
  PROVE  JobStep(p)
  <1>0. ProcOK /\ job[p] \in Job
    BY WhoParts
  <1>1. CASE ReadBacklog(p)
    <2>1. PICK l \in {"listed", "summary", "relist"} :
            /\ At(p, l) /\ SameBut(p, {})
            /\ l = "relist" <=> l # "listed" /\ job[p].cmd # "create"
      BY <1>0, <1>1, OneField, Goes DEF ReadBacklog, AfterListing
    <2>2. pc[p] = "list"
      BY <1>1 DEF ReadBacklog
    <2> QED BY <2>1, <2>2, GoesOnJob DEF At, SameBut, Making, Comparing, CreateLabel
  <1>2. CASE WriteBacklog(p)
    <2>1. PICK l \in {"summary", "relist"} : At(p, l) /\ SameBut(p, {})
      BY <1>0, <1>2, Goes DEF WriteBacklog, AfterListing
    <2>2. pc[p] = "listed"
      BY <1>2 DEF WriteBacklog
    <2> QED BY <2>1, <2>2, GoesOnJob DEF At, SameBut, Making, Comparing, CreateLabel
  <1>3. ASSUME Goto(p, AfterSummary(job[p])), pc[p] \in {"summary", "summed"}
        PROVE  JobStep(p)
    <2>1. CASE job[p].cmd = "create"
      <3>1. At(p, "insert") /\ SameBut(p, {})
        BY <1>0, <1>3, <2>1, Goes DEF AfterSummary
      <3> QED BY <1>3, <2>1, <3>1, GoesOnJob DEF At, SameBut, Making, Comparing
    <2>2. CASE job[p].cmd # "create"
      BY <1>0, <1>3, <2>2, Rests DEF AfterSummary, Goto
    <2> QED BY <2>1, <2>2
  <1>4. CASE ReadSummary(p)
    <2>1. CASE Continue(p, "summed", [job[p] EXCEPT !.page = backlog[Tree[p]]])
      <3>1. At(p, "summed") /\ SameBut(p, {})
        BY <1>0, <2>1, OneField
      <3>2. pc[p] = "summary"
        BY <1>4 DEF ReadSummary
      <3> QED BY <3>1, <3>2, GoesOnJob DEF At, SameBut, Making, Comparing, CreateLabel
    <2> QED BY <1>3, <1>4, <2>1 DEF ReadSummary
  <1>5. CASE WriteSummary(p)
    BY <1>3, <1>5 DEF WriteSummary
  <1> QED BY <1>1, <1>2, <1>4, <1>5 DEF Page

LEMMA SyncJob ==
  ASSUME WhoInv, NEW p \in Proc, Sync(p)
  PROVE  JobStep(p)
  <1>0. ProcOK /\ job[p] \in Job
    BY WhoParts
  <1>c. pc[p] \in SyncLabel => job[p].cmd # "create"
    BY DEF WhoInv, IdInv
  <1>1. CASE ListFiles(p)
    <2> DEFINE j == [NoJob EXCEPT !.cmd = "sync", !.seen = files[Tree[p]]]
    <2>1. /\ j.cmd = "sync" /\ j.seen = files[Tree[p]]
          /\ j.missing = {} /\ j.orphans = {}
      BY DEF NoJob
    <2>2. Continue(p, "rows", j)
      BY <1>1 DEF ListFiles
    <2> HIDE DEF j
    <2>3. pc'[p] = "rows" /\ job'[p] = j
      BY <1>0, <2>2, ContinueEffect
    <2> QED BY <2>1, <2>3 DEF JobStep, LooksOn, Listed, Suspects, Comparing, Starts, Writing,
               Holding, Holds, Making, Who, CreateLabel
  <1>2. CASE FindMissing(p)
    <2> DEFINE s == {f \in StillThere(p) : f.id \notin Ids(tasks)}
    <2>1. At(p, "page") /\ SameBut(p, {"missing"}) /\ job'[p].missing = s
      BY <1>0, <1>2, OneField DEF FindMissing
    <2>2. s \subseteq job[p].seen
      BY DEF StillThere
    <2> HIDE DEF s
    <2>3. job[p].cmd # "create"
      BY <1>2, <1>c DEF FindMissing, SyncLabel
    <2> QED BY <2>1, <2>2, <2>3 DEF At, SameBut, JobStep, LooksOn, Listed, Suspects, Comparing,
               Starts, Writing, Holding, Holds, Who, CreateLabel
  <1>3. CASE FindUnlisted(p)
    <2>1. At(p, "ghosts") /\ SameBut(p, {})
      BY <1>0, <1>3, OneField DEF FindUnlisted
    <2> QED BY <2>1, GoesOnJob DEF At, Making, Comparing, CreateLabel, Holds
  <1>4. CASE ReadRows(p)
    <2>1. /\ At(p, "stat") /\ SameBut(p, {"orphans"})
          /\ job'[p].orphans = Ids(tasks) \ Ids(job[p].seen)
      BY <1>0, <1>4, OneField DEF ReadRows
    <2>2. job[p].cmd # "create"
      BY <1>4, <1>c DEF ReadRows, SyncLabel
    <2> QED BY <2>1, <2>2 DEF At, SameBut, JobStep, LooksOn, Listed, Suspects, Comparing,
               Starts, Writing, Holding, Holds, Who, CreateLabel
  <1>5. CASE FindOrphans(p)
    <2> DEFINE s == job[p].orphans \ (backlog[Tree[p]] \cup Ids(Everywhere))
    <2>1. At(p, "repair") /\ SameBut(p, {"orphans"}) /\ job'[p].orphans = s
      BY <1>0, <1>5, OneField DEF FindOrphans, FileExistsInAnyWorktree
    <2>2. s \cap Ids(Everywhere) = {} /\ s \subseteq job[p].orphans
      OBVIOUS
    <2> HIDE DEF s
    <2>3. job[p].cmd # "create" /\ UNCHANGED files
      BY <1>5, <1>c DEF FindOrphans, SyncLabel
    <2> QED BY <2>1, <2>2, <2>3 DEF At, SameBut, JobStep, LooksOn, Listed, Suspects,
               Starts, Writing, Holding, Holds, Who, CreateLabel
  <1>6. CASE RepairRow(p)
    <2>1. pc[p] = "repair" /\ job[p].cmd # "create"
      BY <1>6, <1>c DEF RepairRow, SyncLabel
    <2>2. ASSUME NEW f \in job[p].missing,
                 Continue(p, "repair", [job[p] EXCEPT !.missing = @ \ {f}])
          PROVE  JobStep(p)
      <3> DEFINE s == job[p].missing \ {f}
      <3>a. Continue(p, "repair", [job[p] EXCEPT !.missing = s]) /\ s \subseteq job[p].missing
        BY <2>2
      <3> HIDE DEF s
      <3>b. At(p, "repair") /\ SameBut(p, {"missing"}) /\ job'[p].missing = s
        BY <1>0, <3>a, OneField
      <3>1. At(p, "repair") /\ SameBut(p, {"missing"}) /\ job'[p].missing \subseteq job[p].missing
        BY <3>a, <3>b
      <3> QED BY <2>1, <3>1 DEF At, SameBut, JobStep, LooksOn, Listed, Suspects, Comparing,
               Starts, Writing, Holding, Holds, Who, CreateLabel
    <2>3. ASSUME Goto(p, "relist") PROVE JobStep(p)
      <3>1. At(p, "relist") /\ SameBut(p, {})
        BY <1>0, <2>3, Goes
      <3> QED BY <2>1, <3>1, GoesOnJob DEF At, SameBut, Making, Comparing, CreateLabel, Holds
    <2> QED BY <1>6, <2>2, <2>3 DEF RepairRow
  <1>7. CASE Relist(p)
    <2>1. pc[p] = "relist" /\ job[p].cmd # "create"
      BY <1>7, <1>c DEF Relist, SyncLabel
    <2>2. ASSUME NEW n, Continue(p, "list", [job[p] EXCEPT !.id = n, !.unlisted = @ \ {n}])
          PROVE  JobStep(p)
      <3>1. At(p, "list") /\ SameBut(p, {"id"})
        BY <1>0, <2>2, TwoFields
      <3> QED BY <2>1, <3>1 DEF At, SameBut, JobStep, LooksOn, Listed, Suspects, Comparing,
               Starts, Writing, Holding, Holds, Who, CreateLabel
    <2>3. ASSUME Goto(p, "purge") PROVE JobStep(p)
      <3>1. At(p, "purge") /\ SameBut(p, {})
        BY <1>0, <2>3, Goes
      <3> QED BY <2>1, <3>1, GoesOnJob DEF At, SameBut, Making, Comparing, CreateLabel, Holds
    <2> QED BY <1>7, <2>2, <2>3 DEF Relist
  <1>8. CASE Purge(p)
    <2>1. pc[p] = "purge" /\ job[p].cmd # "create"
      BY <1>8, <1>c DEF Purge, SyncLabel
    <2>2. ASSUME NEW n, Continue(p, "purge", [job[p] EXCEPT !.orphans = @ \ {n}])
          PROVE  JobStep(p)
      <3> DEFINE s == job[p].orphans \ {n}
      <3>a. Continue(p, "purge", [job[p] EXCEPT !.orphans = s]) /\ s \subseteq job[p].orphans
        BY <2>2
      <3> HIDE DEF s
      <3>b. At(p, "purge") /\ SameBut(p, {"orphans"}) /\ job'[p].orphans = s
        BY <1>0, <3>a, OneField
      <3>1. At(p, "purge") /\ SameBut(p, {"orphans"}) /\ job'[p].orphans \subseteq job[p].orphans
        BY <3>a, <3>b
      <3> QED BY <2>1, <3>1 DEF At, SameBut, JobStep, LooksOn, Listed, Suspects, Comparing,
               Starts, Writing, Holding, Holds, Who, CreateLabel
    <2>3. ASSUME Goto(p, "summary") PROVE JobStep(p)
      <3>1. At(p, "summary") /\ SameBut(p, {})
        BY <1>0, <2>3, Goes
      <3> QED BY <2>1, <3>1, GoesOnJob DEF At, SameBut, Making, Comparing, CreateLabel, Holds
    <2> QED BY <1>8, <2>2, <2>3 DEF Purge
  <1> QED
    BY <1>1, <1>2, <1>3, <1>4, <1>5, <1>6, <1>7, <1>8 DEF Sync

Acts(p) == Create(p) \/ Page(p) \/ Sync(p) \/ Crash(p)

LEMMA JobSteps ==
  ASSUME WhoInv, NEW p \in Proc, Acts(p)
  PROVE  JobStep(p) /\ IdStep(p)
  <1>1. ProcOK /\ IdInv
    BY WhoParts DEF WhoInv
  <1>2. Crash(p) => JobStep(p)
    BY <1>1, Rests DEF Crash, Return, Goto
  <1> QED BY <1>1, <1>2, CreateJob, PageJob, SyncJob, CreateIds, PageIds, SyncIds, CrashIds
          DEF Acts

LEMMA WhoInit == Init => WhoInv
  BY IdInvInit DEF Init, WhoInv, CreateLabel, NoJob

LEMMA WhoNext == WhoInv /\ [Next]_vars => WhoInv'
  <1> SUFFICES ASSUME WhoInv, [Next]_vars PROVE WhoInv'
    OBVIOUS
  <1>0. IdInv'
    BY IdInvNext DEF WhoInv
  <1>1. CASE UNCHANGED <<pc, job>>
    BY <1>0, <1>1 DEF WhoInv
  <1>2. ASSUME NEW p \in Proc, Acts(p) PROVE WhoInv'
    BY <1>0, <1>2, JobSteps DEF WhoInv, JobStep, Who, IdStep, OthersRest
  <1> QED BY <1>1, <1>2 DEF Next, Tick, vars, Acts

\* What a step of p does to the files and to the table.
Wrote(p) ==
    /\ pc[p] = "file" /\ pc'[p] = "list" /\ job'[p] = job[p]
    /\ \E f : /\ f.id = job[p].id /\ f.title = job[p].title
              /\ files' = [files EXCEPT ![Tree[p]] = @ \cup {f}]
    /\ UNCHANGED <<tasks, torn, counter>>
Undid(p) ==
    /\ pc[p] = "undo" /\ pc'[p] = "idle"
    /\ files' = [files EXCEPT ![Tree[p]] =
                   {f \in @ : <<f.id, f.title>> # <<job[p].id, job[p].title>>}]
    /\ UNCHANGED <<tasks, torn, counter>>
Inserted(p) ==
    /\ pc[p] = "insert" /\ pc'[p] = "idle"
    /\ \E r : r.id = job[p].id /\ r.title = job[p].title /\ tasks' = tasks \cup {r}
    /\ UNCHANGED <<files, torn, counter>>
Repaired(p) ==
    /\ pc[p] = "repair"
    /\ \E f \in job[p].missing : \E r :
         /\ r.id = f.id /\ r.title = f.title /\ tasks' = tasks \cup {r}
         /\ f.id <= counter'
    /\ UNCHANGED <<files, torn>>
Purged(p) ==
    /\ pc[p] = "purge"
    /\ \E n \in job[p].orphans : tasks' = {r \in tasks : r.id # n}
    /\ UNCHANGED <<files, torn>>
Quiet(p) ==
    /\ UNCHANGED <<tasks, files>>
    /\ torn \subseteq torn'
    /\ Holds(p) /\ ~ Writing(p) => Holds(p)' \/ job[p].id \in torn'

StoreStep(p) ==
    Wrote(p) \/ Undid(p) \/ Inserted(p) \/ Repaired(p) \/ Purged(p) \/ Quiet(p)

LEMMA CreateStores ==
  ASSUME WhoInv, NEW p \in Proc, Create(p)
  PROVE  StoreStep(p)
  <1>0. ProcOK
    BY WhoParts
  <1>1. CASE WriteFile(p)
    <2>1. CASE UNCHANGED files
      BY <1>1, <2>1 DEF WriteFile, StoreStep, Quiet, Writing
    <2>2. CASE /\ files' = [files EXCEPT ![Tree[p]] = @ \cup
                              {[id |-> job[p].id, title |-> job[p].title,
                                created |-> Today, sprint |-> SprintValue]}]
               /\ Goto(p, "list")
      <3> DEFINE f == [id |-> job[p].id, title |-> job[p].title,
                       created |-> Today, sprint |-> SprintValue]
      <3>1. f.id = job[p].id /\ f.title = job[p].title
        OBVIOUS
      <3>2. files' = [files EXCEPT ![Tree[p]] = @ \cup {f}]
        BY <2>2
      <3> HIDE DEF f
      <3>3. pc'[p] = "list" /\ job'[p] = job[p]
        BY <1>0, <2>2, GotoEffect
      <3> QED BY <1>1, <3>1, <3>2, <3>3 DEF WriteFile, StoreStep, Wrote
    <2> QED BY <1>1, <2>1, <2>2 DEF WriteFile
  <1>2. CASE InsertRow(p)
    <2>1. CASE Goto(p, "undo") /\ UNCHANGED tasks
      <3>1. pc'[p] = "undo" /\ job'[p] = job[p]
        BY <1>0, <2>1, GotoEffect
      <3> QED BY <1>2, <2>1, <3>1 DEF InsertRow, StoreStep, Quiet, Holds, Making
    <2>2. CASE Return(p) /\ tasks' = tasks \cup
                 {[id |-> job[p].id, title |-> job[p].title,
                   created |-> Today, at |-> now]}
      <3> DEFINE r == [id |-> job[p].id, title |-> job[p].title,
                       created |-> Today, at |-> now]
      <3>1. r.id = job[p].id /\ r.title = job[p].title
        OBVIOUS
      <3>2. tasks' = tasks \cup {r}
        BY <2>2
      <3> HIDE DEF r
      <3>3. pc'[p] = "idle"
        BY <1>0, <2>2, ReturnEffect
      <3> QED BY <1>2, <3>1, <3>2, <3>3 DEF InsertRow, StoreStep, Inserted
    <2> QED BY <1>2, <2>1, <2>2 DEF InsertRow
  <1>3. CASE UndoFile(p)
    <2>1. pc'[p] = "idle" /\ pc[p] = "undo"
      BY <1>0, <1>3, ReturnEffect DEF UndoFile
    <2>2. CASE torn' = torn \cup {job[p].id} /\ UNCHANGED files
      BY <1>3, <2>2 DEF UndoFile, StoreStep, Quiet
    <2>3. CASE UNCHANGED torn
               /\ files' = [files EXCEPT ![Tree[p]] =
                             {f \in @ : <<f.id, f.title>> # <<job[p].id, job[p].title>>}]
      BY <1>3, <2>1, <2>3 DEF UndoFile, StoreStep, Undid
    <2> QED BY <1>3, <2>2, <2>3 DEF UndoFile
  <1>4. ASSUME pc[p] \notin Making, UNCHANGED <<tasks, files, torn>>
        PROVE  StoreStep(p)
    BY <1>4 DEF StoreStep, Quiet, Holds
  <1>5. \/ \E title \in Title : CheckTitle(p, title)
        \/ Scan(p) \/ Bump(p) \/ ReadMax(p) \/ SyncCounter(p) \/ NextCounter(p)
        => StoreStep(p)
    BY <1>4 DEF CheckTitle, Scan, Bump, ReadMax, SyncCounter, NextCounter, Making
  <1> QED BY <1>1, <1>2, <1>3, <1>5 DEF Create

LEMMA PageStores ==
  ASSUME WhoInv, NEW p \in Proc, Page(p)
  PROVE  StoreStep(p)
  <1>1. UNCHANGED <<tasks, files, torn>>
    BY DEF Page, ReadBacklog, WriteBacklog, ReadSummary, WriteSummary
  <1>2. ProcOK
    BY WhoParts
  <1>3. job[p].cmd = "create" =>
          \E l \in {"listed", "summed", "summary", "insert"} : At(p, l) /\ SameBut(p, {})
    BY <1>2, OneField, Goes DEF Page, ReadBacklog, WriteBacklog, ReadSummary, WriteSummary,
                                AfterListing, AfterSummary
  <1>4. Holds(p) => Holds(p)'
    BY <1>3 DEF Holds, At, SameBut, Making
  <1> QED BY <1>1, <1>4 DEF StoreStep, Quiet

LEMMA SyncStores ==
  ASSUME WhoInv, NEW p \in Proc, Sync(p)
  PROVE  StoreStep(p)
  <1>1. UNCHANGED <<files, torn>> /\ pc[p] \notin Making
    BY DEF Sync, ListFiles, FindMissing, FindUnlisted, ReadRows, FindOrphans, RepairRow,
           Relist, Purge, Making
  <1>2. ASSUME UNCHANGED tasks PROVE StoreStep(p)
    BY <1>1, <1>2 DEF StoreStep, Quiet, Holds
  <1>3. CASE RepairRow(p)
    <2>1. ASSUME NEW f \in job[p].missing,
                 tasks' = tasks \cup {[id |-> f.id, title |-> f.title,
                                       created |-> f.created, at |-> now]},
                 counter' = AtLeast(counter, f.id)
          PROVE  StoreStep(p)
      <3> DEFINE r == [id |-> f.id, title |-> f.title, created |-> f.created, at |-> now]
      <3>1. r.id = f.id /\ r.title = f.title
        OBVIOUS
      <3>2. tasks' = tasks \cup {r}
        BY <2>1
      <3> HIDE DEF r
      <3>3. f.id \in Nat /\ counter \in Nat
        BY WhoParts, JobTypes DEF Files
      <3>4. f.id <= counter'
        BY <2>1, <3>3, AtLeastType
      <3> QED BY <1>1, <1>3, <3>1, <3>2, <3>4 DEF RepairRow, StoreStep, Repaired
    <2>2. \/ UNCHANGED tasks
          \/ \E f \in job[p].missing :
               /\ tasks' = tasks \cup {[id |-> f.id, title |-> f.title,
                                        created |-> f.created, at |-> now]}
               /\ counter' = AtLeast(counter, f.id)
      BY <1>3 DEF RepairRow
    <2> QED BY <1>2, <2>1, <2>2
  <1>4. CASE Purge(p)
    BY <1>1, <1>2, <1>4 DEF Purge, StoreStep, Purged
  <1> QED
    BY <1>2, <1>3, <1>4 DEF Sync, ListFiles, FindMissing, FindUnlisted, ReadRows,
       FindOrphans, Relist

LEMMA StoreSteps ==
  ASSUME WhoInv, NEW p \in Proc, Acts(p)
  PROVE  StoreStep(p)
  <1>1. CASE Crash(p)
    BY <1>1 DEF Crash, StoreStep, Quiet
  <1> QED BY <1>1, CreateStores, PageStores, SyncStores DEF Acts

-----------------------------------------------------------------------------
(* Orphans.  Where the counter has reached every row it has reached every  *)
(* orphan too, and an identifier issued afterwards is new: no file of that *)
(* name appears before the row is deleted.                                 *)

\* The identifiers of rows, now or when a sync looked; and of files.
Rowed == Ids(tasks) \cup UNION {job[a].orphans : a \in Proc}
Filed == Ids(Everywhere) \cup UNION {Ids(Listed(a)) : a \in Proc}

Bounded == /\ \A n \in Rowed : n <= counter
           /\ \A n \in Filed : n \in KnownFiles \/ n <= counter
FreshFile == \A a \in Proc : Writing(a) =>
                job[a].id \in KnownFiles \/ job[a].id \notin Rowed \cup Filed
KnownStay == \A n \in KnownFiles :
    counter < n \/ (\E a \in Proc : Writing(a) /\ job[a].id = n) =>
      \A v \in Worktree : n \in Ids(files[v])
OrphansGone == \A a \in Proc : Comparing(a) => job[a].orphans \cap Ids(Everywhere) = {}

OrphanInv == WhoInv /\ Bounded /\ FreshFile /\ KnownStay /\ OrphansGone

LEMMA OrphanInit ==
  ASSUME \A n \in KnownRows : n <= Counter, Init
  PROVE  OrphanInv
  <1>0. WhoInv
    BY WhoInit
  <1>1. \A a \in Proc : job[a].orphans = {} /\ Listed(a) = {} /\ ~ Writing(a) /\ ~ Comparing(a)
    BY DEF Init, NoJob, Listed, Writing, Comparing
  <1>2. \A n \in Ids(tasks) : n \in KnownRows
    BY DEF Init, Ids
  <1>a. \A x \in Everywhere : \E n \in KnownFiles : x = KnownFile(n)
    BY DEF Init, Everywhere
  <1>b. \A n : KnownFile(n).id = n
    BY DEF KnownFile
  <1>3. \A n \in Ids(Everywhere) : n \in KnownFiles
    BY <1>a, <1>b DEF Ids
  <1>4. \A n \in Rowed : n \in KnownRows
    BY <1>1, <1>2 DEF Rowed
  <1>5. \A n \in Filed : n \in KnownFiles
    BY <1>1, <1>3 DEF Filed, Ids
  <1>6. Bounded
    BY <1>4, <1>5 DEF Bounded, Init
  <1>7. KnownStay
    <2>1. \A n \in KnownFiles, v \in Worktree : KnownFile(n) \in files[v]
      BY DEF Init
    <2> QED BY <2>1, <1>b DEF KnownStay, Ids
  <1> QED BY <1>0, <1>1, <1>6, <1>7 DEF OrphanInv, FreshFile, OrphansGone

\* What a step may add to the rows and to the files.
LEMMA RowedStep ==
  ASSUME WhoInv, NEW p \in Proc, IdStep(p), JobStep(p), StoreStep(p)
  PROVE  \A n \in Rowed' : \/ n \in Rowed
                           \/ Inserted(p) /\ n = job[p].id
                           \/ Repaired(p) /\ n \in Ids(Listed(p)) /\ n <= counter'
  <1>1. ASSUME NEW a \in Proc, NEW n \in job'[a].orphans
        PROVE  n \in Rowed
    <2>1. CASE a = p
      BY <1>1, <2>1 DEF JobStep, Suspects, Rowed
    <2>2. CASE a # p
      BY <1>1, <2>2 DEF IdStep, OthersRest, Rowed
    <2> QED BY <2>1, <2>2
  <1>2. ASSUME NEW n \in Ids(tasks)'
        PROVE  \/ n \in Ids(tasks)
               \/ Inserted(p) /\ n = job[p].id
               \/ Repaired(p) /\ n \in Ids(Listed(p)) /\ n <= counter'
    <2>0. PICK x \in tasks' : n = x.id
      BY DEF Ids
    <2>1. CASE x \in tasks
      BY <2>0, <2>1 DEF Ids
    <2>2. CASE x \notin tasks
      <3>1. Inserted(p) \/ Repaired(p)
        BY <2>0, <2>2 DEF StoreStep, Wrote, Undid, Purged, Quiet
      <3>2. Inserted(p) => n = job[p].id
        BY <2>0, <2>2 DEF Inserted
      <3>3. Repaired(p) => \E f \in job[p].missing : n = f.id /\ n <= counter'
        BY <2>0, <2>2 DEF Repaired
      <3> QED BY <3>1, <3>2, <3>3 DEF Ids, Listed
    <2> QED BY <2>1, <2>2
  <1> QED BY <1>1, <1>2 DEF Rowed

LEMMA FiledStep ==
  ASSUME WhoInv, NEW p \in Proc, IdStep(p), JobStep(p), StoreStep(p)
  PROVE  \A n \in Filed' : n \in Filed \/ (Wrote(p) /\ n = job[p].id)
  <1>t. /\ Tree[p] \in Worktree
        /\ files \in [Worktree -> SUBSET Files]
    BY CreateAssumption DEF WhoInv, IdInv, TypeOK
  <1>1. ASSUME NEW a \in Proc, NEW n \in Ids(Listed(a))'
        PROVE  n \in Filed
    <2>0. PICK x \in Listed(a)' : n = x.id
      BY <1>1 DEF Ids
    <2>1. x \in Listed(a) \/ x \in files[Tree[p]]
      BY <2>0 DEF JobStep, LooksOn, IdStep, OthersRest, Listed
    <2> QED BY <1>t, <2>0, <2>1 DEF Filed, Ids, Everywhere
  <1>2. ASSUME NEW n \in Ids(Everywhere)'
        PROVE  n \in Ids(Everywhere) \/ (Wrote(p) /\ n = job[p].id)
    <2>a. PICK v \in Worktree : \E x \in files'[v] : n = x.id
      BY <1>2 DEF Ids, Everywhere
    <2>0. PICK x \in files'[v] : n = x.id
      BY <2>a
    <2>1. CASE x \in files[v]
      BY <2>0, <2>1 DEF Ids, Everywhere
    <2>2. CASE x \notin files[v]
      <3>1. Wrote(p)
        BY <1>t, <2>0, <2>2 DEF StoreStep, Inserted, Repaired, Undid, Purged, Quiet
      <3>2. n = job[p].id
        BY <1>t, <2>0, <2>2, <3>1 DEF Wrote
      <3> QED BY <3>1, <3>2
    <2> QED BY <2>1, <2>2
  <1> QED BY <1>1, <1>2 DEF Filed

LEMMA BoundedStep ==
  ASSUME OrphanInv, NEW p \in Proc, IdStep(p), JobStep(p), StoreStep(p), WhoInv'
  PROVE  Bounded' /\ FreshFile'
  <1>0. /\ counter \in Nat /\ counter' \in Nat /\ counter <= counter'
        /\ job[p].id \in Nat
    BY TypeOKParts, JobTypes DEF OrphanInv, WhoInv, IdInv, DataOK, ProcOK, IdStep, Issued, Kept
  <1>t. KnownFiles \subseteq Nat
    BY CreateAssumption
  <1>n. (\A n \in Rowed : n \in Nat) /\ (\A n \in Filed : n \in Nat)
    <2>1. Ids(tasks) \subseteq Nat
      BY TypeOKParts, IdsType DEF OrphanInv, WhoInv, IdInv, DataOK
    <2>2. \A a \in Proc : job[a].orphans \subseteq Nat /\ Listed(a) \subseteq Files
      BY TypeOKParts, JobTypes DEF OrphanInv, WhoInv, IdInv, ProcOK, Listed
    <2>3. Everywhere \subseteq Files
      BY DEF OrphanInv, WhoInv, IdInv, TypeOK, Everywhere
    <2>4. Ids(Everywhere) \subseteq Nat /\ \A a \in Proc : Ids(Listed(a)) \subseteq Nat
      BY <2>2, <2>3, IdsType
    <2> QED BY <2>1, <2>2, <2>4 DEF Rowed, Filed
  <1>w. (Inserted(p) \/ Wrote(p)) => Holds(p) /\ job[p].id <= counter
    BY DEF Inserted, Wrote, OrphanInv, WhoInv, IdInv, CreateLabel, Holds, Making
  <1>1. \A n \in Rowed' : n <= counter'
    BY <1>0, <1>n, <1>w, RowedStep DEF OrphanInv, Bounded
  <1>2. \A n \in Filed' : n \in KnownFiles \/ n <= counter'
    BY <1>0, <1>n, <1>w, FiledStep DEF OrphanInv, Bounded
  <1>3. ASSUME Writing(p)'
        PROVE  job'[p].id \in KnownFiles \/ job'[p].id \notin (Rowed \cup Filed)'
    <2>1. pc[p] = "next" /\ job'[p].id = counter + 1
      BY <1>3 DEF JobStep, Starts
    <2>2. ~ Inserted(p) /\ ~ Repaired(p) /\ ~ Wrote(p)
      BY <2>1 DEF Inserted, Repaired, Wrote
    <2>3. \A n \in Rowed' : n \in Rowed /\ n <= counter
      BY <2>2, RowedStep DEF OrphanInv, Bounded
    <2>4. \A n \in Filed' : n \in Filed /\ (n \in KnownFiles \/ n <= counter)
      BY <2>2, FiledStep DEF OrphanInv, Bounded
    <2> QED BY <1>0, <1>n, <2>1, <2>3, <2>4
  <1>4. ASSUME NEW a \in Proc, a # p, Writing(a)'
        PROVE  job'[a].id \in KnownFiles \/ job'[a].id \notin (Rowed \cup Filed)'
    <2>1. Writing(a) /\ job'[a].id = job[a].id /\ Holds(a)
      BY <1>4 DEF IdStep, OthersRest, Writing, OrphanInv, WhoInv, CreateLabel, Holds, Making
    <2>2. (Inserted(p) \/ Wrote(p)) => job[p].id # job[a].id
      BY <1>4, <1>w, <2>1 DEF OrphanInv, WhoInv, IdInv, DistinctIds
    <2>3. CASE job[a].id \notin KnownFiles
      <3>1. job[a].id \notin Rowed \cup Filed
        BY <2>1, <2>3 DEF OrphanInv, FreshFile
      <3>2. job[a].id \notin Ids(Listed(p))
        BY <3>1 DEF Filed
      <3> QED BY <2>1, <2>2, <3>1, <3>2, RowedStep, FiledStep DEF OrphanInv
    <2> QED BY <2>1, <2>3
  <1> QED BY <1>1, <1>2, <1>3, <1>4 DEF Bounded, FreshFile

\* A rollback removes only files by the name that was given to its create, and
\* nobody else has that.
LEMMA KnownStep ==
  ASSUME OrphanInv, NEW p \in Proc, IdStep(p), JobStep(p), StoreStep(p), WhoInv'
  PROVE  KnownStay'
  <1>a. /\ Tree[p] \in Worktree
        /\ files \in [Worktree -> SUBSET Files]
        /\ KnownFiles \subseteq Nat
    BY CreateAssumption DEF OrphanInv, WhoInv, IdInv, TypeOK
  <1>b. counter \in Nat /\ counter' \in Nat /\ counter <= counter' /\ job[p].id \in Nat
    BY TypeOKParts, JobTypes
       DEF OrphanInv, WhoInv, IdInv, DataOK, ProcOK, IdStep, Issued, Kept
  <1>1. ASSUME NEW v \in Worktree, NEW n \in Ids(files[v]), n \notin Ids(files'[v])
        PROVE  Undid(p) /\ n = job[p].id
    <2>0. PICK x \in files[v] : n = x.id
      BY <1>1 DEF Ids
    <2>1. x \notin files'[v]
      BY <1>1, <2>0 DEF Ids
    <2>2. Undid(p)
      BY <1>a, <2>0, <2>1 DEF StoreStep, Inserted, Repaired, Wrote, Purged, Quiet
    <2>3. <<x.id, x.title>> = <<job[p].id, job[p].title>>
      BY <1>a, <2>0, <2>1, <2>2 DEF Undid
    <2> QED BY <2>0, <2>2, <2>3
  <1>u. Undid(p) => Holds(p) /\ job[p].id <= counter
    BY DEF Undid, OrphanInv, WhoInv, IdInv, CreateLabel, Holds, Making
  <1> SUFFICES ASSUME NEW n \in KnownFiles, NEW v \in Worktree,
                      counter' < n \/ \E a \in Proc : Writing(a)' /\ job'[a].id = n
               PROVE  n \in Ids(files'[v])
    BY DEF KnownStay
  <1>2. CASE counter' < n
    <2>1. n \in Ids(files[v])
      BY <1>a, <1>b, <1>2 DEF OrphanInv, KnownStay
    <2> QED BY <1>a, <1>b, <1>1, <1>2, <1>u, <2>1
  <1>3. CASE Writing(p)' /\ job'[p].id = n
    <2>1. n = counter + 1 /\ UNCHANGED files
      BY <1>3 DEF JobStep, Starts
    <2>2. n \in Ids(files[v])
      BY <1>a, <1>b, <2>1 DEF OrphanInv, KnownStay
    <2> QED BY <2>1, <2>2
  <1>4. ASSUME NEW a \in Proc, a # p, Writing(a)', job'[a].id = n
        PROVE  n \in Ids(files'[v])
    <2>1. Writing(a) /\ job[a].id = n /\ Holds(a)
      BY <1>4 DEF IdStep, OthersRest, Writing, OrphanInv, WhoInv, CreateLabel, Holds, Making
    <2>2. n \in Ids(files[v])
      BY <2>1 DEF OrphanInv, KnownStay
    <2>3. Undid(p) => job[p].id # n
      BY <1>4, <1>u, <2>1 DEF OrphanInv, WhoInv, IdInv, DistinctIds
    <2> QED BY <1>1, <2>2, <2>3
  <1> QED BY <1>2, <1>3, <1>4

\* A file that appears is new, or bears a name that was there all the time.
LEMMA GoneStep ==
  ASSUME OrphanInv, NEW p \in Proc, IdStep(p), JobStep(p), StoreStep(p)
  PROVE  OrphansGone'
  <1>t. Tree[p] \in Worktree /\ files \in [Worktree -> SUBSET Files]
    BY CreateAssumption DEF OrphanInv, WhoInv, IdInv, TypeOK
  <1>k. \A n : n \in Ids(files[Tree[p]]) => n \in Ids(Everywhere)
    BY <1>t DEF Ids, Everywhere
  <1>e. ASSUME NEW n \in Ids(Everywhere)'
        PROVE  n \in Ids(Everywhere) \/ (Wrote(p) /\ n = job[p].id)
    <2>a. PICK v \in Worktree : \E x \in files'[v] : n = x.id
      BY <1>e DEF Ids, Everywhere
    <2>0. PICK x \in files'[v] : n = x.id
      BY <2>a
    <2>1. CASE x \in files[v]
      BY <2>0, <2>1 DEF Ids, Everywhere
    <2>2. CASE x \notin files[v]
      <3>1. Wrote(p)
        BY <1>t, <2>0, <2>2 DEF StoreStep, Inserted, Repaired, Undid, Purged, Quiet
      <3>2. n = job[p].id
        BY <1>t, <2>0, <2>2, <3>1 DEF Wrote
      <3> QED BY <3>1, <3>2
    <2> QED BY <2>1, <2>2
  <1> SUFFICES ASSUME NEW a \in Proc, Comparing(a)', NEW n \in job'[a].orphans
               PROVE  n \notin Ids(Everywhere)'
    BY DEF OrphansGone
  <1>1. CASE job'[a].orphans \cap Ids(Everywhere) = {} /\ UNCHANGED files
    BY <1>1 DEF Everywhere, Ids
  <1>2. CASE Comparing(a) /\ n \in job[a].orphans
    <2>1. n \notin Ids(Everywhere) /\ n \in Rowed
      BY <1>2 DEF OrphanInv, OrphansGone, Rowed
    <2>2. ~ (Wrote(p) /\ n = job[p].id)
      BY <1>k, <1>t, <2>1 DEF Wrote, Writing, OrphanInv, FreshFile, KnownStay
    <2> QED BY <1>e, <2>1, <2>2
  <1> QED BY <1>1, <1>2 DEF JobStep, Suspects, IdStep, OthersRest, Comparing

LEMMA OrphanStep ==
  ASSUME OrphanInv, NEW p \in Proc, Acts(p)
  PROVE  OrphanInv'
  <1>1. WhoInv'
    BY WhoNext DEF OrphanInv, Next, Acts
  <1>2. IdStep(p) /\ JobStep(p) /\ StoreStep(p)
    BY JobSteps, StoreSteps DEF OrphanInv
  <1> QED BY <1>1, <1>2, BoundedStep, KnownStep, GoneStep DEF OrphanInv

LEMMA OrphanNext == OrphanInv /\ [Next]_vars => OrphanInv'
  <1> SUFFICES ASSUME OrphanInv, [Next]_vars PROVE OrphanInv'
    OBVIOUS
  <1>1. CASE UNCHANGED <<counter, tasks, files, pc, job>>
    <2>1. WhoInv'
      BY WhoNext DEF OrphanInv
    <2>2. Everywhere' = Everywhere /\ Ids(tasks)' = Ids(tasks)
      BY <1>1 DEF Everywhere, Ids
    <2>3. Rowed' = Rowed /\ Filed' = Filed
      BY <1>1, <2>2 DEF Rowed, Filed, Listed, Ids
    <2> QED BY <1>1, <2>1, <2>2, <2>3
            DEF OrphanInv, Bounded, FreshFile, KnownStay, OrphansGone, Writing, Comparing, Ids
  <1>2. ASSUME NEW p \in Proc, Acts(p) PROVE OrphanInv'
    BY <1>2, OrphanStep
  <1> QED BY <1>1, <1>2 DEF Next, Tick, vars, Acts

\* Only a sync that has compared deletes a row, and an orphan's.
LEMMA DeletesStep ==
  ASSUME OrphanInv, [Next]_vars
  PROVE  [(Ids(tasks) \ Ids(tasks')) \cap Ids(Everywhere) = {}]_vars
  <1>1. ASSUME UNCHANGED tasks \/ \E s : tasks' = tasks \cup s
        PROVE  Ids(tasks) \ Ids(tasks') = {}
    BY <1>1 DEF Ids
  <1>2. ASSUME NEW p \in Proc, Acts(p)
        PROVE  (Ids(tasks) \ Ids(tasks')) \cap Ids(Everywhere) = {}
    <2>0. StoreStep(p)
      BY <1>2, StoreSteps DEF OrphanInv
    <2>1. CASE Purged(p)
      <3>1. PICK n \in job[p].orphans : tasks' = {r \in tasks : r.id # n}
        BY <2>1 DEF Purged
      <3>2. n \notin Ids(Everywhere)
        BY <2>1 DEF Purged, OrphanInv, WhoInv, IdInv, SyncLabel, OrphansGone, Comparing
      <3>3. \A m \in Ids(tasks) : m # n => m \in Ids(tasks')
        BY <3>1 DEF Ids
      <3> QED BY <3>2, <3>3
    <2>2. CASE ~ Purged(p)
      <3>1. UNCHANGED tasks \/ \E s : tasks' = tasks \cup s
        BY <2>0, <2>2 DEF StoreStep, Wrote, Undid, Inserted, Repaired, Quiet
      <3> QED BY <1>1, <3>1
    <2> QED BY <2>1, <2>2
  <1> QED BY <1>1, <1>2 DEF Next, Tick, vars, Acts

\* checkDBOrphanTasks deletes no row of a Task whose file lies in some worktree,
\* not even one that appeared while sync was comparing: whatever the number of
\* creates and syncs, and whatever fails, where the counter does not lie behind
\* the rows at the start.  (Where it does, three processes suffice: of two syncs
\* that hold the same orphan one deletes it, a create that looks for the maximum
\* takes its identifier again, and the other sync deletes the new row.)
THEOREM OrphansDeleted ==
  ASSUME \A n \in KnownRows : n <= Counter
  PROVE  Spec => DeletesOnlyOrphans
  <1>1. Init => OrphanInv
    BY OrphanInit
  <1>2. OrphanInv /\ [Next]_vars => OrphanInv'
    BY OrphanNext
  <1>3. OrphanInv /\ [Next]_vars =>
          [(Ids(tasks) \ Ids(tasks')) \cap Ids(Everywhere) = {}]_vars
    BY DeletesStep
  <1> QED BY <1>1, <1>2, <1>3, PTL DEF Spec, DeletesOnlyOrphans

-----------------------------------------------------------------------------
(* Files and rows at rest.  A file that a create made is backed by a row,  *)
(* or by its create, which still holds the identifier, or its loss was     *)
(* recorded; and it lies where its create can take it back.                *)

OwnFiles == \A a \in Proc : Holds(a) /\ job[a].id \notin KnownFiles =>
    \A v \in Worktree : \A x \in files[v] :
      x.id = job[a].id => v = Tree[a] /\ x.title = job[a].title
Backed == \A n \in Ids(Everywhere) :
    \/ n \in KnownFiles \cup torn \cup Ids(tasks)
    \/ \E a \in Proc : Holds(a) /\ ~ Writing(a) /\ job[a].id = n

BackedInv == OrphanInv /\ OwnFiles /\ Backed

LEMMA BackedInit ==
  ASSUME \A n \in KnownRows : n <= Counter, Init
  PROVE  BackedInv
  <1>1. \A a \in Proc : ~ Holds(a)
    BY DEF Init, Holds, Making
  <1>2. \A x \in Everywhere : \E n \in KnownFiles : x = KnownFile(n)
    BY DEF Init, Everywhere
  <1>3. \A n : KnownFile(n).id = n
    BY DEF KnownFile
  <1>4. \A n \in Ids(Everywhere) : n \in KnownFiles
    BY <1>2, <1>3 DEF Ids
  <1> QED BY <1>1, <1>4, OrphanInit DEF BackedInv, OwnFiles, Backed

\* A create holds its identifier until its row is there, its file gone or its
\* loss recorded.
LEMMA HoldsOn ==
  ASSUME WhoInv, NEW p \in Proc, JobStep(p), StoreStep(p), Holds(p), ~ Writing(p)
  PROVE  \/ Holds(p)' /\ ~ Writing(p)' /\ job'[p].id = job[p].id
         \/ job[p].id \in torn' \/ job[p].id \in Ids(tasks')
         \/ Undid(p)
  <1>1. ~ Writing(p)'
    BY DEF JobStep, Starts, Holds, Making
  <1>2. ~ Wrote(p) /\ ~ Repaired(p) /\ ~ Purged(p)
    BY DEF Wrote, Repaired, Purged, Holds, Making, Writing
  <1>3. Inserted(p) => job[p].id \in Ids(tasks')
    BY DEF Inserted, Ids
  <1> QED BY <1>1, <1>2, <1>3 DEF StoreStep, Quiet, JobStep, Holding

LEMMA OwnFilesStep ==
  ASSUME BackedInv, NEW p \in Proc, IdStep(p), JobStep(p), StoreStep(p)
  PROVE  OwnFiles'
  <1>0. /\ Tree[p] \in Worktree
        /\ files \in [Worktree -> SUBSET Files]
    BY CreateAssumption DEF BackedInv, OrphanInv, WhoInv, IdInv, TypeOK
  <1> SUFFICES ASSUME NEW a \in Proc, Holds(a)', job'[a].id \notin KnownFiles,
                      NEW v \in Worktree, NEW x \in files'[v], x.id = job'[a].id
               PROVE  v = Tree[a] /\ x.title = job'[a].title
    BY DEF OwnFiles
  <1>1. x \in files[v] \/ (Wrote(p) /\ v = Tree[p] /\ x.id = job[p].id /\ x.title = job[p].title)
    BY <1>0 DEF StoreStep, Wrote, Inserted, Repaired, Undid, Purged, Quiet
  <1>w. Wrote(p) => Holds(p) /\ job'[p] = job[p]
    BY DEF Wrote, BackedInv, OrphanInv, WhoInv, CreateLabel, Holds, Making
  <1>2. CASE a = p /\ Writing(p)'
    <2>1. x \in files[v]
      BY <1>1, <1>2 DEF JobStep, Starts, Wrote
    <2>2. job'[p].id = counter + 1 /\ counter \in Nat /\ x.id \in Filed
      BY <1>2, <2>1, TypeOKParts
         DEF JobStep, Starts, Filed, Ids, Everywhere, BackedInv, OrphanInv, WhoInv, IdInv, DataOK
    <2>3. x.id <= counter
      BY <1>2, <2>2 DEF BackedInv, OrphanInv, Bounded
    <2> QED BY <1>2, <2>2, <2>3
  <1>3. CASE a = p /\ ~ Writing(p)'
    <2>1. Holds(p) /\ job'[p].id = job[p].id /\ job'[p].title = job[p].title
      BY <1>3 DEF JobStep, Holding
    <2> QED BY <1>1, <1>3, <2>1 DEF BackedInv, OwnFiles
  <1>4. CASE a # p
    <2>1. Holds(a) /\ job'[a] = job[a]
      BY <1>4 DEF IdStep, OthersRest, Holds
    <2>2. Wrote(p) => job[p].id # job[a].id
      BY <1>4, <1>w, <2>1 DEF BackedInv, OrphanInv, WhoInv, IdInv, DistinctIds
    <2> QED BY <1>1, <2>1, <2>2 DEF BackedInv, OwnFiles
  <1> QED BY <1>2, <1>3, <1>4

LEMMA BackedStep ==
  ASSUME BackedInv, [Next]_vars, NEW p \in Proc, Acts(p), IdStep(p), JobStep(p), StoreStep(p)
  PROVE  Backed'
  <1>0. /\ Tree[p] \in Worktree
        /\ files \in [Worktree -> SUBSET Files]
    BY CreateAssumption DEF BackedInv, OrphanInv, WhoInv, IdInv, TypeOK
  <1>k. torn \subseteq torn'
    BY DEF StoreStep, Wrote, Inserted, Repaired, Undid, Purged, Quiet
  <1> SUFFICES ASSUME NEW n \in Ids(Everywhere)', n \notin KnownFiles
               PROVE  \/ n \in torn' \/ n \in Ids(tasks')
                      \/ \E a \in Proc : Holds(a)' /\ ~ Writing(a)' /\ job'[a].id = n
    BY DEF Backed, Ids
  <1>a. PICK v \in Worktree : \E x \in files'[v] : n = x.id
    BY DEF Ids, Everywhere
  <1>b. PICK x \in files'[v] : n = x.id
    BY <1>a
  <1>1. CASE x \notin files[v]
    <2>1. Wrote(p)
      BY <1>0, <1>b, <1>1 DEF StoreStep, Inserted, Repaired, Undid, Purged, Quiet
    <2>2. n = job[p].id /\ job'[p] = job[p] /\ pc'[p] = "list"
      BY <1>0, <1>b, <1>1, <2>1 DEF Wrote
    <2>3. job[p].cmd = "create"
      BY <2>1 DEF Wrote, BackedInv, OrphanInv, WhoInv, CreateLabel
    <2> QED BY <2>2, <2>3 DEF Holds, Making, Writing
  <1>2. CASE x \in files[v]
    <2>0. n \in Ids(Everywhere)
      BY <1>b, <1>2 DEF Ids, Everywhere
    <2>1. CASE n \in Ids(tasks)
      <3>1. n \in Ids(tasks') \/ UNCHANGED tasks
        BY <2>0, <2>1, DeletesStep DEF BackedInv, vars
      <3> QED BY <2>1, <3>1 DEF Ids
    <2>2. CASE Holds(p) /\ ~ Writing(p) /\ job[p].id = n
      <3>1. CASE Undid(p)
        <4>1. v = Tree[p] /\ x.title = job[p].title
          BY <1>b, <1>2, <2>2 DEF BackedInv, OwnFiles
        <4> QED BY <1>0, <1>b, <2>2, <3>1, <4>1 DEF Undid
      <3>2. CASE ~ Undid(p)
        BY <2>2, <3>2, HoldsOn DEF BackedInv, OrphanInv
      <3> QED BY <3>1, <3>2
    <2>3. ASSUME NEW a \in Proc, a # p, Holds(a), ~ Writing(a), job[a].id = n
          PROVE  Holds(a)' /\ ~ Writing(a)' /\ job'[a].id = n
      BY <2>3 DEF IdStep, OthersRest, Holds, Writing
    <2> QED BY <1>k, <2>0, <2>1, <2>2, <2>3 DEF BackedInv, Backed
  <1> QED BY <1>1, <1>2

LEMMA BackedNext == BackedInv /\ [Next]_vars => BackedInv'
  <1> SUFFICES ASSUME BackedInv, [Next]_vars PROVE BackedInv'
    OBVIOUS
  <1>0. OrphanInv'
    BY OrphanNext DEF BackedInv
  <1>1. CASE UNCHANGED <<tasks, files, pc, job, torn>>
    BY <1>0, <1>1 DEF BackedInv, OwnFiles, Backed, Holds, Writing, Everywhere, Ids
  <1>2. ASSUME NEW p \in Proc, Acts(p) PROVE BackedInv'
    <2>1. IdStep(p) /\ JobStep(p) /\ StoreStep(p)
      BY <1>2, JobSteps, StoreSteps DEF BackedInv, OrphanInv
    <2> QED BY <1>0, <1>2, <2>1, OwnFilesStep, BackedStep DEF BackedInv
  <1> QED BY <1>1, <1>2 DEF Next, Tick, vars, Acts

\* A create that fails takes its file back, and sync takes no row from it: at
\* rest every file that create made has a row, unless its process died or could
\* not remove it; for any number of creates and syncs, where the counter does
\* not lie behind the rows at the start.
THEOREM FilesBackedByRows ==
  ASSUME \A n \in KnownRows : n <= Counter
  PROVE  Spec => []FilesHaveRows
  <1>1. Init => BackedInv
    BY BackedInit
  <1>2. BackedInv => FilesHaveRows
    BY DEF BackedInv, Backed, FilesHaveRows, Idle, Holds, Making
  <1> QED BY <1>1, <1>2, BackedNext, PTL DEF Spec

-----------------------------------------------------------------------------
(* Identifiers of one's own.  While nothing fails, a create has raised the *)
(* counter past every file and every row before it takes a number, so that *)
(* whatever bears that number afterwards was made from its file.           *)

\* How a create raises the counter on its way to a number.
Heals(p) ==
    /\ pc'[p] = "bump" =>
         \E n \in Ids(files[Tree[p]]) \cup {0} :
           /\ Largest(n, Ids(files[Tree[p]]))
           /\ job'[p].max = IF n > TaskIDSanityMax THEN 0 ELSE n
    /\ pc'[p] = "max" =>
         pc[p] = "bump" /\ (faults' = faults => counter' = AtLeast(counter, job[p].max))
    /\ pc'[p] = "sync" => /\ pc[p] = "max" /\ UNCHANGED tasks
                          /\ \A n \in Ids(tasks) : n <= job'[p].max
    /\ pc'[p] = "next" => /\ pc[p] = "sync" /\ UNCHANGED tasks
                          /\ counter' = AtLeast(counter, job[p].max)

Healing == {"bump", "max", "sync", "next"}

LEMMA CreateHeals ==
  ASSUME WhoInv, NEW p \in Proc, Create(p)
  PROVE  Heals(p)
  <1>0. ProcOK /\ job[p] \in Job
    BY WhoParts
  <1>a. \A l, j : l \notin Healing /\ Continue(p, l, j) => Heals(p)
    BY <1>0, ContinueEffect DEF Heals, Healing
  <1>b. \A l : l \notin Healing /\ Goto(p, l) => Heals(p)
    BY <1>a DEF Goto
  <1>1. ASSUME NEW title \in Title, CheckTitle(p, title) PROVE Heals(p)
    BY <1>1, <1>a DEF CheckTitle, Healing
  <1>2. CASE Scan(p)
    <2>1. PICK n \in Ids(files[Tree[p]]) \cup {0} :
            /\ Largest(n, Ids(files[Tree[p]]))
            /\ Continue(p, "bump", [job[p] EXCEPT !.max =
                                      IF n > TaskIDSanityMax THEN 0 ELSE n])
      BY <1>2 DEF Scan
    <2> DEFINE m == IF n > TaskIDSanityMax THEN 0 ELSE n
               j == [job[p] EXCEPT !.max = m]
    <2>2. j.max = m /\ Continue(p, "bump", j)
      BY <1>0, <2>1 DEF Job
    <2> HIDE DEF j
    <2>3. pc'[p] = "bump" /\ job'[p].max = m
      BY <1>0, <2>2, ContinueEffect
    <2> QED BY <2>1, <2>3 DEF Heals
  <1>3. CASE Bump(p)
    <2>1. pc'[p] = "max" /\ pc[p] = "bump"
      BY <1>0, <1>3, GotoEffect DEF Bump
    <2>2. faults' = faults => counter' = AtLeast(counter, job[p].max)
      BY <1>3, WhoParts, TypeOKParts DEF Bump, Fault, WhoInv, IdInv, DataOK
    <2> QED BY <2>1, <2>2 DEF Heals
  <1>4. CASE ReadMax(p)
    <2>1. PICK n : Largest(n, Ids(tasks)) /\ Continue(p, "sync", [job[p] EXCEPT !.max = n])
      BY <1>4 DEF ReadMax
    <2> DEFINE j == [job[p] EXCEPT !.max = n]
    <2>2. j.max = n /\ Continue(p, "sync", j)
      BY <1>0, <2>1 DEF Job
    <2> HIDE DEF j
    <2>3. pc'[p] = "sync" /\ job'[p].max = n
      BY <1>0, <2>2, ContinueEffect
    <2> QED BY <1>4, <2>1, <2>3 DEF Heals, ReadMax, Largest
  <1>5. CASE SyncCounter(p)
    <2>1. CASE counter' = AtLeast(counter, job[p].max) /\ Goto(p, "next")
      <3>1. pc'[p] = "next"
        BY <1>0, <2>1, GotoEffect
      <3> QED BY <1>5, <2>1, <3>1 DEF Heals, SyncCounter
    <2> QED BY <1>5, <1>b, <2>1 DEF SyncCounter, Return, Healing
  <1>6. CASE NextCounter(p)
    BY <1>6, <1>a, <1>b DEF NextCounter, Return, Healing
  <1>7. CASE WriteFile(p)
    BY <1>7, <1>b DEF WriteFile, Return, Healing
  <1>8. CASE InsertRow(p)
    BY <1>8, <1>b DEF InsertRow, Return, Healing
  <1>9. CASE UndoFile(p)
    BY <1>9, <1>b DEF UndoFile, Return, Healing
  <1> QED
    BY <1>1, <1>2, <1>3, <1>4, <1>5, <1>6, <1>7, <1>8, <1>9 DEF Create

LEMMA ActsHeal ==
  ASSUME WhoInv, NEW p \in Proc, Acts(p)
  PROVE  Heals(p)
  <1>0. ProcOK
    BY WhoParts
  <1>a. \A l, j : l \notin Healing /\ Continue(p, l, j) => Heals(p)
    BY <1>0, ContinueEffect DEF Heals, Healing
  <1>b. \A l : l \notin Healing /\ Goto(p, l) => Heals(p)
    BY <1>a DEF Goto
  <1>1. CASE Page(p)
    BY <1>1, <1>a, <1>b DEF Page, ReadBacklog, WriteBacklog, ReadSummary, WriteSummary,
                            AfterListing, AfterSummary, Healing
  <1>2. CASE Sync(p)
    <2>1. ListFiles(p) => Heals(p)
      BY <1>a, <1>b DEF ListFiles, Healing
    <2>2. FindMissing(p) => Heals(p)
      BY <1>a, <1>b DEF FindMissing, Healing
    <2>3. FindUnlisted(p) => Heals(p)
      <3>1. FindUnlisted(p) => \E j : Continue(p, "ghosts", j)
        BY DEF FindUnlisted
      <3> QED BY <1>a, <3>1 DEF Healing
    <2>4. ReadRows(p) => Heals(p)
      BY <1>a, <1>b DEF ReadRows, Healing
    <2>5. FindOrphans(p) => Heals(p)
      BY <1>a, <1>b DEF FindOrphans, Healing
    <2>6. RepairRow(p) => Heals(p)
      BY <1>a, <1>b DEF RepairRow, Healing
    <2>7. Relist(p) => Heals(p)
      <3>1. Relist(p) => (\E j : Continue(p, "list", j)) \/ Goto(p, "purge")
        BY DEF Relist
      <3> QED BY <1>a, <1>b, <3>1 DEF Healing
    <2>8. Purge(p) => Heals(p)
      BY <1>a, <1>b DEF Purge, Healing
    <2> QED BY <1>2, <2>1, <2>2, <2>3, <2>4, <2>5, <2>6, <2>7, <2>8 DEF Sync
  <1>3. CASE Crash(p)
    BY <1>3, <1>b DEF Crash, Return, Healing
  <1> QED BY <1>1, <1>2, <1>3, CreateHeals DEF Acts

\* What failed has failed for good.
LEMMA FaultsStay ==
  ASSUME faults \in Nat, NEW p \in Proc, Acts(p), faults' = 0
  PROVE  faults = 0 /\ faults' = faults
  <1>1. UNCHANGED faults \/ Fault
    <2>1. CASE Create(p)
      BY <2>1 DEF Create, CheckTitle, Scan, Bump, ReadMax, SyncCounter, NextCounter,
                  WriteFile, InsertRow, UndoFile
    <2>2. CASE Page(p)
      BY <2>2 DEF Page, ReadBacklog, WriteBacklog, ReadSummary, WriteSummary
    <2>3. CASE Sync(p)
      BY <2>3 DEF Sync, ListFiles, FindMissing, FindUnlisted, ReadRows, FindOrphans,
                  RepairRow, Relist, Purge
    <2>4. CASE Crash(p)
      BY <2>4 DEF Crash
    <2> QED BY <2>1, <2>2, <2>3, <2>4 DEF Acts
  <1> QED BY <1>1 DEF Fault

Titled(x, a) == x.id = job[a].id => x.title = job[a].title

HealedRows  == \A a \in Proc :
    /\ pc[a] = "sync" => \A n \in Ids(tasks) : n <= counter \/ n <= job[a].max
    /\ pc[a] = "next" => \A n \in Ids(tasks) : n <= counter
HealedFiles == \A a \in Proc, n \in KnownFiles :
    /\ pc[a] = "bump" => n <= counter \/ n <= job[a].max
    /\ pc[a] \in {"max", "sync", "next"} => n <= counter
FiledBelow  == \A n \in Filed : n \in KnownFiles \/ n <= counter
AllStay     == \A v \in Worktree, n \in KnownFiles : n \in Ids(files[v])
OwnNames    == \A a \in Proc : Holds(a) =>
    /\ job[a].id \notin KnownFiles
    /\ \A x \in tasks : Titled(x, a)
    /\ \A v \in Worktree : \A x \in files[v] : Titled(x, a)
    /\ \A b \in Proc : \A x \in Listed(b) : Titled(x, a)

Clean  == HealedRows /\ HealedFiles /\ FiledBelow /\ AllStay /\ OwnNames
OwnInv == WhoInv /\ (faults = 0 => Clean)

LEMMA OwnInit == Init => OwnInv
  <1> SUFFICES ASSUME Init PROVE OwnInv
    OBVIOUS
  <1>1. \A a \in Proc : pc[a] = "idle" /\ job[a] = NoJob
    BY DEF Init
  <1>a. NoJob.seen = {} /\ NoJob.missing = {}
    BY DEF NoJob
  <1>2. \A a \in Proc : Listed(a) = {} /\ ~ Holds(a)
    BY <1>1, <1>a DEF Listed, Holds, Making
  <1>3. \A x \in Everywhere : \E n \in KnownFiles : x = KnownFile(n)
    BY DEF Init, Everywhere
  <1>4. \A n : KnownFile(n).id = n
    BY DEF KnownFile
  <1>5. \A n \in Filed : n \in KnownFiles
    BY <1>2, <1>3, <1>4 DEF Filed, Ids
  <1>6. \A n \in KnownFiles, v \in Worktree : KnownFile(n) \in files[v]
    BY DEF Init
  <1>7. AllStay
    BY <1>4, <1>6 DEF AllStay, Ids
  <1>8. Clean
    BY <1>1, <1>2, <1>5, <1>7 DEF Clean, HealedRows, HealedFiles, FiledBelow, OwnNames
  <1> QED BY <1>8, WhoInit DEF OwnInv

LEMMA Numbers ==
  ASSUME WhoInv, WhoInv', NEW p \in Proc, IdStep(p)
  PROVE  /\ counter \in Nat /\ counter' \in Nat /\ counter <= counter'
         /\ \A a \in Proc : job[a].id \in Nat /\ job[a].max \in Nat /\ job'[a].max \in Nat
         /\ \A n \in Ids(tasks) : n \in Nat
         /\ \A n \in Filed : n \in Nat
         /\ KnownFiles \subseteq Nat /\ TaskIDSanityMax \in Nat
         /\ Tree[p] \in Worktree /\ files \in [Worktree -> SUBSET Files]
  <1>1. \A a \in Proc : job[a].id \in Nat /\ job[a].max \in Nat /\ Listed(a) \subseteq Files
    BY TypeOKParts, JobTypes DEF WhoInv, IdInv, ProcOK, Listed
  <1>2. \A a \in Proc : job'[a].max \in Nat
    BY TypeOKParts, JobTypes DEF WhoInv, IdInv, ProcOK
  <1>3. Everywhere \subseteq Files
    BY DEF WhoInv, IdInv, TypeOK, Everywhere
  <1>4. Ids(Everywhere) \subseteq Nat /\ \A a \in Proc : Ids(Listed(a)) \subseteq Nat
    BY <1>1, <1>3, IdsType
  <1>5. Ids(tasks) \subseteq Nat
    BY TypeOKParts, IdsType DEF WhoInv, IdInv, DataOK
  <1>6. counter \in Nat /\ counter' \in Nat /\ counter <= counter'
    BY TypeOKParts DEF WhoInv, IdInv, DataOK, IdStep, Issued, Kept
  <1>7. /\ KnownFiles \subseteq Nat /\ TaskIDSanityMax \in Nat
        /\ Tree[p] \in Worktree /\ files \in [Worktree -> SUBSET Files]
    BY CreateAssumption DEF WhoInv, IdInv, TypeOK
  <1> QED BY <1>1, <1>2, <1>4, <1>5, <1>6, <1>7 DEF Filed

LEMMA HealedStep ==
  ASSUME WhoInv, WhoInv', Clean, NEW p \in Proc, IdStep(p), JobStep(p), StoreStep(p),
         Heals(p), faults' = faults, \A n \in KnownFiles : n <= TaskIDSanityMax
  PROVE  HealedRows' /\ HealedFiles' /\ FiledBelow'
  <1>0. /\ counter \in Nat /\ counter' \in Nat /\ counter <= counter'
        /\ \A a \in Proc : job[a].id \in Nat /\ job[a].max \in Nat /\ job'[a].max \in Nat
        /\ \A n \in Ids(tasks) : n \in Nat
        /\ \A n \in Filed : n \in Nat
        /\ KnownFiles \subseteq Nat /\ TaskIDSanityMax \in Nat
        /\ Tree[p] \in Worktree /\ files \in [Worktree -> SUBSET Files]
    BY Numbers
  <1>q. \A q \in Proc : q # p => pc'[q] = pc[q] /\ job'[q] = job[q]
    BY DEF IdStep, OthersRest
  <1>r. \A n \in Ids(tasks)' : n \in Ids(tasks) \/ n <= counter'
    <2>1. ASSUME NEW n \in Ids(tasks)' PROVE n \in Ids(tasks) \/ n <= counter'
      <3>1. PICK x \in tasks' : n = x.id
        BY <2>1 DEF Ids
      <3>2. CASE x \in tasks
        BY <3>1, <3>2 DEF Ids
      <3>3. CASE x \notin tasks
        <4>1. Inserted(p) \/ Repaired(p)
          BY <3>1, <3>3 DEF StoreStep, Wrote, Undid, Purged, Quiet
        <4>2. Inserted(p) => n = job[p].id /\ job[p].id <= counter
          BY <3>1, <3>3 DEF Inserted, WhoInv, IdInv, CreateLabel, Holds, Making
        <4>3. Repaired(p) => n <= counter'
          BY <3>1, <3>3 DEF Repaired
        <4> QED BY <1>0, <4>1, <4>2, <4>3
      <3> QED BY <3>2, <3>3
    <2> QED BY <2>1
  <1>l. AtLeast(counter, job[p].max) >= counter /\ AtLeast(counter, job[p].max) >= job[p].max
    BY <1>0, AtLeastType
  <1>1. HealedRows'
    <2>1. ASSUME NEW a \in Proc, pc'[a] = "sync", NEW n \in Ids(tasks)'
          PROVE  n <= counter' \/ n <= job'[a].max
      <3>1. CASE a = p
        BY <2>1, <3>1 DEF Heals, Ids
      <3>2. CASE a # p
        BY <1>0, <1>q, <1>r, <2>1, <3>2 DEF Clean, HealedRows
      <3> QED BY <3>1, <3>2
    <2>2. ASSUME NEW a \in Proc, pc'[a] = "next", NEW n \in Ids(tasks)'
          PROVE  n <= counter'
      <3>1. CASE a = p
        <4>1. pc[p] = "sync" /\ n \in Ids(tasks) /\ counter' = AtLeast(counter, job[p].max)
          BY <2>2, <3>1 DEF Heals, Ids
        <4>2. n <= counter \/ n <= job[p].max
          BY <4>1 DEF Clean, HealedRows
        <4> QED BY <1>0, <1>l, <4>1, <4>2
      <3>2. CASE a # p
        BY <1>0, <1>q, <1>r, <2>2, <3>2 DEF Clean, HealedRows
      <3> QED BY <3>1, <3>2
    <2> QED BY <2>1, <2>2 DEF HealedRows
  <1>2. HealedFiles'
    <2>1. ASSUME NEW a \in Proc, NEW n \in KnownFiles, a # p
          PROVE  /\ pc'[a] = "bump" => n <= counter' \/ n <= job'[a].max
                 /\ pc'[a] \in {"max", "sync", "next"} => n <= counter'
      BY <1>0, <1>q, <2>1 DEF Clean, HealedFiles
    <2>2. ASSUME NEW n \in KnownFiles, pc'[p] = "bump"
          PROVE  n <= counter' \/ n <= job'[p].max
      <3>1. PICK m \in Ids(files[Tree[p]]) \cup {0} :
              /\ Largest(m, Ids(files[Tree[p]]))
              /\ job'[p].max = IF m > TaskIDSanityMax THEN 0 ELSE m
        BY <2>2 DEF Heals
      <3>2. n \in Ids(files[Tree[p]]) /\ n <= m
        BY <1>0, <3>1 DEF Clean, AllStay, Largest
      <3>3. m = 0 \/ m \in Filed
        BY <1>0, <3>1 DEF Filed, Ids, Everywhere
      <3>4. m \in Nat /\ (m > TaskIDSanityMax => m <= counter)
        BY <1>0, <3>3 DEF Clean, FiledBelow
      <3> QED BY <1>0, <3>1, <3>2, <3>4
    <2>3. ASSUME NEW n \in KnownFiles, pc'[p] \in {"max", "sync", "next"}
          PROVE  n <= counter'
      <3>1. CASE pc'[p] = "max"
        <4>1. pc[p] = "bump" /\ counter' = AtLeast(counter, job[p].max)
          BY <3>1 DEF Heals
        <4>2. n <= counter \/ n <= job[p].max
          BY <4>1 DEF Clean, HealedFiles
        <4> QED BY <1>0, <1>l, <4>1, <4>2
      <3>2. CASE pc'[p] \in {"sync", "next"}
        BY <1>0, <3>2 DEF Heals, Clean, HealedFiles
      <3> QED BY <2>3, <3>1, <3>2
    <2> QED BY <2>1, <2>2, <2>3 DEF HealedFiles
  <1>3. FiledBelow'
    <2>1. Wrote(p) => job[p].id <= counter
      BY DEF Wrote, WhoInv, IdInv, CreateLabel, Holds, Making
    <2> QED BY <1>0, <2>1, FiledStep DEF Clean, FiledBelow
  <1> QED BY <1>1, <1>2, <1>3

LEMMA OwnNamesStep ==
  ASSUME WhoInv, WhoInv', Clean, NEW p \in Proc, IdStep(p), JobStep(p), StoreStep(p)
  PROVE  AllStay' /\ OwnNames'
  <1>0. /\ counter \in Nat
        /\ \A a \in Proc : job[a].id \in Nat
        /\ \A n \in Ids(tasks) : n \in Nat
        /\ \A n \in Filed : n \in Nat
        /\ KnownFiles \subseteq Nat
        /\ Tree[p] \in Worktree /\ files \in [Worktree -> SUBSET Files]
    BY Numbers
  <1>1. AllStay'
    <2> SUFFICES ASSUME NEW v \in Worktree, NEW n \in KnownFiles
                 PROVE  n \in Ids(files'[v])
      BY DEF AllStay
    <2>1. PICK x \in files[v] : n = x.id
      BY DEF Clean, AllStay, Ids
    <2>2. Undid(p) => job[p].id # n
      BY DEF Undid, WhoInv, CreateLabel, Clean, OwnNames, Holds, Making
    <2>3. x \in files'[v]
      <3>1. CASE Undid(p)
        <4>1. <<x.id, x.title>> # <<job[p].id, job[p].title>>
          BY <2>1, <2>2, <3>1
        <4> QED BY <1>0, <3>1, <4>1 DEF Undid
      <3>2. CASE ~ Undid(p)
        BY <1>0, <3>2 DEF StoreStep, Wrote, Inserted, Repaired, Purged, Quiet
      <3> QED BY <3>1, <3>2
    <2> QED BY <2>1, <2>3 DEF Ids
  <1>w. (Wrote(p) \/ Inserted(p)) => Holds(p)
    BY DEF Wrote, Inserted, WhoInv, CreateLabel, Holds, Making
  <1>s. \A x \in Listed(p)' : x \in Listed(p) \/ x \in files[Tree[p]]
    BY DEF JobStep, LooksOn
  \* Whoever holds a number after the step held it before, or takes a new one.
  <1>2. ASSUME NEW a \in Proc, Holds(a)', ~ (a = p /\ Writing(p)')
        PROVE  Holds(a) /\ job'[a].id = job[a].id /\ job'[a].title = job[a].title
    BY <1>2 DEF IdStep, OthersRest, Holds, JobStep, Holding
  <1>3. ASSUME NEW a \in Proc, Holds(a)', a = p, Writing(p)'
        PROVE  /\ job'[a].id \notin KnownFiles
               /\ \A x \in tasks' : x.id # job'[a].id
               /\ \A v \in Worktree : \A x \in files'[v] : x.id # job'[a].id
               /\ \A b \in Proc : \A x \in Listed(b)' : x.id # job'[a].id
    <2>1. /\ pc[p] = "next" /\ job'[p].id = counter + 1
          /\ UNCHANGED <<tasks, files>>
      BY <1>3 DEF JobStep, Starts
    <2>2. \A n \in KnownFiles : n <= counter
      BY <2>1 DEF Clean, HealedFiles
    <2>3. \A x \in tasks : x.id <= counter
      BY <2>1 DEF Clean, HealedRows, Ids
    <2>4. \A n \in Filed : n <= counter
      BY <2>2 DEF Clean, FiledBelow
    <2>5. \A v \in Worktree : \A x \in files[v] : x.id \in Filed
      BY DEF Filed, Ids, Everywhere
    <2>6. \A b \in Proc : \A x \in Listed(b) : x.id \in Filed
      BY DEF Filed, Ids
    <2>7. \A b \in Proc : \A x \in Listed(b)' : x.id \in Filed
      BY <1>0, <1>s, <2>5, <2>6 DEF IdStep, OthersRest, Listed
    <2>8. \A x \in tasks : x.id \in Nat
      BY <1>0 DEF Ids
    <2>9. \A n \in Filed : n \in Nat /\ n # counter + 1
      BY <1>0, <2>4
    <2>10. \A x \in tasks : x.id # counter + 1
      BY <1>0, <2>3, <2>8
    <2>11. counter + 1 \notin KnownFiles
      BY <1>0, <2>2
    <2> QED BY <1>3, <2>1, <2>5, <2>7, <2>9, <2>10, <2>11
  \* What appears bears the name of a Task that somebody else makes, or stems
  \* from a file that was seen.
  <1>4. ASSUME NEW a \in Proc, Holds(a), Holds(a)', job'[a].id = job[a].id,
               job'[a].title = job[a].title
        PROVE  /\ job'[a].id \notin KnownFiles
               /\ \A x \in tasks' : Titled(x, a)'
               /\ \A v \in Worktree : \A x \in files'[v] : Titled(x, a)'
               /\ \A b \in Proc : \A x \in Listed(b)' : Titled(x, a)'
    <2>0. /\ job[a].id \notin KnownFiles
          /\ \A x \in tasks : Titled(x, a)
          /\ \A v \in Worktree : \A x \in files[v] : Titled(x, a)
          /\ \A b \in Proc : \A x \in Listed(b) : Titled(x, a)
      BY <1>4 DEF Clean, OwnNames
    <2>t. \A x : Titled(x, a)' <=> Titled(x, a)
      BY <1>4 DEF Titled
    <2>1. \A x : x.id = job[p].id /\ x.title = job[p].title /\ Holds(p) => Titled(x, a)
      BY <1>4 DEF Titled, WhoInv, IdInv, DistinctIds
    <2>2. \A x \in tasks' : Titled(x, a)
      <3>1. ASSUME NEW x \in tasks', x \notin tasks PROVE Titled(x, a)
        <4>1. Inserted(p) \/ Repaired(p)
          BY <3>1 DEF StoreStep, Wrote, Undid, Purged, Quiet
        <4>2. Inserted(p) => x.id = job[p].id /\ x.title = job[p].title
          BY <3>1 DEF Inserted
        <4>3. Repaired(p) => \E f \in Listed(p) : x.id = f.id /\ x.title = f.title
          BY <3>1 DEF Repaired, Listed
        <4>4. \A f \in Listed(p) : x.id = f.id /\ x.title = f.title => Titled(x, a)
          BY <2>0 DEF Titled
        <4> QED BY <1>w, <2>1, <4>1, <4>2, <4>3, <4>4
      <3> QED BY <2>0, <3>1
    <2>3. \A v \in Worktree : \A x \in files'[v] : Titled(x, a)
      <3>1. ASSUME NEW v \in Worktree, NEW x \in files'[v], x \notin files[v]
            PROVE  Titled(x, a)
        <4>1. Wrote(p)
          BY <1>0, <3>1 DEF StoreStep, Inserted, Repaired, Undid, Purged, Quiet
        <4>2. x.id = job[p].id /\ x.title = job[p].title
          BY <1>0, <3>1, <4>1 DEF Wrote
        <4> QED BY <1>w, <2>1, <4>1, <4>2
      <3> QED BY <2>0, <3>1
    <2>4. \A b \in Proc : \A x \in Listed(b)' : Titled(x, a)
      BY <1>0, <1>s, <2>0 DEF IdStep, OthersRest, Listed
    <2> QED BY <1>4, <2>0, <2>t, <2>2, <2>3, <2>4
  <1>5. OwnNames'
    <2> SUFFICES ASSUME NEW a \in Proc, Holds(a)'
                 PROVE  /\ job'[a].id \notin KnownFiles
                        /\ \A x \in tasks' : Titled(x, a)'
                        /\ \A v \in Worktree : \A x \in files'[v] : Titled(x, a)'
                        /\ \A b \in Proc : \A x \in Listed(b)' : Titled(x, a)'
      BY DEF OwnNames
    <2>1. CASE a = p /\ Writing(p)'
      BY <1>3, <2>1 DEF Titled
    <2>2. CASE ~ (a = p /\ Writing(p)')
      BY <1>2, <1>4, <2>2
    <2> QED BY <2>1, <2>2
  <1> QED BY <1>1, <1>5

LEMMA OwnNext ==
  ASSUME \A n \in KnownFiles : n <= TaskIDSanityMax
  PROVE  OwnInv /\ [Next]_vars => OwnInv'
  <1> SUFFICES ASSUME OwnInv, [Next]_vars PROVE OwnInv'
    OBVIOUS
  <1>0. WhoInv' /\ faults \in Nat
    BY WhoNext, TypeOKParts DEF OwnInv, WhoInv, IdInv, DataOK
  <1>1. CASE UNCHANGED <<counter, tasks, files, pc, job, faults>>
    <2>1. Filed' = Filed
      BY <1>1 DEF Filed, Everywhere, Listed, Ids
    <2>2. Clean <=> Clean'
      BY <1>1, <2>1 DEF Clean, HealedRows, HealedFiles, FiledBelow, AllStay, OwnNames, Titled,
                        Holds, Listed, Ids
    <2> QED BY <1>0, <1>1, <2>2 DEF OwnInv
  <1>2. ASSUME NEW p \in Proc, Acts(p) PROVE OwnInv'
    <2>1. SUFFICES ASSUME faults' = 0 PROVE Clean'
      BY <1>0 DEF OwnInv
    <2>2. faults = 0 /\ faults' = faults /\ WhoInv /\ Clean
      BY <1>0, <1>2, <2>1, FaultsStay DEF OwnInv
    <2>3. IdStep(p) /\ JobStep(p) /\ StoreStep(p) /\ Heals(p)
      BY <1>2, <2>2, JobSteps, StoreSteps, ActsHeal
    <2> QED BY <1>0, <2>2, <2>3, HealedStep, OwnNamesStep DEF Clean
  <1> QED BY <1>1, <1>2 DEF Next, Tick, vars, Acts

\* While nothing fails, a row or a file, in whatever worktree, that bears the
\* identifier of a Task in the making is that Task's own, with any number of
\* syncs beside any number of creates, wherever the counter stood before and
\* whatever rows and files there were, as long as ScanPlaceholderTaskIDs believes
\* the files' numbers.
THEOREM IdsOwn ==
  ASSUME \A n \in KnownFiles : n <= TaskIDSanityMax
  PROVE  Spec => []OwnId
  <1>1. OwnInv => OwnId
    BY DEF OwnInv, Clean, OwnNames, OwnId, Titled, Everywhere
  <1>2. OwnInv /\ [Next]_vars => OwnInv'
    BY OwnNext
  <1> QED BY <1>1, <1>2, OwnInit, PTL DEF Spec

=============================================================================
