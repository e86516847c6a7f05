------------------------------- MODULE Stores -------------------------------
(***************************************************************************)
(* The two implementations of ports.GraphStore: SQLiteStore, which the     *)
(* program uses, and InMemoryStore, which tests put in its place and which *)
(* is documented as equivalent.  Both are given the same calls.            *)
(*                                                                         *)
(* An operation is an operator from a store to what it leaves and answers, *)
(* sql... for SQLiteStore and mem... for InMemoryStore.  The columns kept  *)
(* are those that some query selects or orders by; the time stamps are not *)
(* (but for the acknowledgements').                                        *)
(***************************************************************************)
EXTENDS Integers, Sequences, FiniteSets, FiniteSetsExt, SequencesExt

CONSTANTS
    TaskId,         \* a set of numbers
    SprintId,
    Priority,       \* a sequence of priorities, the highest first
    Seeds,          \* tables to start with
    MaxCalls, MaxMinute,
    NoRow,
    Null            \* of SQL

VARIABLES
    sql, mem,       \* the two stores
    minute,         \* the clock, for acknowledgements
    made,           \* calls so far
    alike           \* history: so far both have answered the same, and no
                    \* call has hit a difference that its answer hides

storeVars == <<sql, mem, minute, made, alike>>

Blank == ""
TaskStatus == {"todo", "in-progress", "done", "archived", "superseded"}
SprintStatus == {"backlog", "active"}
Path == {Blank, "loose", "backlog", "active"}       \* the folder a path leads into
HarnessItem == {"build", "tests"}

TaskRow == [status : TaskStatus, sprint : SprintId \cup {Blank, Null}, path : Path,
            priority : Range(Priority)]
SprintRow == [status : SprintStatus, path : Path, title : {"a", "b"}]
Store == [tasks : [TaskId -> TaskRow \cup {NoRow}],
          sprints : [SprintId -> SprintRow \cup {NoRow}],
          counter : Nat,
          items : [TaskId -> [HarnessItem -> {"absent", "open", "done"}]],
          tickets : [TaskId -> {Blank, "WT"}],
          acked : 0..MaxMinute \cup {NoRow},     \* of one ticket and hash
          secret : {NoRow, "made", "rotated"}]

\* The tables to start with are tables, and no Task that is not there has a ticket.
StoresAssumption ==
    /\ TaskId \subseteq Nat /\ IsFiniteSet(TaskId) /\ Priority \in Seq(Range(Priority))
    /\ {Null, Blank} \cap SprintId = {} /\ Null # Blank /\ NoRow \notin TaskRow
    /\ \A d \in Seeds :
          d \in Store /\ \A t \in TaskId : d.tasks[t] = NoRow => d.tickets[t] = Blank

TypeOK ==
    /\ sql \in Store /\ mem \in Store
    /\ made \in 0..MaxCalls

has(d, t) == d.tasks[t] # NoRow

Init ==
    /\ sql \in Seeds
    /\ mem = [sql EXCEPT !.tasks = [t \in TaskId |->
                IF has(sql, t) /\ sql.tasks[t].sprint = Null
                THEN [sql.tasks[t] EXCEPT !.sprint = Blank] ELSE sql.tasks[t]]]
    /\ minute = 0 /\ made = 0 /\ alike = TRUE

\* What an operation leaves, whether it succeeds and what it returns.
done(d) == [store |-> d, ok |-> TRUE, value |-> 0]
refused(d) == [store |-> d, ok |-> FALSE, value |-> 0]
valued(d, v) == [store |-> d, ok |-> TRUE, value |-> v]

Larger(a, b) == IF a > b THEN a ELSE b
noItems == [i \in HarnessItem |-> "absent"]

-----------------------------------------------------------------------------
(* SQLiteStore: Sprints. *)

sqlSaveSprint(d, p, r) == done([d EXCEPT !.sprints[p] = r])
sqlUpsertSprintInsert(d, p, r) == done([d EXCEPT !.sprints[p] = r])
sqlInsertSprintIfMissing(d, p, r) ==
    done(IF d.sprints[p] = NoRow THEN [d EXCEPT !.sprints[p] = r] ELSE d)

\* An UPDATE of no row is no error.
sqlUpdateSprintStatus(d, p, status, path) ==
    done(IF d.sprints[p] = NoRow THEN d
         ELSE [d EXCEPT !.sprints[p].status = status,
                        !.sprints[p].path = IF path = Blank THEN @ ELSE path])
sqlUpdateSprintMetadata(d, p, title, path, status) ==
    done(IF d.sprints[p] = NoRow THEN d
         ELSE [d EXCEPT !.sprints[p].status = IF status = Blank THEN @ ELSE status,
                        !.sprints[p].title = IF title = Blank THEN @ ELSE title,
                        !.sprints[p].path = IF path = Blank THEN @ ELSE path])

\* A path names its folder once.
moved(path, from, to) == IF path = from THEN to ELSE path
sqlUpdateTaskPathsForSprint(d, p, from, to) ==
    done([d EXCEPT !.tasks = [t \in TaskId |->
            IF has(d, t) /\ d.tasks[t].sprint = p
            THEN [d.tasks[t] EXCEPT !.path = moved(@, from, to)] ELSE d.tasks[t]]])

(* SQLiteStore: Tasks. *)

\* The sprint of a Task of none is NULL ...
orNull(sprint) == IF sprint = Blank THEN Null ELSE sprint
sqlInserted(d, t, r, ticket) ==
    IF has(d, t) THEN d
    ELSE [d EXCEPT !.tasks[t] = [r EXCEPT !.sprint = orNull(@)], !.tickets[t] = ticket]

sqlCreateTask(d, t, r, ticket) ==
    IF has(d, t) THEN refused(d) ELSE done(sqlInserted(d, t, r, ticket))

sqlUpsertTaskInsert(d, t, r, ticket) ==
    done([sqlInserted(d, t, r, ticket) EXCEPT !.counter = Larger(@, t)])

\* ... except here, where it is the empty string.
sqlInsertTaskAndSyncCounter(d, t, r) ==
    done([d EXCEPT !.counter = Larger(@, t), !.tasks[t] = IF @ = NoRow THEN r ELSE @])

sqlSet(d, t, field, v) == done(IF has(d, t) THEN [d EXCEPT !.tasks[t][field] = v] ELSE d)
sqlUpdateTaskFilePath(d, t, path) == sqlSet(d, t, "path", path)
sqlUpdateTaskStatus(d, t, status) == sqlSet(d, t, "status", status)
sqlUpdateTaskStatusDirect(d, t, status) == sqlSet(d, t, "status", status)
sqlUpdateTaskSprint(d, t, sprint) == sqlSet(d, t, "sprint", sprint)

\* One statement for each field that is named.
sqlUpdateTaskDirect(d, t, field, v) ==
    sqlSet(d, t, field, IF field = "sprint" THEN orNull(v) ELSE v)

sqlTransitionTaskStatus(d, t, expected, status) ==
    IF has(d, t) /\ d.tasks[t].status = expected THEN sqlSet(d, t, "status", status)
    ELSE refused(d)

\* fileOp fails, or returns a path or none.
sqlTransitionTaskAtomic(d, t, expected, status, fileOp) ==
    IF ~has(d, t) \/ d.tasks[t].status # expected \/ fileOp = "fails" THEN refused(d)
    ELSE done([d EXCEPT !.tasks[t].status = status,
                        !.tasks[t].path = IF fileOp = Blank THEN @ ELSE fileOp])

\* Items and acknowledgements stay.
sqlDeleteTask(d, t) == done([d EXCEPT !.tasks[t] = NoRow, !.tickets[t] = Blank])

sqlArchiveTasks(d, ts) ==
    done([d EXCEPT !.tasks = [t \in TaskId |->
            IF t \in ts /\ has(d, t) THEN [@[t] EXCEPT !.status = "archived"] ELSE @[t]]])

(* SQLiteStore: counters, items, tickets. *)

highest(d) == Max({0} \cup {t \in TaskId : has(d, t)})
sqlHealAndGetNextTaskID(d) ==
    LET n == Larger(d.counter, highest(d)) + 1 IN valued([d EXCEPT !.counter = n], n)
sqlNextCounter(d) == valued([d EXCEPT !.counter = @ + 1], d.counter + 1)
sqlBumpTaskCounter(d, n) == done([d EXCEPT !.counter = Larger(@, n)])
sqlSetCounterMax(d, n) == done([d EXCEPT !.counter = Larger(@, n)])

sqlEnsureHarnessItems(d, t, is) ==
    done([d EXCEPT !.items[t] = [i \in HarnessItem |->
            IF i \in is /\ @[i] = "absent" THEN "open" ELSE @[i]]])
sqlCheckHarnessItem(d, t, i) ==
    done([d EXCEPT !.items[t][i] = IF @ = "absent" THEN @ ELSE "done"])
sqlResetTaskHarness(d, t) == done([d EXCEPT !.items[t] = noItems])
sqlDeleteHarnessItemsForEntity(d, t) == done([d EXCEPT !.items[t] = noItems])

sqlSetTaskWorkTicket(d, t, ticket) ==
    done([d EXCEPT !.tickets[t] = IF has(d, t) THEN ticket ELSE @])
sqlInsertContextAck(d) == done([d EXCEPT !.acked = IF @ = NoRow THEN minute ELSE @])
sqlEnsureProjectSecret(d) == done([d EXCEPT !.secret = IF @ = NoRow THEN "made" ELSE @])
sqlRotateProjectSecret(d) == done([d EXCEPT !.secret = IF @ = NoRow THEN @ ELSE "rotated"])

-----------------------------------------------------------------------------
(* InMemoryStore: Sprints. *)

memSaveSprint(d, p, r) == done([d EXCEPT !.sprints[p] = r])
memUpsertSprintInsert(d, p, r) == memSaveSprint(d, p, r)
memInsertSprintIfMissing(d, p, r) ==
    done(IF d.sprints[p] = NoRow THEN [d EXCEPT !.sprints[p] = r] ELSE d)

\* What does not exist is an error here.
memUpdateSprintStatus(d, p, status, path) ==
    IF d.sprints[p] = NoRow THEN refused(d)
    ELSE done([d EXCEPT !.sprints[p].status = status,
                        !.sprints[p].path = IF path = Blank THEN @ ELSE path])
memUpdateSprintMetadata(d, p, title, path, status) ==
    IF d.sprints[p] = NoRow THEN refused(d)
    ELSE done([d EXCEPT !.sprints[p].status = IF status = Blank THEN @ ELSE status,
                        !.sprints[p].title = IF title = Blank THEN @ ELSE title,
                        !.sprints[p].path = IF path = Blank THEN @ ELSE path])
memUpdateTaskPathsForSprint(d, p, from, to) ==
    done([d EXCEPT !.tasks = [t \in TaskId |->
            IF has(d, t) /\ d.tasks[t].sprint = p
            THEN [d.tasks[t] EXCEPT !.path = moved(@, from, to)] ELSE d.tasks[t]]])

(* InMemoryStore: Tasks. *)

\* The record's ticket is not kept.
memCreateTask(d, t, r) ==
    IF has(d, t) THEN refused(d) ELSE done([d EXCEPT !.tasks[t] = r])
memUpsertTaskInsert(d, t, r) ==
    done([d EXCEPT !.tasks[t] = IF @ = NoRow THEN r ELSE @, !.counter = Larger(@, t)])
memInsertTaskAndSyncCounter(d, t, r) ==
    IF has(d, t) THEN refused(d)
    ELSE done([d EXCEPT !.tasks[t] = r, !.counter = Larger(@, t)])

memSet(d, t, field, v) ==
    IF has(d, t) THEN done([d EXCEPT !.tasks[t][field] = v]) ELSE refused(d)
memUpdateTaskFilePath(d, t, path) == memSet(d, t, "path", path)
memUpdateTaskStatusDirect(d, t, status) == memSet(d, t, "status", status)
memUpdateTaskStatus(d, t, status) == memUpdateTaskStatusDirect(d, t, status)
memUpdateTaskSprint(d, t, sprint) == memSet(d, t, "sprint", IF sprint = Null THEN Blank ELSE sprint)
memUpdateTaskDirect(d, t, field, v) == memSet(d, t, field, v)
memTransitionTaskStatus(d, t, expected, status) ==
    IF has(d, t) /\ d.tasks[t].status = expected THEN memSet(d, t, "status", status)
    ELSE refused(d)

\* Mutant of memTransitionTaskAtomic: a failure does not restore the status.
memTransitionTaskKept(d, t, expected, status, fileOp) ==
    IF ~has(d, t) \/ d.tasks[t].status # expected THEN refused(d)
    ELSE IF fileOp = "fails" THEN refused([d EXCEPT !.tasks[t].status = status])
    ELSE done([d EXCEPT !.tasks[t].status = status,
                        !.tasks[t].path = IF fileOp = Blank THEN @ ELSE fileOp])

memTransitionTaskAtomic(d, t, expected, status, fileOp) ==
    IF ~has(d, t) \/ d.tasks[t].status # expected \/ fileOp = "fails" THEN refused(d)
    ELSE done([d EXCEPT !.tasks[t].status = status,
                        !.tasks[t].path = IF fileOp = Blank THEN @ ELSE fileOp])

\* Items and the ticket go with the Task.
memDeleteTask(d, t) ==
    done([d EXCEPT !.tasks[t] = NoRow, !.items[t] = noItems, !.tickets[t] = Blank])
memArchiveTasks(d, ts) ==
    done([d EXCEPT !.tasks = [t \in TaskId |->
            IF t \in ts /\ has(d, t) THEN [@[t] EXCEPT !.status = "archived"] ELSE @[t]]])

(* InMemoryStore: counters, items, tickets. *)

memHealAndGetNextTaskID(d) ==
    LET n == Larger(d.counter, highest(d)) + 1 IN valued([d EXCEPT !.counter = n], n)
memNextCounter(d) == valued([d EXCEPT !.counter = @ + 1], d.counter + 1)
memBumpTaskCounter(d, n) == done([d EXCEPT !.counter = IF @ < n THEN n ELSE @])
memSetCounterMax(d, n) == done([d EXCEPT !.counter = IF n > @ THEN n ELSE @])

memEnsureHarnessItems(d, t, is) ==
    done([d EXCEPT !.items[t] = [i \in HarnessItem |->
            IF i \in is /\ @[i] = "absent" THEN "open" ELSE @[i]]])
memCheckHarnessItem(d, t, i) ==
    IF d.items[t][i] = "absent" THEN refused(d) ELSE done([d EXCEPT !.items[t][i] = "done"])
memResetTaskHarness(d, t) == done([d EXCEPT !.items[t] = noItems])
memDeleteHarnessItemsForEntity(d, t) == done([d EXCEPT !.items[t] = noItems])

memSetTaskWorkTicket(d, t, ticket) == done([d EXCEPT !.tickets[t] = ticket])
memInsertContextAck(d) == done([d EXCEPT !.acked = IF @ = NoRow THEN minute ELSE @])
memEnsureProjectSecret(d) == done([d EXCEPT !.secret = IF @ = NoRow THEN "made" ELSE @])
memRotateProjectSecret(d) == done([d EXCEPT !.secret = "rotated"])

-----------------------------------------------------------------------------
(* Calls. *)

\* One call of both; `hidden` when the answer hides a difference.
Call(s, m, hidden) ==
    /\ made < MaxCalls
    /\ sql' = s.store /\ mem' = m.store
    /\ made' = made + 1
    /\ alike' = (alike /\ s.ok = m.ok /\ s.value = m.value /\ ~hidden)
    /\ UNCHANGED minute

NewTask == [status : {"todo"}, sprint : SprintId \cup {Blank}, path : {"loose"},
            priority : Range(Priority)]

WriteSprint(p) ==
    \/ \E st \in SprintStatus :
         LET r == [status |-> st, path |-> "backlog", title |-> "a"]
         IN  \/ Call(sqlSaveSprint(sql, p, r), memSaveSprint(mem, p, r), FALSE)
             \/ Call(sqlUpsertSprintInsert(sql, p, r), memUpsertSprintInsert(mem, p, r), FALSE)
             \/ Call(sqlInsertSprintIfMissing(sql, p, r), memInsertSprintIfMissing(mem, p, r), FALSE)
    \/ \E st \in SprintStatus, path \in {Blank, "active"} :
         Call(sqlUpdateSprintStatus(sql, p, st, path), memUpdateSprintStatus(mem, p, st, path), FALSE)
    \/ \E st \in SprintStatus \cup {Blank}, path \in {Blank, "active"}, title \in {Blank, "b"} :
         Call(sqlUpdateSprintMetadata(sql, p, title, path, st),
              memUpdateSprintMetadata(mem, p, title, path, st), FALSE)
    \/ Call(sqlUpdateTaskPathsForSprint(sql, p, "loose", "active"),
            memUpdateTaskPathsForSprint(mem, p, "loose", "active"), FALSE)

InsertTask(t) ==
    \E r \in NewTask :
        \/ \E k \in {Blank, "WT"} :
             \/ Call(sqlCreateTask(sql, t, r, k), memCreateTask(mem, t, r), k # Blank /\ ~has(sql, t))
             \/ Call(sqlUpsertTaskInsert(sql, t, r, k), memUpsertTaskInsert(mem, t, r),
                     k # Blank /\ ~has(sql, t))
        \/ Call(sqlInsertTaskAndSyncCounter(sql, t, r), memInsertTaskAndSyncCounter(mem, t, r), FALSE)

ChangeTask(t) ==
    \/ Call(sqlUpdateTaskFilePath(sql, t, "active"), memUpdateTaskFilePath(mem, t, "active"), FALSE)
    \/ \E p \in SprintId \cup {Blank, Null} :
         Call(sqlUpdateTaskSprint(sql, t, p), memUpdateTaskSprint(mem, t, p), FALSE)
    \/ \E st \in {"in-progress", "done"} :
         \/ Call(sqlUpdateTaskStatus(sql, t, st), memUpdateTaskStatus(mem, t, st), FALSE)
         \/ Call(sqlUpdateTaskStatusDirect(sql, t, st), memUpdateTaskStatusDirect(mem, t, st), FALSE)
         \/ Call(sqlTransitionTaskStatus(sql, t, "todo", st),
                 memTransitionTaskStatus(mem, t, "todo", st), FALSE)
         \/ \E op \in {"fails", Blank, "active"} :
              Call(sqlTransitionTaskAtomic(sql, t, "todo", st, op),
                   memTransitionTaskAtomic(mem, t, "todo", st, op), FALSE)
    \/ \E fv \in {<<"status", "superseded">>, <<"path", "backlog">>, <<"sprint", Blank>>}
                 \cup {<<"sprint", p>> : p \in SprintId}
                 \cup {<<"priority", v>> : v \in Range(Priority)} :
         Call(sqlUpdateTaskDirect(sql, t, fv[1], fv[2]), memUpdateTaskDirect(mem, t, fv[1], fv[2]), FALSE)
    \/ Call(sqlDeleteTask(sql, t), memDeleteTask(mem, t), sql.items[t] # noItems)
    \/ Call(sqlArchiveTasks(sql, {t}), memArchiveTasks(mem, {t}), FALSE)

CallCounter ==
    \/ Call(sqlHealAndGetNextTaskID(sql), memHealAndGetNextTaskID(mem), FALSE)
    \/ Call(sqlNextCounter(sql), memNextCounter(mem), FALSE)
    \/ \E n \in TaskId :
         \/ Call(sqlBumpTaskCounter(sql, n), memBumpTaskCounter(mem, n), FALSE)
         \/ Call(sqlSetCounterMax(sql, n), memSetCounterMax(mem, n), FALSE)

CallHarness(t) ==
    \/ \E is \in {{"build"}, HarnessItem} :
         Call(sqlEnsureHarnessItems(sql, t, is), memEnsureHarnessItems(mem, t, is), FALSE)
    \/ \E i \in HarnessItem :
         Call(sqlCheckHarnessItem(sql, t, i), memCheckHarnessItem(mem, t, i), FALSE)
    \/ Call(sqlResetTaskHarness(sql, t), memResetTaskHarness(mem, t), FALSE)
    \/ Call(sqlDeleteHarnessItemsForEntity(sql, t), memDeleteHarnessItemsForEntity(mem, t), FALSE)
    \/ Call(sqlSetTaskWorkTicket(sql, t, "WT"), memSetTaskWorkTicket(mem, t, "WT"), ~has(sql, t))

CallProject ==
    \/ Call(sqlInsertContextAck(sql), memInsertContextAck(mem), FALSE)
    \/ Call(sqlEnsureProjectSecret(sql), memEnsureProjectSecret(mem), FALSE)
    \/ Call(sqlRotateProjectSecret(sql), memRotateProjectSecret(mem), sql.secret = NoRow)

Minute ==
    /\ minute < MaxMinute
    /\ minute' = minute + 1
    /\ UNCHANGED <<sql, mem, made, alike>>

Next ==
    \/ \E p \in SprintId : WriteSprint(p)
    \/ \E t \in TaskId : InsertTask(t) \/ ChangeTask(t) \/ CallHarness(t)
    \/ CallCounter \/ CallProject \/ Minute

Spec == Init /\ [][Next]_storeVars

-----------------------------------------------------------------------------
(* Queries. *)

rows(d) == {t \in TaskId : has(d, t)}
Unfiltered == "any"
Filter == [sprint : SprintId \cup {Blank, Unfiltered}, status : {"todo", Unfiltered},
           priority : Range(Priority) \cup {Unfiltered}]

rank(p) == CHOOSE i \in 1..Len(Priority) : Priority[i] = p
byId(S) == {xy \in S \X S : xy[1] < xy[2]}
byPriority(d, S) ==
    {xy \in S \X S :
        LET a == rank(d.tasks[xy[1]].priority) b == rank(d.tasks[xy[2]].priority)
        IN  a < b \/ (a = b /\ xy[1] < xy[2])}
ordered(S, less) ==
    CHOOSE list \in [1..Cardinality(S) -> S] :
        \A i, j \in 1..Cardinality(S) : i < j => <<list[i], list[j]>> \in less

matches(d, t, f) ==
    /\ f.sprint # Unfiltered => d.tasks[t].sprint = f.sprint
    /\ f.status # Unfiltered => d.tasks[t].status = f.status
    /\ f.priority # Unfiltered => d.tasks[t].priority = f.priority

cut(list, limit) == IF limit = 0 THEN list ELSE SubSeq(list, 1, Min({limit, Len(list)}))

\* ListTasks and ListTasksFiltered: `sprint = ''` is true of no NULL.  Tasks
\* are created in the order of their numbers.
matching(d, f) == {t \in rows(d) : matches(d, t, f)}
sqlListTasks(d, f, limit) == cut(ordered(matching(d, f), byPriority(d, matching(d, f))), limit)
memListTasks(d, f, limit) == cut(ordered(matching(d, f), byId(matching(d, f))), limit)

\* NextTask: what may be the first row of the query; one of no active Sprint
\* is not looked at when there is an active one.
sqlNextTask(d) ==
    LET active == {p \in SprintId : d.sprints[p] # NoRow /\ d.sprints[p].status = "active"}
        todo == {t \in rows(d) : /\ d.tasks[t].status = "todo"
                                 /\ active # {} => d.tasks[t].sprint \in active}
    IN  {t \in todo : \A u \in todo : ~(rank(d.tasks[u].priority) < rank(d.tasks[t].priority))}
memNextTask(d) ==
    LET todo == {t \in rows(d) : d.tasks[t].status = "todo"}
    IN  {t \in todo : \A u \in todo : t <= u}

\* AggregateSprintProgress: Tasks in other states count for one only.
counted(d, p, st) == Cardinality({t \in rows(d) : d.tasks[t].sprint = p /\ d.tasks[t].status = st})
sqlAggregateSprintProgress(d, p) ==
    LET total == counted(d, p, "done") + counted(d, p, "in-progress") + counted(d, p, "todo")
    IN  [total |-> total, open |-> counted(d, p, "todo"),
         percent |-> IF total = 0 THEN 0 ELSE (counted(d, p, "done") * 100) \div total]
memAggregateSprintProgress(d, p) ==
    LET total == Cardinality({t \in rows(d) : d.tasks[t].sprint = p})
    IN  [total |-> total, open |-> counted(d, p, "todo"),
         percent |-> IF total = 0 THEN 0 ELSE (counted(d, p, "done") * 100) \div total]

\* Mutant of sqlGetBacklogTasks: NULL is not looked for.
sqlGetBacklogTasksEmpty(d, started) ==
    {t \in rows(d) : \/ d.tasks[t].sprint = Blank /\ d.tasks[t].status = "todo"
                     \/ started /\ d.tasks[t].status = "in-progress"}

\* GetBacklogTasks: OR binds less than AND.
sqlGetBacklogTasks(d, started) ==
    {t \in rows(d) : \/ d.tasks[t].sprint \in {Blank, Null} /\ d.tasks[t].status = "todo"
                     \/ started /\ d.tasks[t].status = "in-progress"}
memGetBacklogTasks(d, started) ==
    {t \in rows(d) : /\ d.tasks[t].sprint = Blank
                     /\ \/ d.tasks[t].status = "todo"
                        \/ started /\ d.tasks[t].status = "in-progress"}

sqlGetNonArchivedTasks(d) == {t \in rows(d) : d.tasks[t].status \notin {"archived", "superseded"}}
memGetNonArchivedTasks(d) == {t \in rows(d) : ~(d.tasks[t].status = "archived"
                                                \/ d.tasks[t].status = "superseded")}
sqlGetSprintTaskCounts(d) ==
    [p \in {d.tasks[t].sprint : t \in rows(d)} \ {Null, Blank} |->
        Cardinality({t \in rows(d) : d.tasks[t].sprint = p})]
memGetSprintTaskCounts(d) ==
    [p \in {d.tasks[t].sprint : t \in rows(d)} \ {Blank} |->
        Cardinality({t \in rows(d) : d.tasks[t].sprint = p})]
sqlGetSprintTaskFilePaths(d, p) ==
    {t \in rows(d) : d.tasks[t].sprint = p /\ d.tasks[t].path # Blank}
memGetSprintTaskFilePaths(d, p) ==
    {t \in rows(d) : d.tasks[t].sprint = p /\ d.tasks[t].path # Blank}

\* HasContextAckFresh.
sqlHasContextAckFresh(d, ttl) == d.acked # NoRow /\ (ttl > 0 => d.acked >= minute - ttl)
memHasContextAckFresh(d, ttl) == d.acked # NoRow /\ (ttl > 0 => ~(d.acked < minute - ttl))

-----------------------------------------------------------------------------
(* Properties. *)

\* As long as no call has named what does not exist, inserted a Task twice,
\* deleted a Task with items, set a ticket at an insertion or rotated a secret
\* there is not, the two stores hold the same ("Semantically equivalent",
\* inmemory_store.go): these are all the differences of the writing calls.
TablesAgree ==
    alike =>
        /\ mem = [sql EXCEPT !.tasks = [t \in TaskId |->
                    IF has(sql, t) /\ sql.tasks[t].sprint = Null
                    THEN [sql.tasks[t] EXCEPT !.sprint = Blank] ELSE sql.tasks[t]]]

onePriority == Cardinality({sql.tasks[t].priority : t \in rows(sql)}) <= 1

\* And then they answer queries alike, but for a filter for no Sprint, for the
\* order and choice among priorities, for an active Sprint in NextTask, for
\* progress with archived or superseded Tasks, and for assigned Tasks in
\* progress among those of the backlog.
AnswersAgree ==
    alike =>
        /\ \A f \in Filter : f.sprint # Blank =>
              /\ Range(sqlListTasks(sql, f, 0)) = Range(memListTasks(mem, f, 0))
              /\ onePriority => sqlListTasks(sql, f, 1) = memListTasks(mem, f, 1)
        /\ onePriority /\ (\A p \in SprintId : sql.sprints[p] # NoRow => sql.sprints[p].status # "active")
              => memNextTask(mem) \subseteq sqlNextTask(sql)
        /\ \A p \in SprintId :
              /\ (\A t \in rows(sql) : sql.tasks[t].status \in {"todo", "in-progress", "done"})
                 => sqlAggregateSprintProgress(sql, p) = memAggregateSprintProgress(mem, p)
              /\ sqlGetSprintTaskFilePaths(sql, p) = memGetSprintTaskFilePaths(mem, p)
        /\ sqlGetBacklogTasks(sql, FALSE) = memGetBacklogTasks(mem, FALSE)
        /\ (\A t \in rows(sql) : sql.tasks[t].status = "in-progress" => sql.tasks[t].sprint \in {Blank, Null})
              => sqlGetBacklogTasks(sql, TRUE) = memGetBacklogTasks(mem, TRUE)
        /\ sqlGetNonArchivedTasks(sql) = memGetNonArchivedTasks(mem)
        /\ sqlGetSprintTaskCounts(sql) = memGetSprintTaskCounts(mem)
        /\ \A ttl \in 0..1 : sqlHasContextAckFresh(sql, ttl) = memHasContextAckFresh(mem, ttl)

\* `brief` lists the backlog's Tasks to do: ListTasks with sprint "" and
\* status "todo" finds every Task of no Sprint that is to do.
BacklogListed ==
    {t \in rows(sql) : sql.tasks[t].status = "todo" /\ sql.tasks[t].sprint \in {Blank, Null}}
    \subseteq Range(sqlListTasks(sql, [sprint |-> Blank, status |-> "todo", priority |-> Unfiltered], 0))

\* Both together: the double holds and answers what the SQLite store does.
StoresAlike == TablesAgree /\ AnswersAgree
=============================================================================
