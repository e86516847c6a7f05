------------------------------ MODULE AuditLog ------------------------------
(***************************************************************************)
(* The audit log: the table audit_events, whose rows are chained by hashes *)
(* (AppendAuditEvent), its readers, and `hstl-oss audit restore`, which    *)
(* rebuilds completion events from git.  Commands are processes; they      *)
(* share the SQLite database in WAL mode and the completed/ folders.       *)
(*                                                                         *)
(* A step is one statement that commits by itself, one statement of the    *)
(* append's transaction, or one look at the files.  The change a command   *)
(* makes before it logs (TaskLifecycle, SprintLifecycle) is one step here. *)
(*                                                                         *)
(* SHA-256 is modelled as injective: the hash of a predecessor's hash and  *)
(* of a row is the sequence of the former with the latter appended.        *)
(***************************************************************************)
EXTENDS Integers, Sequences, FiniteSets

CONSTANTS
    Proc,        \* processes running a command
    Commands,    \* the commands each of them issues
    Task, Sprint,
    Untracked,   \* Tasks and Sprints whose completed file git does not know
    FirstCommit, \* when git first saw the file of any other
    Legacy,      \* rows written before the hash columns existed
    Day, Zone,   \* ticks of a day; offset of the committer's clock from UTC
    RetryMax,    \* dblock's retryMax
    MaxTime, MaxEvents, MaxFaults,
    NoProc, NoKey, Null

Key == Task \cup Sprint
AllCommands == {"complete", "reopen", "assign", "finish", "restore", "preview"}

ASSUME AuditAssumption ==
    /\ NoProc \notin Proc
    /\ NoKey \notin Key
    /\ Legacy \in Nat
    /\ Day \in Nat \ {0} /\ Zone \in Nat /\ RetryMax \in Nat
    /\ FirstCommit \in [Key -> Nat]
    /\ Commands \in [Proc -> SUBSET AllCommands]

VARIABLES
    columns,     \* which hash columns audit_events has
    events,      \* the committed rows; a row's id is its position
    lock,        \* the process in a write transaction
    done,        \* Tasks and Sprints whose file is in a completed/ folder
    clock,
    pc, job,
    faults,
    changes      \* history: how often each change took effect

vars == <<columns, events, lock, done, clock, pc, job, faults, changes>>

Columns == {"prev_hash", "event_hash"}
Act == {"completed", "reopened", "assigned"}

\* A row's payload; zoned timestamps are git's, in the committer's zone.
Body == [act : Act, key : Key, by : {"command", "restore"},
         stamp : Nat, zoned : BOOLEAN]
Link == [id : Nat, body : Body]
Event == [body : Body, prev : Seq(Link), hash : Seq(Link) \cup {Null}]

ASSUME NullAssumption == Null \notin Seq(Link)

Label == {"idle", "look_prev", "add_prev", "look_event", "add_event", "change",
          "sprints", "tasks", "next", "insert", "link", "commit"}
NoBody == [act |-> "none"]
Job == [cmd : AllCommands \cup {"none"}, key : Key \cup {NoKey},
        body : Body \cup {NoBody}, prev : Seq(Link), hash : Seq(Link),
        list : SUBSET Key, kept : SUBSET Key, phase : {"sprints", "tasks"},
        tries : 0..RetryMax]
NoJob == [cmd |-> "none", key |-> NoKey, body |-> NoBody, prev |-> <<>>,
          hash |-> <<>>, list |-> {}, kept |-> {}, phase |-> "sprints", tries |-> 0]

TypeOK ==
    /\ columns \subseteq Columns
    /\ events \in Seq(Event)
    /\ lock \in Proc \cup {NoProc}
    /\ done \subseteq Key
    /\ clock \in Nat
    /\ pc \in [Proc -> Label]
    /\ job \in [Proc -> Job]
    /\ faults \in Nat
    /\ changes \in [Act -> [Key -> Nat]]

\* A database of before the hash columns, or one of today.
Init ==
    \E k \in Key :
        /\ columns = IF Legacy = 0 THEN Columns ELSE {}
        /\ events = [i \in 1..Legacy |->
                       [body |-> [act |-> "completed", key |-> k, by |-> "command",
                                  stamp |-> 0, zoned |-> FALSE],
                        prev |-> <<>>, hash |-> Null]]
        /\ lock = NoProc
        /\ done = {}
        /\ clock = 0
        /\ pc = [p \in Proc |-> "idle"]
        /\ job = [p \in Proc |-> NoJob]
        /\ faults = 0
        /\ changes = [a \in Act |-> [n \in Key |->
                         IF a = "completed" /\ n = k THEN Legacy ELSE 0]]

Free(p) == lock \in {NoProc, p}
Goto(p, l) == pc' = [pc EXCEPT ![p] = l]
Return(p) == pc' = [pc EXCEPT ![p] = "idle"] /\ job' = [job EXCEPT ![p] = NoJob]
Fault == faults < MaxFaults /\ faults' = faults + 1

Tick ==
    /\ clock < MaxTime
    /\ clock' = clock + 1
    /\ UNCHANGED <<columns, events, lock, done, pc, job, faults, changes>>

(***************************************************************************)
(* InitDB, the start of every command: each hash column is looked up and,  *)
(* if missing, added by a statement of its own.                            *)
(***************************************************************************)
Begin(p) ==
    /\ pc[p] = "idle"
    /\ \E c \in Commands[p], k \in Key \cup {NoKey} :
         /\ k \in CASE c \in {"complete", "assign"} -> Task \ done
                    [] c = "reopen" -> Task \cap done
                    [] c = "finish" -> Sprint \ done
                    [] OTHER -> {NoKey}
         /\ job' = [job EXCEPT ![p] = [NoJob EXCEPT !.cmd = c, !.key = k]]
    /\ Goto(p, "look_prev")
    /\ UNCHANGED <<columns, events, lock, done, clock, faults, changes>>

AfterInit(p) ==
    IF job[p].cmd \in {"restore", "preview"} THEN "sprints" ELSE "change"

LookColumn(p, here, column, add, next) ==
    /\ pc[p] = here
    /\ Goto(p, IF column \in columns THEN next ELSE add)
    /\ UNCHANGED <<columns, events, lock, done, clock, job, faults, changes>>

\* ALTER TABLE fails when the column has appeared meanwhile, or as busy.
AddColumn(p, here, column, next) ==
    /\ pc[p] = here
    /\ \/ /\ Free(p) /\ column \notin columns
          /\ columns' = columns \cup {column}
          /\ Goto(p, next)
          /\ UNCHANGED job
       \/ /\ ~Free(p) \/ column \in columns
          /\ Return(p)
          /\ UNCHANGED columns
    /\ UNCHANGED <<events, lock, done, clock, faults, changes>>

\* Mutant of EnsureColumns: the second column is looked up only when the first was missing.
EnsureFirstColumn(p) ==
    \/ LookColumn(p, "look_prev", "prev_hash", "add_prev", AfterInit(p))
    \/ AddColumn(p, "add_prev", "prev_hash", "look_event")
    \/ LookColumn(p, "look_event", "event_hash", "add_event", AfterInit(p))
    \/ AddColumn(p, "add_event", "event_hash", AfterInit(p))

EnsureColumns(p) ==
    \/ LookColumn(p, "look_prev", "prev_hash", "add_prev", "look_event")
    \/ AddColumn(p, "add_prev", "prev_hash", "look_event")
    \/ LookColumn(p, "look_event", "event_hash", "add_event", AfterInit(p))
    \/ AddColumn(p, "add_event", "event_hash", AfterInit(p))

(***************************************************************************)
(* A command's change, and its event to come.  Only the statements of      *)
(* `task assign` are retried by dblock.Exec.  No event is logged for a     *)
(* completed Sprint.                                                       *)
(***************************************************************************)
ActOf(c) == CASE c = "complete" -> "completed"
              [] c = "reopen"   -> "reopened"
              [] OTHER          -> "assigned"

Possible(p) == CASE job[p].cmd \in {"complete", "finish"} -> job[p].key \notin done
                 [] job[p].cmd = "reopen" -> job[p].key \in done
                 [] OTHER -> TRUE

\* Its file goes into or out of a completed/ folder; a reopened Task is none
\* that a restore under way must have an event for.
Change(p) ==
    LET k == job[p].key  c == job[p].cmd IN
    /\ pc[p] = "change" /\ (Free(p) \/ c = "finish") /\ Possible(p)
    /\ done' = CASE c \in {"complete", "finish"} -> done \cup {k}
                 [] c = "reopen" -> done \ {k}
                 [] OTHER -> done
    /\ job' = [q \in Proc |->
                 IF q = p /\ c = "finish" THEN NoJob
                 ELSE IF q = p
                      THEN [job[p] EXCEPT !.body =
                              [act |-> ActOf(c), key |-> k, by |-> "command",
                               stamp |-> clock, zoned |-> FALSE]]
                      ELSE IF c = "reopen" THEN [job[q] EXCEPT !.kept = @ \ {k}]
                                           ELSE job[q]]
    /\ changes' = IF c = "finish" THEN changes
                  ELSE [changes EXCEPT ![ActOf(c)][k] = @ + 1]
    /\ Goto(p, IF c = "finish" THEN "idle" ELSE "insert")
    /\ UNCHANGED <<columns, events, lock, clock, faults>>

\* Mutant of ChangeBusy: the last failed attempt is taken for a success.
ChangeBusyIgnored(p) ==
    /\ pc[p] = "change" /\ ~Free(p) /\ job[p].cmd = "assign"
    /\ IF job[p].tries < RetryMax
       THEN job' = [job EXCEPT ![p].tries = @ + 1] /\ UNCHANGED pc
       ELSE /\ job' = [job EXCEPT ![p].body =
                          [act |-> "assigned", key |-> job[p].key, by |-> "command",
                           stamp |-> clock, zoned |-> FALSE]]
            /\ Goto(p, "insert")
    /\ UNCHANGED <<columns, events, lock, done, clock, faults, changes>>

\* Mutant of ChangeBusy: one attempt past the last of retryDelays.
ChangeBusyOnceMore(p) ==
    /\ pc[p] = "change" /\ ~Free(p) /\ job[p].cmd # "finish"
    /\ IF job[p].cmd = "assign" /\ job[p].tries <= RetryMax
       THEN job' = [job EXCEPT ![p].tries = @ + 1] /\ UNCHANGED pc
       ELSE Return(p)
    /\ UNCHANGED <<columns, events, lock, done, clock, faults, changes>>

\* The database stays locked for longer than busy_timeout.
ChangeBusy(p) ==
    /\ pc[p] = "change" /\ ~Free(p) /\ job[p].cmd # "finish"
    /\ IF job[p].cmd = "assign" /\ job[p].tries < RetryMax
       THEN job' = [job EXCEPT ![p].tries = @ + 1] /\ UNCHANGED pc
       ELSE Return(p)
    /\ UNCHANGED <<columns, events, lock, done, clock, faults, changes>>

\* Another process was faster: the command's own checks refuse it.
ChangeRefused(p) ==
    /\ pc[p] = "change" /\ ~Possible(p)
    /\ Return(p)
    /\ UNCHANGED <<columns, events, lock, done, clock, faults, changes>>

(***************************************************************************)
(* AppendAuditEvent.  The transaction starts with the INSERT, which takes  *)
(* the write lock; it reads the timestamp back, looks up the last hash     *)
(* before its own id and writes its own.                                   *)
(***************************************************************************)
Hashed == {i \in 1..Len(events) : events[i].hash # Null}

LastHash ==
    IF Hashed = {} THEN <<>>
    ELSE events[CHOOSE i \in Hashed : \A j \in Hashed : j <= i].hash

\* Mutant of Insert: it does not wait for other writers' transactions.
InsertUnlocked(p) ==
    /\ pc[p] = "insert"
    /\ Len(events) < MaxEvents
    /\ lock' = p
    /\ Goto(p, "link")
    /\ UNCHANGED <<columns, events, done, clock, job, faults, changes>>

Insert(p) ==
    /\ pc[p] = "insert" /\ lock = NoProc
    /\ Len(events) < MaxEvents
    /\ lock' = p
    /\ job' = IF job[p].body.zoned THEN job
              ELSE [job EXCEPT ![p].body.stamp = clock]     \* the column's DEFAULT
    /\ Goto(p, "link")
    /\ UNCHANGED <<columns, events, done, clock, faults, changes>>

LinkRow(p) ==
    /\ pc[p] = "link"
    /\ job' = [job EXCEPT ![p].prev = LastHash,
                          ![p].hash = Append(LastHash, [id |-> Len(events) + 1,
                                                        body |-> job[p].body])]
    /\ Goto(p, "commit")
    /\ UNCHANGED <<columns, events, lock, done, clock, faults, changes>>

\* LogEvent's callers end here; a restore goes on with its list.
Commit(p) ==
    /\ pc[p] = "commit"
    /\ events' = Append(events, [body |-> job[p].body, prev |-> job[p].prev,
                                 hash |-> job[p].hash])
    /\ lock' = NoProc
    /\ IF job[p].cmd = "restore" THEN Goto(p, "next") /\ UNCHANGED job ELSE Return(p)
    /\ UNCHANGED <<columns, done, clock, faults, changes>>

\* Mutant of InsertBusy: a restore goes on after an append that failed.
InsertBusyIgnored(p) ==
    /\ pc[p] = "insert" /\ lock # NoProc
    /\ Fault
    /\ IF job[p].cmd = "restore" THEN Goto(p, "next") /\ UNCHANGED job ELSE Return(p)
    /\ UNCHANGED <<columns, events, lock, done, clock, changes>>

\* The INSERT is not retried; LogEvent's callers ignore the error, a restore
\* stops at it.
InsertBusy(p) ==
    /\ pc[p] = "insert" /\ lock # NoProc
    /\ Fault
    /\ Return(p)
    /\ UNCHANGED <<columns, events, lock, done, clock, changes>>

AppendFails(p) ==
    /\ pc[p] \in {"link", "commit"}
    /\ Fault
    /\ Return(p)
    /\ lock' = NoProc
    /\ UNCHANGED <<columns, events, done, clock, changes>>

(***************************************************************************)
(* Restore: the Sprints' completed files, then the Tasks'.  An event is    *)
(* appended when none of its type and entity exists and git knows the file.*)
(***************************************************************************)
Files(phase) == done \cap (IF phase = "sprints" THEN Sprint ELSE Task)

\* Mutant of HasEvent: the dedupe looks for events that commands have logged.
HasCommandEvent(k) == \E i \in 1..Len(events) : /\ events[i].body.key = k
                                               /\ events[i].body.by = "command"

HasEvent(k) == \E i \in 1..Len(events) : /\ events[i].body.key = k
                                         /\ events[i].body.act = "completed"

Glob(p) ==
    /\ pc[p] \in {"sprints", "tasks"}
    /\ job' = [job EXCEPT ![p].list = Files(pc[p]), ![p].phase = pc[p],
                          ![p].kept = @ \cup (Files(pc[p]) \ Untracked)]
    /\ Goto(p, "next")
    /\ UNCHANGED <<columns, events, lock, done, clock, faults, changes>>

Restorable(p, k) == k \in done \ Untracked /\ ~HasEvent(k) /\ job[p].cmd = "restore"

Restored(k) == [act |-> "completed", key |-> k, by |-> "restore",
                stamp |-> FirstCommit[k], zoned |-> TRUE]

Examine(p) ==
    /\ pc[p] = "next"
    /\ \E k \in job[p].list :
         IF Restorable(p, k)
         THEN /\ Goto(p, "insert")
              /\ job' = [job EXCEPT ![p].list = @ \ {k}, ![p].key = k,
                                    ![p].body = Restored(k)]
         ELSE /\ job' = [job EXCEPT ![p].list = @ \ {k}]
              /\ UNCHANGED pc
    /\ UNCHANGED <<columns, events, lock, done, clock, faults, changes>>

ListDone(p) ==
    /\ pc[p] = "next" /\ job[p].list = {}
    /\ IF job[p].phase = "sprints" THEN Goto(p, "tasks") /\ UNCHANGED job ELSE Return(p)
    /\ UNCHANGED <<columns, events, lock, done, clock, faults, changes>>

Crash(p) ==
    /\ pc[p] # "idle"
    /\ Fault
    /\ Return(p)
    /\ lock' = IF lock = p THEN NoProc ELSE lock
    /\ UNCHANGED <<columns, events, done, clock, changes>>

AppendAuditEvent(p) == Insert(p) \/ InsertBusy(p) \/ LinkRow(p) \/ Commit(p) \/ AppendFails(p)
AuditRestore(p) == Glob(p) \/ Examine(p) \/ ListDone(p)

Next ==
    \/ Tick
    \/ \E p \in Proc : \/ Begin(p) \/ EnsureColumns(p)
                       \/ Change(p) \/ ChangeBusy(p) \/ ChangeRefused(p)
                       \/ AppendAuditEvent(p) \/ AuditRestore(p) \/ Crash(p)

Spec == Init /\ [][Next]_vars

(***************************************************************************)
(* What readers get.  QueryAuditEvents orders by the timestamp's text: the *)
(* log's own read `2026-01-02 10:00:00' in UTC, git's                      *)
(* `2026-01-02T10:00:00+09:00' in the committer's zone.                    *)
(***************************************************************************)
Text(b) ==
    LET local == IF b.zoned THEN b.stamp + Zone ELSE b.stamp
    IN  [date |-> local \div Day, sep |-> IF b.zoned THEN 1 ELSE 0, time |-> local % Day]

\* Mutant of TextLess: the format of a timestamp outweighs its date.
FormatFirst(x, y) ==
    \/ x.sep < y.sep
    \/ x.sep = y.sep /\ x.date < y.date
    \/ x.sep = y.sep /\ x.date = y.date /\ x.time < y.time

TextLess(x, y) ==
    \/ x.date < y.date
    \/ x.date = y.date /\ x.sep < y.sep
    \/ x.date = y.date /\ x.sep = y.sep /\ x.time < y.time

\* e may come before f in the answer to a query.
ListedBefore(e, f) == ~TextLess(Text(e.body), Text(f.body))

-----------------------------------------------------------------------------
\* The hash of an event covers every event since the columns exist, in the
\* order of their ids: whatever the order in which processes append, none
\* forks the chain, skips a predecessor or hashes another timestamp than the
\* row's (AppendAuditEvent).
Covered(n) == [i \in 1..(n - Legacy) |-> [id |-> Legacy + i, body |-> events[Legacy + i].body]]

HashCoversHistory ==
    \A i \in Legacy + 1..Len(events) :
        /\ events[i].hash = Covered(i)
        /\ events[i].prev = Covered(i - 1)

\* A process that got through InitDB finds both hash columns, whichever
\* process added them and wherever an earlier one stopped.
SchemaReady ==
    \A p \in Proc :
        pc[p] \notin {"idle", "look_prev", "add_prev", "look_event", "add_event"}
            => columns = Columns

Restorers == {p \in Proc : "restore" \in Commands[p]}
EventsOf(k, by) ==
    {i \in 1..Len(events) : events[i].body.key = k /\ events[i].body.by = by}

\* However often restore runs, is interrupted and runs again, an entity gets at
\* most one restored event from each process that may run one: the dedupe by
\* natural key fails between racing processes only (auditEventExists).  And
\* commands log no more than they changed: no event of a change that was rolled
\* back, refused, or given up after the last retry of a locked database.
EventsAccounted ==
    \A k \in Key :
        /\ Cardinality(EventsOf(k, "restore")) <= Cardinality(Restorers)
        /\ \A a \in Act :
              Cardinality({i \in EventsOf(k, "command") : events[i].body.act = a})
                  <= changes[a][k]

\* Readers order events by text: of two that a query lists in the wrong order,
\* one is git's and they are less than a day and the zone's offset apart
\* (QueryAuditEvents and, through it, `brief').
NewestFirstWithinADay ==
    \A i, j \in 1..Len(events) :
        ListedBefore(events[i], events[j])
            => \/ events[i].body.stamp >= events[j].body.stamp
               \/ /\ events[i].body.zoned # events[j].body.zoned
                  /\ events[j].body.stamp - events[i].body.stamp < Day + Zone

\* A restore that comes to its end leaves an event for every completed Sprint
\* and Task it found, known to git and not reopened meanwhile: one that could
\* not append ends with an error and does not get there (Restore).
RestoreCompletes ==
    [][\A p \in Proc : ListDone(p) /\ job[p].phase = "tasks" /\ job[p].cmd = "restore"
                         => \A k \in job[p].kept : HasEvent(k)]_vars
=============================================================================
