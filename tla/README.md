# Hostler OSS in TLA+

Hostler (`hstl-oss`) manages Tasks and Sprints of a software project from the
command line. Its state is spread over three places that have to agree: a
SQLite database shared by every worktree of a repository, Markdown files below
`works/`, and generated tables, `BACKLOG.md` and `SPRINT.md`. There is no
server: every command is a process of its own, and people and agents run
several at once, in several terminals and several git worktrees. Nothing but
SQLite's write lock keeps them apart; files are read and written under no lock
at all. That is where this code is hard to get right, and what these modules
are about.

Paths below are relative to `src/packages/hostler-cli/`, unless they name the
plugin.

## The system

| Component | State | Operations | What makes it correct | Model |
|---|---|---|---|---|
| Task lifecycle (`pkg/task`) | `tasks.status`, `file_path`, `work_ticket`; the file's frontmatter and folder; the row of SPRINT.md | start, checkpoint, complete, reopen, delete, update, self-healing of paths | the status goes todo, in-progress, done; database and files agree; one file per Task | `TaskLifecycle` |
| Harness Gate (`pkg/harness`) | `harness_items`; Done Criteria in the file | ensure, check, gate, reset | nobody is done with a required item unchecked | `TaskLifecycle`, `ResultCheck` |
| Result check (`pkg/task` checks, git) | the Result section, the repository | three queries of git, a search of its history | what is said to be changed was; nothing changed blocks | `ResultCheck` |
| Task creation (`pkg/task` Create, `pkg/id`, `pkg/template`) | `id_counters`, a new file, a line of BACKLOG.md, a new row | create and its rollback | identifiers never collide; a failed create leaves nothing; no twins | `TaskCreate` |
| Backlog synchronisation (`pkg/backlog`) | all of the above | compare, then repair; rebuild-md | repairs what drifted, comes to an end, never destroys what is alive | `BacklogSync`, `TaskCreate` |
| Sprint lifecycle (`pkg/sprint`) | `sprints`, the folder of the Sprint, SPRINT.md, CURRENT-FOCUS.md, paths of its Tasks | create, start, complete, discard, update, reconcile | folder, row and Tasks move together | `SprintLifecycle` |
| Sprint assignment (`pkg/task` AssignSprint, UnassignSprint) | Task row, file, both tables | assign, unassign with compensation | a failed assignment is taken back whole | `SprintLifecycle` |
| Context acknowledgement (`cmd/.../context.go`, `harness*.go`, `task_reconcile_ticket.go`) | tickets in rows and files, acknowledgements | ack, check, auto-check, expiry, reconcile-ticket | an acknowledgement counts for its ticket and its time | `WorkTicket` |
| Audit log (`pkg/audit`, AppendAuditEvent) | a hash chain in `audit_events` | append, query, restore, upgrade of the schema | one chain over every event; no event of what did not happen | `AuditLog` |
| SQLite store (`internal/adapters/sqlite`, `pkg/db`) and its double (`internal/adapters/inmemory`) | the tables | statements, queries, a few transactions | transitions atomic and isolated; the double is equivalent | `Stores`, and the modules of the commands |
| Markdown files (`pkg/fileutil`) | BACKLOG.md, SPRINT.md, CURRENT-FOCUS.md, frontmatter | whole-file read, change, write | no lost updates | in the modules of the commands |
| Registry (`pkg/registry`) | a JSON file in the home directory, a snapshot in the project | allocate, check, list, sync | no value allocated twice, none lost | `Registry` |
| Knowledge base (`pkg/kb`) | numbered cards in Markdown files, INDEX.md | create, rebuild | no number given twice, no card lost, counts right | `KnowledgeBase` |
| Rule engine (`pkg/rules`) | `rules.yaml`, what it extends, policies, environment; the index and the work tree | run, exec, list, explain, validate, diff | precedence; a hard block blocks; each rule judged once | `RuleEngine` |
| Gate judgement log (`pkg/gatelog`) | two JSONL files, or two tables | record, label, statistics | a torn line costs one record | `GateLog` |
| Project migration (`pkg/db` migrate) | Task files, the old registry file, tables | scan, merge, load, archive | complete, repeatable, archives nothing alive | `Migration` |
| Configuration (`pkg/config`) | `project-config.yaml`, its folder, environment | load, get, check, fix, migrate-mode | precedence; a fix changes no value; the file is not lost | `Configuration` |
| Lock retry (`pkg/db/retry.go`) | none | bounded retry of a statement | ends; the last failure is no success | `AuditLog` |
| Sprint ceremony documents, tiers, identifiers across worktrees, hash chain verification, ceremonies, hooks, command line | - | - | - | left out, see *Not modelled* |

How they meet. `complete` calls the Harness Gate and then the store's
transition, whose callback writes and moves the file inside the transaction
(`TransitionTaskAtomic`). `reopen`, `delete`, `update`, and every command about
Sprints use plain statements instead, so that they run against the transitions
of other processes with no protection but the lock of one statement. `create`
allocates an identifier and writes file, BACKLOG.md and row in this order;
`backlog sync` looks at the same places and repairs what differs, perhaps while
another command is halfway. The gate's item `context_acknowledged` rests on
rows of another table, bound to a ticket which is kept in the row and in the
file. The registry, the knowledge base, the gate's log, the rules and the
configuration have files of their own and share no state with the rest.

What is hard: the tests and the actions they justify lie in different
statements (`PROJECT.json`, "hazards", lists where); the database can be rolled
back and files and folders cannot; errors are ignored in many places; files are
read, changed and written back whole while others move them; and a repair works
with what was read before the first repair.

## Modules

| Module | What it is |
|---|---|
| `TaskStateMachine` | the abstract promise: what the guides say happens to a Task's status and its checks, in atomic steps |
| `TaskLifecycle` | the code of start, checkpoint, complete, reopen, delete, update and `harness check`, statement by statement; implements `TaskStateMachine` |
| `TaskLifecycleProofs` | theorems about it: types, lock, status and the gate; that it implements `TaskStateMachine`, and what files say |
| `TaskCreate`, `TaskCreateProofs` | create and backlog sync, for unassigned Tasks; theorems |
| `SprintPromise` | the abstract promise about Sprints: statuses, membership, how a Task comes to be done |
| `SprintLifecycle`, `SprintLifecycleProofs` | all commands about Sprints and assignments, with crashes and failures; implements `SprintPromise`; theorems |
| `BacklogSync`, `BacklogSyncProofs` | sync and rebuild-md in full, from any state, amid other commands; theorems |
| `AuditLog`, `AuditLogProofs` | append, upgrade, restore, query; theorems |
| `WorkTicket`, `WorkTicketProofs` | tickets, acknowledgements and the checks that rest on them; theorems |
| `ResultCheck` | what complete reads in a Task's file, and its check against git; theorems in `PartsProofs` |
| `RuleEngine`, `Configuration` | rules and configuration over files that change |
| `Registry`, `RegistryProofs` | the registry's file and its snapshot, under kills and overlap; theorems |
| `KnowledgeBase`, `GateLog`, `Migration`, `PartsProofs` | the other parts with files of their own, under kills and overlap; theorems |
| `Stores` | `SQLiteStore` and `InMemoryStore` under the same calls; theorems in `PartsProofs` |
| `MCTaskLifecycle`, `MCTaskCreate`, `MCSprintLifecycle`, `MCAuditLog`, `MCStores`, `MCBacklogSync` | small instances |
| `MCParts` | the parts that share no state, each in behaviours of its own |

Conventions common to all. `Proc` are processes; `pc` and `job` (or `command`,
`author`, `import`) are program counter and local variables of the command each
runs. A step is one statement that commits, one statement of a transaction, or
one access to a file; where a finer grain shows nothing more, the section says
what was made one step. Users issue commands at will, or those of a `menu`
that a behaviour begins with; a `Crash` or `Kill` ends a process anywhere. Variables
that a comment calls *history* record what a property has to know about the
past and guide no step.

### TaskLifecycle

`dbStatus`, `dbPath`, `ticket` are columns of the table `tasks`; `seeded` and
`checked` stand for a Task's rows in `harness_items`; `file[t][l]` is the
frontmatter status of the Task's file in folder `l`; `row` the status cell in
SPRINT.md. `lock` and `stale` are SQLite in WAL mode: a transaction begins
deferred, takes its snapshot at its first read and the write lock at its first
write, and fails there when another commit came in between (`stale`). `torn` is
a ghost: the Tasks whose last transition died after its file work.

`Lookup`, `Resolve`, `BeginTransaction`, `UpdateStatus`, `WriteFrontmatter`,
`MoveToCompleted`, `CommitTransaction` and `WriteSprintRow` are `transitionTask`
with `TransitionTaskAtomic`; `FirstTransition`, `TransitionSucceeded` and
`TransitionFailed` chain the transitions of a `complete`, its cascade from todo
and the rollback of that cascade. `WriteFrontmatterFree` to `ResetHarness` are
reopen and update, `RemoveFile` to `RemoveOrphan` are delete.

Abstractions, each with its reason:

- One update of a file's frontmatter is atomic. The rewriting of its *body* by
  work ticket and Result stub is a read and a later write: between the two lies
  the race that matters.
- Stat and rename of one move are one step.
- A file is its status: the rest of its content is no one's decision here
  (`ResultCheck` and `WorkTicket` are about the rest).
- A Sprint is one active Sprint that does not move (`SprintLifecycle` moves it).
- `UpdateStatus` may fail at any time: commits of commands that are not in this
  module outdate snapshots too.
- Hotfix sections, the Result check, and the evidence of context acknowledgement
  may refuse at will.
- `Prepared` Tasks have a work ticket and a Result section at the start, as
  `create` and a user leave them; `Misplaced` Tasks have an outdated
  `tasks.file_path`, as a `git mv` leaves them.
- A failed write leaves the file as it was.

### TaskCreate

`counter` is the row of `id_counters`; `tasks`, `files[w]` and `backlog[w]` are
table, files and BACKLOG.md of worktree `w`. At the start files and rows need
not match and the counter may lie behind both, as in a repository that adopts
the tool or moves to another machine: the code has three repairs for that, one
after the other in `TaskIDNext`. `CheckTitle` to `UndoFile` are `Create` in the
order of the code, with the statements of `TaskIDNext` (`Scan`, `Bump`,
`ReadMax`, `SyncCounter`, `NextCounter`) apart. BACKLOG.md is read in one step
and written in another. `ListFiles` to `FindOrphans` are the comparing half of
`Sync`, in its order; `RepairRow`, `Relist`, `Purge` are `applyFixes`.

Left out: the bootstrap gate, `--allow-duplicate-title`, and the promotion of
the work ticket after the INSERT (in `WorkTicket`). `task create` has no option
for a Sprint, so new Tasks are unassigned.

### SprintLifecycle

`sprints` and `tasks` are the two tables; `folders[s]` the places where Sprint
`s` has a folder (two, when an assign recreates one that was just moved);
`inner` those where that folder holds another of its name, which is what `git mv`
into an existing folder makes; `docs` its SPRINT.md at each place;
`files` the Task files, `backlog` the lines of BACKLOG.md, `focus` the Sprint of
CURRENT-FOCUS.md. A command is the sequence of its statements and file
accesses, as the code calls them: `complete` writes the files' status
(`reconcileTaskFrontmatterBeforeMove`), moves the folder, then SPRINT.md, the
row, the paths, the Tasks' status (`reconcileTaskDBStatusAfterMove`) and the
focus; `assign` moves the file, then frontmatter, BACKLOG.md, SPRINT.md, row,
and on failure compensates each. The initial checks of a command, and reading and
rewriting one document, are one step. Any step may fail (`MaxFaults`) and a process may crash.

`SprintPromise` has only the statuses, the members and the Tasks' statuses. The
refinement maps the tables to it: what folders and files do is a stutter.
It is where one sees that a retried move, a reconcile, a compensation or a
crash never takes a Sprint back, or a Task out of one that is completed.

### BacklogSync

`Loc` are the folders a file may lie in. Sync first walks the files, the table,
BACKLOG.md and the Sprint folders, collecting issues with what it read, and then
repairs them one by one (`applyFixes`), a statement or a file at a time. `Starts`
gives the states sync is started from: every combination of a file, a row, lists and
Sprint that the code tells apart, and of two files of one Task. Of a BACKLOG.md there are
the listed Tasks, the heading, the count under it, and whether the line "Last updated", if
there is one, has today's date (`dated`); no midnight passes during a sync. `scene` says how often each
process runs sync, and which other commands (a Task's, a Sprint's, rebuild-md,
from another worktree) run meanwhile.

### AuditLog

`columns` are the hash columns an old database has yet to get; `events` the rows;
`lock` the write transaction of `AppendAuditEvent`: insert, read the
predecessor's hash, update, commit. A hash is modelled as injective: that of a
predecessor's hash and a row is the sequence of the former with the row
appended; so `HashCoversHistory` says that the hash of each event stands for
every event before it. `changes` counts what took effect. `restore` looks at
the completed folders, asks git for the first commit, asks for the event,
appends. Timestamps are text: two formats, two zones (`Day`, `Zone`), compared as text.

### WorkTicket

One Task, whose `status`, `ticket`, `checked` items and `acks` the worktrees
share, and whose file's ticket each worktree has for itself. create, start and
checkpoint issue a ticket, store it in the row and then write it into the file,
which is a read, a truncation and a write with errors ignored. `context
--ticket` records an acknowledgement (`InsertContextAck`, INSERT OR IGNORE);
`VerifyTicket` and `VerifyAck` are `verifyContextAckEvidence`, with the time to
live; `NextItem` is one turn of the loop of auto-check or check-all;
`CompareTicket`, `RepairTicket` are reconcile-ticket. What context collects is
one value that changes and may change back. The transitions of start and
complete are one step each (`TaskLifecycle`'s subject), and the file lies at the
path of the row.

### ResultCheck

A body is the sequence of its lines, each of a kind (heading, rule, bullet,
table row, prose) with the paths in it by the form they are quoted in; a path is
the sequence of its segments. Which section a line belongs to, what a section
says, and which paths are taken from it are operators over that sequence. The
check is then three queries of git, one step each, and for what is missing a
search of the history; in between files are written, staged, reset and committed.

### RuleEngine and Configuration

`RuleEngine`: `disk` holds rules.yaml and the sources it extends, each a
configuration, missing or broken. `run` loads them layer by layer, applies
policies and environment, takes the rules of the phase, runs them on `Workers`
at once, and writes exit, output and judgement log. A rule is its kind: what it
reads (index, work tree, message, list) and when it passes; patterns are not
modelled. Files and index change between any two steps.

`Configuration`: `dirs` are the four folder names the code looks for, each
absent, a folder or a link, with a .yaml and a .yml. A file is what the code tells
apart: whether it parses, its version, what it extends, the values at its
leaves, whether its keys are sorted. `check`, `fix` (read, report, read again,
truncate, write), `migrate-mode` (stat, rename, link) and
`show-effective` are commands beside each other and beside a user who edits.

### Registry, KnowledgeBase, GateLog, Migration, Stores

- `Registry`: `runtime` and `docs`, the JSON file and its snapshot; each write is
  a truncation and a write, each read may find the file truncated and recover it.
- `KnowledgeBase`: files of numbered cards and INDEX.md; `rebuild` goes file by file.
- `GateLog`: the JSONL store and the SQLite store are given the same calls; a
  process killed in an append leaves part of a line.
- `Migration`: globs, file reads and row loads are steps, between which files
  and rows change; the import may be killed and run again.
- `Stores`: every method that changes a row, and the queries commands build on,
  as a pair of operators `sql...` and `mem...` from a store to a store and an
  answer. `alike` is false from the first call on which they differ in a way the
  model knows of (each such difference is named in the module); the property is that
  there is no other.

### MCParts

The ten parts that share no state (sync, registry, knowledge base, gate log,
migration, stores, rules, result, configuration, tickets) are instances in one
module: `part` says whose behaviour it is, the variables of the others are
parked. The state graph is the disjoint union of the ten; each part is checked
as in a run of its own.

## Runs

`PROJECT.json` lists them with their properties. Every property of a passing
run has a mutant: a plausible bug in one definition, kept next to it in the
module, that the run finds.

| Run | Instance | Shows |
|---|---|---|
| `lifecycle_transitions` | 2 processes, 2 Tasks (1 in the Sprint), wrong paths in the database, 1 fault, start/complete/check | the write lock is held exactly during file work; the gate holds; database and file agree and lie where the status says outside transactions, except after a crash between file work and COMMIT, and that heals with the next transition; `TaskStateMachine` is implemented |
| `lifecycle_sequential` | 1 process, 2 Tasks, 2 items, all commands | at rest database, file and Sprint table agree whatever commands ran; every step but `update`'s is one `TaskStateMachine` allows |
| `lifecycle_concurrent` | 2 processes, 1 Task, start/complete/reopen/delete/update, fair | types; the tested status holds in the transaction; done only from in-progress; every command returns |
| `create_ids` | 2 processes in 2 worktrees, 2 faults, counter behind rows {1,3} and file {2}, clock over two days, east of UTC | identifiers in the making are distinct and unused; no create passes while a Task of its title is dated today |
| `create_sync` | 2 processes in 2 worktrees, 2 titles, creates and syncs, 1 fault | types; a row or file under an identifier in use is that Task's own; rows of files in other worktrees survive a sync |
| `sprint_sequential` | 1 process, 2 Sprints, 1 Task, 1 fault, two menus of commands | at rest all records agree; after a crash anywhere one reconcile sets the rows right; a failed assign is taken back; `SprintPromise` is implemented |
| `sprint_concurrent` | 2 processes, 1 Sprint with 1 Task, three menus, 1 fault | types; two moves of one folder neither nest, double nor lose anything, whatever crashes or fails |
| `audit_log` | 2 processes, an old row without hash, 2 days, a zone, 1 retry, 1 fault | types; every hash covers all events before it; no command runs on half a schema; no event of what did not happen; order within a day; a restore leaves out and repeats nothing |
| `parts` | the ten parts of `MCParts` | below |
| `lifecycle_gate_race`, `sprint_unfinished`, `store_backlog` | minimal | violations, see *Where code and documents part* |

What the properties of `parts` say, and the distinct states of each part:

| Part | States | Instance | Property |
|---|---|---|---|
| sync | 648,989 | one Task and one Sprint in every state the code tells apart, one Task whose file is in another worktree only, up to 3 rounds; 2 syncs at once; a sync amid a command; 1 failed repair | `Converges`: a repeated sync ends with nothing to repair; `CleanMeansAgree`: when it finds nothing, file, row, lists and folder agree; `NeverRegresses`: no status falls back while no other command and no other worktree works on the Task |
| registry | 72,977 | 2 processes, 2 commands each, 1 kill in any write | `RecordsKept`: no file ever holds a conflict; what allocate proposes is free; what was granted without overlap stays; the snapshot is never lost |
| knowledge base | 24,142 | 2 processes, 3 calls, 1 kill | `RecordsKept`: identifiers of a file distinct, answered cards stay, totals are sums |
| gate log | 10,508 | 3 appends, 2 torn lines | `RecordsKept`: both stores count alike; a torn line costs at most one acknowledged record |
| migration | 175,231 | 4 Tasks, 3 layouts, 3 old registries, 2 imports, 1 event, 1 failure of any load or of the counter, kills | `ImportSound`: no row beyond the counter, nothing left out, no live Task archived by an undisturbed import, and a second one changes nothing |
| stores | 81,327 | 2 Tasks, 1 Sprint, 3 calls from two seeds | `StoresAlike`: but for the differences listed in `Stores` the double holds and answers the same |
| rules | 86,304 | 13 rules, one of each kind, 7 starts, 2 commands, 1 edit, 2 workers | `RulesSound`: severities follow the documented layers, where none relaxes a hard-block; what validate passes does not fail; each rule is judged once, one that is off at most once; the exit agrees with the log; no secret passes a hard block |
| result | 61,796 | every body of a heading and three lines; a check of up to 3 edits | `EvidenceSound`: sections are read as written; what was dirty when the check began, or was committed on a day after the Task's, never blocks; what passes was changed |
| config | 282,645 | 4 folder names, several files, environments, edits, kills | `ConfigSound`: precedence of environment, file, preset, but for keys a later layer sets to null; what is shown is what is used; a fix nobody disturbs or kills settles what it can and changes no value; no order of fix, rename and readers loses the file |
| tickets | 126,729 | 2 processes, 2 worktrees, menus, 1 fault, events | `EvidenceSound`: the item is checked only on a fresh acknowledgement of a ticket the Task held meanwhile; one ticket unasked; row and file agree; reconcile believes the file; auto-check passes its own check |

Why the bounds are enough to be interesting. Two processes are what every race
here needs: one between another's test and its action. Two Tasks tell the two
folders apart and let path healing of one Sprint touch another Task; two
Sprints let an assignment go from one to the other. One fault reaches each
failure path, two reach a failure of the cleanup of a failure. With `MaxId` two
or three above what is there at the start each process creates a Task and a
third identifier can collide. Three rounds of sync are one more than it needs
on any state TLC starts it from. Bodies of a heading and three lines contain
every pair of neighbours the section parsers distinguish. `MaxFaults`, `MaxId`,
`MaxTime`, `MaxEvents`, `MaxCommands`, `MaxCalls` and the like stop the
counting and nothing else; where users then have nothing left to do the
configuration says `CHECK_DEADLOCK FALSE`.

Fairness (`FairSpec`, in `TaskLifecycle`): weak fairness of a running command's
next step, `Step(p)`. The operating system schedules every process, waits for
SQLite's lock end after `busy_timeout`, and no step waits for another command. Users need not issue commands and nothing need fail, so those
are outside it. It is used for `CommandsReturn` only.

## Where code and documents part

Three runs expect a violation; "findings" in `PROJECT.json` quotes the lines.

- `lifecycle_gate_race`: two completes pass the gate, one commits, a reopen to
  in-progress takes the checks away, the other complete commits: done, nothing
  checked. The gate is evaluated before and outside the transaction.
- `sprint_unfinished`: completing a Sprint writes done into the files of Tasks
  that are not, and then believes the files.
- `store_backlog`: a filter for sprint "" finds no Task that create stored with NULL.

Further divergences met while modelling, reachable in these modules by commands
and bounds like those above, without a run of their own. The properties are
stated so as to leave exactly these out.

In four places a comment says one thing and the code does another, and neither
is plainly the intended one. The properties demand neither there:

| Comment | Code | Left open by |
|---|---|---|
| `rules/types.go:25`: a hard-block is a "non-relaxable block (env/config override forbidden)" | a later file relaxes it (`rules/config.go:277`); only the environment may not | `ResolvedAsPromised` says nothing of a rule whose hard-block a file relaxes (`relaxed`) |
| `rules/types.go:21`: a rule that is off is "not checked" | it is checked, and what it finds is logged | `LogTellsExit` allows it one record or none |
| `config/merge.go:14`, `23`: "nil is ignored (dst is preserved)" | a null in a later layer overrides (`merge.go:52`) | `ValuesAsPromised` says nothing of a key that is set to null after a value (`Withdrawn`) |
| `internal/brand/brand.go:30`: "Writes always target ProjectDirName" | `fix` writes the file it read, be it in a legacy folder | `FixSettles` asks what the file holds, not where it is |

**Tasks**

- *Second copy.* A work ticket or a Result stub is written to the path found
  before a complete moved the file (`task.go:521`); the file comes back in its
  old folder, and both lookups take whichever they find first
  (`fileutil.go:213`, `236`).
- *Twin.* `created_at` is a date and the window is in seconds: a second create
  of the same title minutes later passes, though `duplicate_title.go:7` promises
  to refuse it. East of UTC Tasks dated in the future are refused as well.
- *Delete of a started Task.* `DeleteWithOptions` tests todo and deletes later
  without a condition; a start in between loses its Task (the plugin's
  task-management skill, line 347: "Tasks can be deleted only in todo state").
- *Drift after a crash.* Files are changed before COMMIT; a crash leaves file
  and row different (`graph_store.go:71`: "This eliminates drift"). This is the
  exception `torn` in `TransitionsAgree`.
- *Rollback of a cascade.* After a failed COMMIT of the second transition the
  file is in `completed/`; the transition back to todo moves files only out of
  done and leaves it there (`task.go:1658`: "rollback restores the original
  todo state"). This is why `TransitionsAgree` excepts failures for the place.
- *Lost line of BACKLOG.md.* Two creates in one worktree read the file together;
  the later write loses the other's line.
- *Relisting.* create writes `sprint: backlog`; sync relists files whose sprint
  is empty (`backlog.go:724`): what create failed to list stays unlisted.
- *Half-made Task.* A sync inserts the row of a Task whose create is between
  file and INSERT; the INSERT is refused, the file removed, the row stays,
  and its line in BACKLOG.md keeps it from ever counting as an orphan.
- *Deleted by number.* Two syncs find the orphan with the largest identifier,
  one deletes it, a create whose counter lies behind the table takes the
  identifier, the other sync deletes the new row.
- `task update --status` sets any status, past gate and state machine, though
  the skill (line 49) says update cannot change status: `PromiseButForUpdate`
  and `StatusPath` except it. `docs/04-guides/concepts.md` says start consults
  the gate; it does not.

**Sprints**

- `RemoveRowFromSprintMD` and `RemoveFromBacklogMD` match `| T |` in any cell.
  The SPRINT.md of a discarded Sprint is not looked for when a Task leaves it.
- A start or create beside a complete can record a completed Sprint as active or
  backlog again. `UpdateFields` (`reconcile.go:228-259`) reads and saves the whole
  row and takes a start in between back.
- `discard --db-only` is reverted by the next reconcile or sync; what `discard
  --return-tasks` gave back is bound to the Sprint again by the second phase of
  `updateTaskPaths`.
- assign beside a start, or two assigns, leave a row of one Sprint and a file in
  the folder of another. An assign that recreates the source folder between
  `git mv` and `RemoveAll` (`sprint.go:548-554`) loses the Task's file.
- A complete that fails at the move leaves files done and rows not; its gate is
  skipped when `HarnessGet` errors. `UpdateTaskDirect`, in two statements, leaves
  the sprint of the row set after a compensation.

**Sync**

- A status that changes between the reads of row and file is set back
  (`backlog.go:461`, `1355`). `--allow-status-regression` only logs an event.
- Three headings for one section ("## Remaining unassigned Tasks",
  `backlog.go:759`; "## Outstanding Unassigned Tasks", `fileutil.go:688`; "##
  Unassigned Tasks" in the skeleton). A SPRINT.md without a title never
  converges. Up to three passes are needed. The metadata check dates the start
  of a Sprint that has not started.
- `GetBacklogTasks` reads `A AND B OR status = 'in-progress'`. Syncs of two
  worktrees overwrite each other's path and sprint; `applySprintMetadataFix`
  loses updates in between.

**Audit log**

- "The chain is verified on every read" (`docs/04-guides/installation.md:180`):
  nothing verifies it; `hashchain.go` is used by tests only. `cli-reference.md:125`
  names a file audit.jsonl; it is a table.
- `sprint.completed` is logged by nobody but restore, although "every state
  change" is (`tables.sql:84`, the plugin's `start.md:122`).
- Two restores at once write an event each (`restore.go:10` promises dedupe);
  they date a completion at the *first* commit of the file.
- Newest-first (`audit.go:85`) is the order of texts: local times with an offset
  and UTC times interleave wrongly within the offset.
- `auditCanonical` is "equivalent" to `CanonicalEventJSON` but for `<`, `>`, `&`. Two
  processes upgrading an old database: the second ALTER fails. Events whose
  INSERT stays busy are lost; the error of `LogEvent` is ignored.

**Work tickets**

- A stale acknowledgement cannot be refreshed while the context stays the same:
  INSERT OR IGNORE keeps its date, though `harness.go:472` says to run again "to
  obtain a fresh hash" and `harness_autocheck.go:207` that this
  "deterministically passes". `AutoCheckPasses` excepts it.
- A checkpoint gives a new ticket and leaves the item checked, though
  `task.go:534-537` says a new acknowledgement is needed; a reopen keeps the
  ticket, so that old acknowledgements count again.
- A create's promotion beside a start issues two tickets, and row and file may
  end with different ones. `task.go:480` says the database is the source of
  truth, reconcile-ticket takes the file for it: run in another worktree with an
  older file it takes a newer ticket back. Paths are relative to the working
  directory: run from a subdirectory, every file is missing.

**Result check**

- The comment gives default titles "Result", "Artifacts", the code "Result",
  "Deliverables" (`config.go:204`). A path matches by its last segment, which
  subsumes exact and suffix matches; the search of the history needs it exact.
- Commits of the day of creation are found or missed by the hour; untracked
  files are in no diff; `git reset` between the two diffs hides a file; an empty
  answer of git means that nothing is verified. Done Criteria fall back to the
  boxes of the whole file.

**Rules**

- A hard block can be relaxed by rules.yaml and policies (`types.go:25`: "env/config
  override forbidden"). `rules exec` exits 3 at any severity. `.hstl/rules.yaml` is
  read although the folder is `.hstl-oss`. Rules that are off run and are logged
  as warnings.
- `task.result_section.files_exist` and `task.body.not_placeholder` never get the
  path of their file and are skipped (`samples.go:17`: "makes them functional").
  Content rules read the work tree, not the index. `manifest.drift` may `git add`
  though `rules_run.go` says rules share no state.

**Configuration**

- `check` and `fix` see .yaml only, the loader .yml too. `fix` writes into a legacy
  folder, though "Writes always target ProjectDirName" (`brand.go:30`). A null in a
  later layer overrides (`merge.go:14`: "nil is ignored"). A missing preset is no
  problem to `check`, and every load then falls back to defaults. Hints name a
  command `config migrate` that does not exist.
- `show-effective` prints values the getters ignore. A quoted version key is
  taken for version 1. An edit between `fix`'s second read and its write is lost; a
  kill, or a second `fix`, in the write leaves an empty file or `null`, which loads as
  defaults without an error. A kill between rename and link leaves the project
  without its old name.

**The rest**

- *Registry.* Two processes grant the same value and one grant is lost. A reader
  that meets a truncated file restores the snapshot over it: allocations since
  the last sync are gone, as after a kill in a save.
- *Knowledge base.* Two files of one prefix repeat identifiers. Two creates at
  once lose a card; a kill in a write empties the file. `Recount` leaves out
  single-file cards that `ScanAllCards` lists; `UpdateIndexSummary` has no caller.
- *Gate log.* The SQLite store is never used. The false-positive ratio may exceed
  1; a line above 1 MB ends the reading.
- *Migration.* No command calls it. Done unassigned Tasks and files that do not
  parse are archived as "without files"; so is what is created or moved
  meanwhile. After a kill in the load nobody is asked again.
- *Stores* (`inmemory_store.go:7`: "Semantically equivalent"). A missing Task is an
  error in memory and nothing in SQLite; a duplicate insert bumps the counter in
  one; deletion cascades in one; no Sprint is '' in one and may be NULL in the
  other; limits, orders, progress and the next Task differ. `TablesAgree` and
  `AnswersAgree` name them all.

## Proofs

TLAPS checks these for every set of processes, Tasks, items, worktrees and
titles, and any number of faults; no assumption but those named in the modules
(sentinels are outside the sets they extend, constants have their types).

- `TypeCorrect`, `CreateTypeCorrect`, `AuditLogTyped`: the type invariants. That
  of `TaskCreate` is inductive as it stands. That of `TaskLifecycle` is not:
  `GoodJob` and `ProcOK` add that a process in a command has a Task in hand, a
  resolved path once it moved a file, and an item when it goes on to check one.
  That of `AuditLog` needs `Steps`: what command is at which label, and that a
  process between INSERT and COMMIT holds the lock.
- `WriterHoldsLockAlways`, `TestedStatusHoldsAlways`: the first gives that at
  most one process is in its transaction. For the second the invariant is the
  pair, `LockInv`: while a snapshot is not stale nobody has committed a change
  since the status was tested; while the lock is held nobody can; so the tested
  status stands in both phases. The second is not inductive without the first.
- `StatusPathAlways`: an action property, from the above: a COMMIT moves the
  status from the one tested, which is in-progress for done. For that `FlowInv`
  carries which pairs `from`, `to` a command can have in hand at each label.
- `GateHoldsAlways`: with neither reopen nor update among the commands the gate
  holds, whatever interleaving and crashes. `GateInv` adds that a process at the
  gate has found the items seeded and that one past it has found every item
  checked; the proof, that without those commands no check is ever taken away.
  The assumption is needed: `lifecycle_gate_race` is the counterexample with reopen.
- `LifecycleImplements`: the refinement `PromiseKept`, for start, complete and
  check. A step maps to the step of `TaskStateMachine` its COMMIT or UPDATE makes and
  to a stutter otherwise; that the mapped step is enabled is what the invariants
  above say: `LockInv` gives the status it starts from, `GateInv` the checked items.
- `FilesAgree`: `TransitionsAgree`. `FilesInv` says where the file of a Task is and
  what it says at each label of a transition, whose file the process in the
  transaction has in hand alone, and that before the first fault it is in the folder
  of the status the database has or is about to have.
- `RecordsAgree`: `RestAgrees` of `TaskLifecycle`, for all commands. `AloneInv` says what
  database, file and SPRINT.md hold at each label of a command: the file is where the
  command found it, the status is the one it tested until the step that changes it,
  the file has the new one before, SPRINT.md the old one until its row is written.
  Assumed: one command at a time and no failure; with two at once there is "Second
  copy" above.
- `LifecycleImplementsButForUpdate`: `PromiseButForUpdate`, from the same invariant and
  under the same assumptions. `Intent` gives the status reopen and delete start from,
  `Armed` the gate, which reopen cannot disarm while complete is past it.
- `IdsDistinct`: `IdInv` is the types, that a process in a sync is not a create,
  that every identifier held is at most the counter, and `DistinctIds`. The
  counter never falls, so the one who raises it takes a number nobody holds.
- `IdsUnused`: with no sync beside it. `UnusedInv` adds to `IdInv` that all
  commands are creates, and follows a process from `ReadMax` to `NextCounter`: at
  "sync" every row's identifier is at most the counter or the maximum it read, at
  "next" at most the counter.
- `IdsOwn`: `OwnId`, with any number of syncs. `OwnInv` follows a create while nothing
  has failed: it raises the counter past files (`HealedFiles`) and rows (`HealedRows`)
  before it takes a number, so no file of before bears it, and every row, file and
  file a sync has listed that bears it is the create's own (`OwnNames`). Assumed: no
  number of a file at the start is one `ScanPlaceholderTaskIDs` takes for a placeholder.
- `OrphansDeleted`: `DeletesOnlyOrphans`, with any failures. `OrphanInv` bounds by the
  counter every number in rows and in the hands of syncs (`Bounded`), so that the one
  a create is about to write a file with is in none of them (`FreshFile`), and what
  a sync holds as orphans still has no file (`OrphansGone`). Assumed: the counter does
  not start behind the rows. Without it three processes refute the property
  ("Deleted by number" above); `create_sync` has two.
- `FilesBackedByRows`: `FilesHaveRows`, under the same assumption and from `OrphanInv`:
  a file has a row, is torn, or belongs to a create past its writing (`Backed`), and
  one Task in the making has one file (`OwnFiles`).
- These four share `IdStep`, `JobStep` and `StoreStep`, what a step of a process may do to
  the counter, to what it has in hand, and to rows and files; each is proved for
  all actions once, and the invariants are proved from them.
- `ChainCovers`: every hash of the audit log covers the whole history before it.
  `IInv` adds to the types that the `Legacy` rows of before the upgrade have no
  hash, and `Linked`: what a process is about to commit covers the rows
  committed so far, and since it holds the lock nobody adds to them.
- `ColumnsBeforeUse`, `RestoreLeavesNoGap`: `SchemaReady` and `RestoreCompletes`,
  from one invariant, `LInv`: for each label the columns a process has seen or added,
  which stay, and for a restore the events it has found or written, which stay too.
- `NoMoreThanHappened`: `EventsAccounted`, by counting. `AInv` bounds the rows of each
  kind plus those processes are about to write by what happened; a restore has looked
  for an event when it appends one. Assumed: the processes are finitely many.
- `SprintTypeCorrect`: `TypeOK` of `SprintLifecycle`. `TypeInv` adds `JobOK`: at each
  label which command it is and that it has a Sprint, a Task or two places in hand.
- `OneFolderAlways`: `OneFolder`, for any number of processes. `OneInv` adds that what
  moves a folder goes `Up`, backlog or discarded to active to completed, and at
  `sweep` that the folder has gone from there: an order without cycles, so a place
  that was left is not entered again while its sweep is due. Unassign never makes a folder.
- `CommandsKeepPromise`: the refinement `SprintPromiseKept`, for any Sprints and Tasks,
  crashes and failures. `PromiseInv` says that a folder is where its row says or one
  move ahead (`Located`) and ahead only amid a move or after a fault (`Settled`); what
  each command relies on at its label (`SaveReady`, `MoveReady`, `BindReady`,
  `AssignReady`); that a Task's file lies in the folder of the Sprint its row names
  (`FileKept`); and that a row that names none while the file is in one awaits the
  command in progress (`HalfAwaited`). Assumed: one command at a time
  (`OneByOne`; with two, a stale row of `update` takes a start back), neither
  `update --force` nor `discard --db-only`, which write what they are told, and with
  assign at most one fault (`Unforced`). The last is needed: with two an assignment to
  one Sprint may crash, one to another fail at its last statement and put the file
  back into the first, whose start then takes the Task from the second.
- `SprintRecordsAgree`: `RestAgrees` of `SprintLifecycle`. What is to hold at rest says
  nothing of a command halfway, so `RestInv` says at each label how far it may be from
  rest: a Sprint a command moves has its row, folder and SPRINT.md each at the old or
  the new place, by how far the move has come (`Underway`); of a Task that is assigned
  each record names where it was until the step that changes that record (`Changing`);
  of any other Task only a complete in progress is ahead of its status (`Late`), only a
  move of its Sprint of its path (`Strayed`). Assumed: one command at a time
  (`OneByOne`), and that the marker of a Task is in its own row only (`MarkedAlone`).
  Without the latter it is false: `RemoveRowFromSprintMD` removes every row with a
  cell `| T |` (fileutil.go:862; `UpdateSprintMD` guards against that), and a Task
  that depends on T alone has one as its last cell, so that `task unassign T` removes
  that row too and SPRINT.md no longer lists a member. The runs have no such Task.
- `AssignIsUndone`: `CompensationRestores`, under the same assumptions. `RestInv` speaks of
  behaviours without a fault only; `UndoInv` carries what an assignment starts from past
  the fault it takes back. `Restorable` says at each label of it that file, BACKLOG.md
  and SPRINT.md are as before but for the steps `behind` names, and which of these the
  compensation has undone; it holds while there has been no fault and, at the labels of
  the compensation, while there has been one. It needs that the folder of the Sprint is
  at rest (`AtRest`) when the row is removed: only then is it removed where it was entered.
- `OneReconcileHeals`: `ReconcileHeals`, from `PromiseInv`, which says where the folder of
  a Sprint and the files of its Tasks are after a fault too. `HealInv` adds that before
  the first fault a Task's row names its file, but for those the command under way is
  yet to write (`Strays`), and follows a reconcile: the row it compared, and the Tasks
  it has still to visit (`Healed`). Assumed: as for `CommandsKeepPromise`, and at most
  one fault. With two it is false: one leaves a stale path, the other is the
  reconcile's own listing of Tasks, whose error is ignored (reconcile.go, `ListDrift`).
- `SyncTypeCorrect`: `TypeOK` of `BacklogSync` and `Shape`: every repair sync has noted is
  about a Task or a Sprint of the project and a folder that may hold it (`Proper`). One
  lemma for each check says what it reports (`LocationReports` to `OrphansReport`).
  Assumed, here and below: `StartsTyped`, the types of the states to start from.
- `SyncNeverRegresses`: `NeverRegresses`, for any number of syncs of one worktree at
  once. A sync writes what it read before, so `SyncInv` says of whatever a process has
  in hand that it still holds (`Claims`): a status to be written is that of the last
  file of the Task in the order of the walk, and the row is not beyond it; a Sprint's
  new status is the folder its document is in. What makes that stay true amid the other
  syncs is `Gentle`, which every step satisfies: a row moves to what file or folder
  say, and never backwards. Assumed: each Sprint has one document to begin with
  (`OneDocument`); with two, two syncs may write one after the other.
- `SyncCleanMeansAgree`: `CleanMeansAgree`. `AloneInv` says for each check that a sync
  has come past what it has found in order (`Finds`), if it has noted nothing: nobody
  else changes it before the end of the checks. `Alone` counts processes, so they are
  assumed to be finitely many. The proof refuted an earlier form of the property, which
  took a row without a file in this worktree for lost; sync rightly asks for the row's
  path in every worktree (`TaskAgrees`).
- `SyncConverges`: `Converges`, from the third sync on. `Amiss` says what each of the
  sixteen repairs is due to, `Settling` what the only sync has settled at each label,
  after r of them: what is due of the kinds that have been looked for is noted
  (`Covered`), what is noted would still be written so (`Right`), and some kinds are due
  to nothing any more (`NoneDue`): after two syncs none, after one those of `Early`, which
  no repair makes due again, as missing rows and statuses behind their files. The others
  the same sync may: all is gathered before the first repair, so a Sprint whose row it
  makes is in no section on Sprints before the next sync. Each repair's lemma shows
  that it mends what it is for (`FixRowMends`, `LocationHeals`, `FixSprintMends`) and
  makes nothing of an earlier kind due again (`NoWorse`). Assumed: finitely many
  processes, and `OneDocument`: of a Sprint in two folders each sync writes both in turn.
- `ProposalsAreFree`: `SuggestionFree` of `Registry`, from the types alone: what is proposed
  lies past the ends of everything the rule of conflicts would compare it with. That
  finitely many ends have a largest is proved by well-founded induction (`LargestExists`).
- `FilesStayConsistent`: `FilesConsistent`, for any number of processes, which lose each
  other's grants but never write a conflict: `ConsInv` adds that what each process has
  loaded has none, and what it appends is checked against that.
- `NothingIsLost`: `GrantsKept` and `SnapshotKept`. `KeepsInv` says for each label of the one
  command that runs which of file, snapshot and registry in hand has everything granted
  and copied: a truncated file is covered by the hand or the snapshot. These are parts
  of `RecordsKept`, with `RegistryTypeCorrect` for the types.
- `EvidenceAlwaysCounts`: `EvidenceCounts`, which is part of `EvidenceSound`. `IInv`
  follows a check from its lookup: the ticket it has in hand is one the Task held
  meanwhile, and at the check of the item an acknowledgement backs it. The proof
  turns on `GoKeeps`: later times, more acknowledgements and more tickets seen
  never weaken what a process knows. Assumed: the time to live is a natural number.
- `OneTicketAlways`: `OneTicketUnasked`. `OneInv` adds to `IInv` that what is about to
  be set is a ticket, and that while no two commands overlap whoever is about to
  issue one unasked has found the Task without. Assumed: a Task begins with no
  ticket or one, and with none if it does not exist.
- `CalmCommandsKeepTheirWord`: `ReconcileSettles` and `AutoCheckPasses`. `CalmInv` says
  what a command nobody disturbs (`calm`) knows at each label (`Known`): what it has read of
  row, file and context is still so.
- `TicketsAlwaysSound`: all of `TicketsSound`, with `FileFollowsRow`. `FollowInv` says
  that, while no two commands overlap and nothing is lost, some file holds the ticket of
  the row or the command that set it is about to write it. Assumed, beside what
  `OneTicketAlways` assumes: the ticket a Task begins with is in the file of some worktree.

- `ImportIsComplete`, `ImportIsGentle`, `MigrationTyped`: what `ImportSound` asks of
  `Migration`. `MigInv` says at each label of the import what it has in hand is worth: of
  the table of globs those before `spec` have been read, and so what has been parsed is the
  readable files of those places, the rows hold what has been loaded, and the orphans are
  rows of no file. All that only while `undisturbed`; a state that is `settled` is the one
  the import left. That what the walk lists is every file of a place once comes from
  ranking them by `earlier` (no two alike: `OneName`). Assumed: `ProjectAssumption`, that
  no two files have one name in one place and there are finitely many numbers of Tasks.
- `KnowledgeStays`: `NumbersDistinct`, `CardsStay` and `IndexFresh`. `KBInv` says, while
  no two commands overlap, what the only one knows (`Knows`): the number it has taken is
  above those of its prefix in the file, what it has read is what the file holds, and,
  between truncation and write, that the cards created are in its hands (`CreatedStay`);
  of a rebuild, that the files walked are counted as they are (`Exact`). Assumed:
  `KnowledgeAssumption`, that people have left no identifier twice and the values for no
  file are no file. Not proved is `TotalIsSum`, a sum by recursion over the rows.
- `JudgementsStay`: `TearLosesOne` and `StoresAgree`, which are `JudgementsKept`.
  `GateInv` counts the acknowledged records that are lost and, with them, a line that is
  cut, whose successor will be: no more than there were tears. Until a tear or a key
  that was there, line and row, label and mark correspond one to one (`Mirrored`), and
  so do the sets that either store counts, whatever the filter selects. Assumed:
  `GateAssumption`, how the model numbers ids.
- `CheckIsFair`: `ChangedNeverBlocks` and `PassedWasChanged`, two parts of `EvidenceSound`.
  The queries of git are steps between which files are staged and committed, so
  `ResultInv` says of each path what the answers so far are worth: what was dirty at the
  beginning is, unless something disturbed the check, still dirty or committed since
  (`Dirtied`); what no query named and the search of the history has seen was
  neither (`Judged`, `Searched`); what is struck off was named by one (`Shown`).
  Assumed: `ResultAssumption`. The bound of the search appears as in the code: beyond
  `Depth` commits since the beginning nothing is claimed.
- `DoubleIsAlike`: `StoresAlike`. `View` is what `InMemoryStore` holds for what
  `SQLiteStore` holds (no Sprint is the empty Sprint); one lemma for each method says
  that from a store and its view it leads to a store and its view with the same answer,
  or to a listed difference, after which `alike` is false. Counting by status needs
  that every row has one of the three (`ProgressAlike`).

Only model-checked:

- liveness (`CommandsReturn` of `TaskLifecycle`): it and ENABLED are out of the
  prover's reach. In `SprintLifecycle` it is not even asked: the loops there run over
  lists fixed when they start, and every step leads forward;
- what a recursive definition computes for every input: `RulesSound`, `ConfigSound`,
  `ReadAsWritten` of `EvidenceSound`, `TotalIsSum` of `RecordsKept`;
- `NoTwinToday`, `NewestFirstWithinADay`: arithmetic on dates, once the window and the
  formats are given;
- `PartsTyped` as a whole (of most parts the types are proved, see above).

## Not modelled

- *Sprint ceremony documents, ceremonies:* templates and counts of words over
  text, and facts collected for reports; they decide nothing about shared state.
- *Sprint tiers:* a comparison of points with a table.
- *Sprint identifiers across worktrees:* a warning before create.
- *Hash chain verification:* called by tests only (see above).
- *Hooks:* warnings and the installation of scripts.
- *Command line:* parsing and output. Its calls are the actions of the modules.
- Within modelled parts: the fields of `task update` but status; harness
  templates and conditional items; the gate of a Sprint, which only refuses; the
  layout of the generated tables; the patterns of rules; the getters of
  configuration fields that read one key each, the extract DSL and the
  rendering of differences; the listing and searching of cards; the counts of
  `audit --summary`; the no-op store.

## Plan

Done: the modules above, their runs, and the proofs of `TaskLifecycle`,
`TaskCreate`, `AuditLog`, `WorkTicket`, `SprintLifecycle`, `BacklogSync`, `Registry`,
`Migration`, `KnowledgeBase`, `GateLog`, and of the checks of `ResultCheck` and the
pair of `Stores`.

Left, in the order of its worth:

1. Rows of SPRINT.md with their text (removal by `| T |` in any cell) and the
   stat and rename of a Task's move as two steps.
