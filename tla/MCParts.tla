------------------------------- MODULE MCParts -------------------------------
(***************************************************************************)
(* The parts of the program that share no state with one another: sync,    *)
(* the registry, the knowledge base, the log of the gate, the migration,   *)
(* the two stores, the rule engine, the check of a Result section, the     *)
(* configuration and work tickets.  One run checks them all: a behaviour   *)
(* belongs to one part, which `part` names, and the others stay parked.    *)
(***************************************************************************)
EXTENDS MCBacklogSync, Sequences, TLC

CONSTANTS
    Missing, Torn, NoEnv, NoValue,   \* of Registry; Torn of WorkTicket too
    Absent, Garbled,                 \* of KnowledgeBase; Absent of WorkTicket too
    NoTaskRow, NoRegistry, Null,     \* of Migration and Stores
    NoSource, Broken, NoMessage,     \* of RuleEngine
    Parked

VARIABLES
    part,
    rRuntime, rDocs, rPc, rJob, rIssued, rCrashes, rCalm, rGranted,
    kCards, kIndex, kAuthor, kCalls, kKills, kQuiet, kCreated, kFresh,
    gLines, gCut, gLabels, gLabelCut, gRows, gMarks, gSecond, gAppends, gTears,
    gAnswered, gOdd,
    mFiles, mFolder, mRegistry, mTaskRows, mSprintRows, mCounter, mImport, mRuns,
    mEvents, mLoadFailures, mUndisturbed, mSettled,
    sSql, sMem, sMinute, sMade, sAlike,
    eDisk, eEnv, eIndex, eWork, eMessage, ePc, eCommand, eCfg, eEff, eLeft, eExtra,
    eQueue, eBusy, eResults, eExit, eLog, eReports, eCommands, eEdits, eRead, eBlessed,
    vTask, vUnstaged, vStaged, vUntracked, vCommits, vClock, vPc, vQueries,
    vChanged, vChecked, vMissing, vLeft, vVerdict, vJudged, vEdits, vBegun,
    vDisturbed,
    cDirs, cEnv, cPc, cCommand, cPath, cCfg, cValid, cReport, cData, cPlan,
    cUsed, cShown, cCommands, cEdits, cKills, cBegun, cCalm, cOrigin, cClean,
    wStatus, wTicket, wChecked, wAcks, wFile, wContext, wClock, wTtl, wMenu,
    wPc, wJob, wIssued, wCommands, wEvents, wFaults, wCalm, wOverlapped,
    wStrayed, wUnasked, wBasis

\* Two ports are taken, one in an environment and one everywhere.
Ports ==
    "ports" :> <<[kind |-> "unique", lo |-> 2, hi |-> 2, env |-> "dev", owner |-> 0],
                 [kind |-> "unique", lo |-> 1, hi |-> 1, env |-> NoEnv, owner |-> 0]>>
RangesAsked == {<<1, 2>>, <<5, 4>>}
Reserved ==
  INSTANCE Registry WITH
    Proc <- {p1, p2}, Name <- {"ports"}, Env <- {"dev", "prod"}, Value <- {2},
    Bounds <- RangesAsked, Size <- 2, Start <- 1, Seed <- Ports,
    MaxCommands <- 2, MaxCrashes <- 1,
    runtime <- rRuntime, docs <- rDocs, pc <- rPc, job <- rJob, issued <- rIssued,
    crashes <- rCrashes, calm <- rCalm, granted <- rGranted

\* The cards of one file have gaps and another's prefix.
CardPrefix == ("review" :> "M") @@ ("infra" :> "O")
CardsLeft ==
    ("review" :> <<[prefix |-> "M", number |-> 2, call |-> 0],
                   [prefix |-> "O", number |-> 2, call |-> 0]>>) @@ ("infra" :> <<>>)
Cards ==
  INSTANCE KnowledgeBase WITH
    Author <- {p1, p2}, CardFile <- {"review", "infra"}, Prefix <- CardPrefix,
    Handwritten <- CardsLeft, MaxCalls <- 3, MaxKills <- 1,
    cards <- kCards, index <- kIndex, author <- kAuthor, calls <- kCalls,
    kills <- kKills, quiet <- kQuiet, created <- kCreated, fresh <- kFresh

Judgements ==
  INSTANCE GateLog WITH
    Verdict <- {"pass", "block", "skip"}, GateRule <- {"r1"}, GivenId <- {1},
    MaxAppends <- 3, MaxTears <- 2, MaxSecond <- 1,
    lines <- gLines, cut <- gCut, labels <- gLabels, labelCut <- gLabelCut,
    rows <- gRows, marks <- gMarks, second <- gSecond, appends <- gAppends,
    tears <- gTears, answered <- gAnswered, odd <- gOdd

\* Files in each place, two of one Task, one that does not parse.
FileOf(t, n, d, st) ==
    [task |-> t, place |-> [sprint |-> n, deep |-> d], status |-> st, ok |-> TRUE]
FilesLeft ==
    { {FileOf(1, 0, FALSE, "todo"), FileOf(2, 1, FALSE, "done")},
      {FileOf(1, 1, FALSE, "todo"), FileOf(1, 1, TRUE, "done"),
       [FileOf(2, 0, FALSE, "todo") EXCEPT !.ok = FALSE]},
      {FileOf(1, 0, TRUE, "done"), FileOf(2, 1, FALSE, "todo")} }
RegistriesLeft == {NoRegistry, [lastId |-> 2, history |-> {1, 2}],
                   [lastId |-> 3, history |-> {1}]}
RowsLeft == { [t \in 1..4 |-> NoTaskRow], [t \in 1..4 |-> IF t = 2 THEN "todo" ELSE NoTaskRow] }
Migrated ==
  INSTANCE Migration WITH
    TaskNo <- 1..4, SprintNo <- {1}, Layouts <- FilesLeft, Registries <- RegistriesLeft,
    OldRows <- RowsLeft, MaxRuns <- 2, MaxEvents <- 1, MaxLoadFailures <- 1,
    NoRow <- NoTaskRow,
    files <- mFiles, folder <- mFolder, registry <- mRegistry,
    taskRows <- mTaskRows, sprintRows <- mSprintRows, counter <- mCounter,
    import <- mImport, runs <- mRuns, events <- mEvents,
    loadFailures <- mLoadFailures, undisturbed <- mUndisturbed, settled <- mSettled

\* No rows, or two Tasks of which one is in a Sprint.
Tables(ts, ps) ==
    [tasks |-> ts, sprints |-> ps, counter |-> 1,
     items |-> [t \in 1..2 |-> [i \in {"build", "tests"} |-> "absent"]],
     tickets |-> [t \in 1..2 |-> ""], acked |-> NoTaskRow, secret |-> NoTaskRow]
NoTables == Tables([t \in 1..2 |-> NoTaskRow], [p \in {"s1"} |-> NoTaskRow])
SomeTables ==
    Tables([t \in 1..2 |->
              IF t = 1 THEN [status |-> "todo", sprint |-> Null, path |-> "loose", priority |-> "p2"]
              ELSE [status |-> "todo", sprint |-> "s1", path |-> "backlog", priority |-> "p0"]],
           [p \in {"s1"} |-> [status |-> "backlog", path |-> "backlog", title |-> "a"]])
Stored ==
  INSTANCE Stores WITH
    TaskId <- 1..2, SprintId <- {"s1"}, Priority <- <<"p0", "p2">>,
    Seeds <- {NoTables, SomeTables}, MaxCalls <- 3, MaxMinute <- 2, NoRow <- NoTaskRow,
    sql <- sSql, mem <- sMem, minute <- sMinute, made <- sMade, alike <- sAlike

\* A rule of each kind; `ghost` is configured but not registered.
RuleKind ==
    [secrets |-> "secrets", inner |-> "placed", uuid |-> "uuid", cards |-> "reference",
     oss |-> "identity", size |-> "size", korean |-> "message", vet |-> "script",
     tagged |-> "task_id", harness |-> "listed", tools |-> "tools", hooks |-> "hooks",
     ghost |-> "own_file"]
Rules == DOMAIN RuleKind
RuleDefault ==
    [r \in Rules |-> IF r \in {"tagged", "harness", "tools", "hooks"} THEN "advisory" ELSE "block"]
RuleWatched ==
    [r \in Rules |-> IF r \in {"uuid", "cards", "oss", "size", "vet", "tools", "hooks"}
                    THEN {"a"} ELSE {}]

\* Configurations: what a file extends, its policies, its own rules.
Says(extends, policies, own) == [extends |-> extends, policies |-> policies, rules |-> own]
Core(sets) == [name |-> "core", sets |-> sets]
On(main, team, base) ==
    [team |-> team, base |-> base,
     recommended |-> Says(<<>>, <<Core("secrets" :> "block")>>, "tagged" :> "warn")]
    @@ ("rules.yaml" :> main)
Strict ==
    Says(<<"recommended">>, <<>>, [secrets |-> "hard-block", ghost |-> "warn"])
Layered == On(Says(<<"recommended", "team">>, <<Core("secrets" :> "warn")>>, <<>>), Strict, NoSource)
Hard == On(Says(<<"team">>, <<>>, "inner" :> "off"), Strict, NoSource)
Diamond == On(Says(<<"team", "recommended">>, <<>>, "secrets" :> "hard-block"),
              Says(<<"base">>, <<>>, "vet" :> "warn"),
              Says(<<>>, <<>>, "vet" :> "block"))
Deep == On(Says(<<"team">>, <<>>, <<>>), Says(<<"base">>, <<>>, <<>>),
           Says(<<"recommended">>, <<>>, <<>>))
Circle == On(Says(<<"team">>, <<>>, <<>>), Says(<<"base">>, <<>>, <<>>),
             Says(<<"team">>, <<>>, <<>>))
Unset == [r \in Rules |-> "unset"]
Relaxed == [Unset EXCEPT !["secrets"] = "warn", !["vet"] = "bad"]
RulesBegin(disk, env, staged, message) ==
    [disk |-> disk, env |-> env, index |-> [a |-> staged, b |-> "none"],
     work |-> [a |-> IF staged = "none" THEN "unheaded" ELSE "flawed", b |-> "secret"],
     message |-> message]
Foreign == [language |-> "foreign", tagged |-> FALSE]
RuleStarts ==
    { RulesBegin(On(NoSource, NoSource, NoSource), Relaxed, "secret", NoMessage),
      RulesBegin(Layered, Relaxed, "none", Foreign), RulesBegin(Hard, Relaxed, "secret", Foreign),
      RulesBegin(Diamond, Relaxed, "secret", NoMessage), RulesBegin(Deep, Unset, "none", NoMessage),
      RulesBegin(Circle, Unset, "none", NoMessage),
      RulesBegin(On(Broken, NoSource, NoSource), Unset, "none", NoMessage) }
RuleEdits ==
    { <<"team", Broken>>, <<"team", Says(<<>>, <<>>, "vet" :> "loud")>>,
      <<"rules.yaml", Says(<<"team">>, <<>>, "secrets" :> "off")>> }
RuleCommand(k, p, a, r) == [kind |-> k, phase |-> p, audit |-> a, rule |-> r]
RuleCommands ==
    { RuleCommand("run", "precommit", FALSE, "vet"), RuleCommand("run", "all", TRUE, "vet"),
      RuleCommand("run", "commit-msg", FALSE, "vet"), RuleCommand("exec", "", FALSE, "vet"),
      RuleCommand("exec", "", FALSE, "ghost"), RuleCommand("explain", "", FALSE, "ghost"),
      RuleCommand("validate", "", FALSE, "vet"), RuleCommand("diff", "", FALSE, "vet") }
Ruled ==
  INSTANCE RuleEngine WITH
    Rule <- Rules, Registered <- Rules \ {"ghost"}, Kind <- RuleKind,
    Default <- RuleDefault, Watched <- RuleWatched, File <- {"a", "b"}, Test <- {},
    Misplaced <- {"b"}, Source <- {"team", "base", "recommended"},
    Preset <- {"recommended"}, Starts <- RuleStarts, Edits <- RuleEdits,
    Commands <- RuleCommands, MaxExtendsDepth <- 2, Workers <- 2, MaxCommands <- 2,
    MaxEdits <- 1, NoFile <- NoSource,
    disk <- eDisk, env <- eEnv, index <- eIndex, work <- eWork, message <- eMessage,
    pc <- ePc, command <- eCommand, cfg <- eCfg, eff <- eEff, left <- eLeft,
    extra <- eExtra, queue <- eQueue, busy <- eBusy, results <- eResults, exit <- eExit,
    log <- eLog, reports <- eReports, commands <- eCommands, edits <- eEdits,
    read <- eRead, blessed <- eBlessed

\* Bodies of a heading and three lines, read in a clean repository; and a
\* Result section of two lines, checked while the repository is worked in.
SrcPath == <<"src", "a">>
LibPath == <<"lib", "b">>
DocPath == <<"doc", "c">>
ApiPath == <<"gen", "api">>
TaskPath == <<"works", "T1">>
Token(form, path) == [form |-> form, path |-> path]
BodyLine(is, ticks, bare, moved) == [is |-> is, ticks |-> ticks, bare |-> bare, moved |-> moved]
Lines(kinds) == {BodyLine(k, <<>>, <<>>, FALSE) : k \in kinds}
Bodies(h, alphabet) == {<<BodyLine(h, <<>>, <<>>, FALSE)>> \o b : b \in [1..3 -> alphabet]}
Prose == <<Token("word", <<"x">>), Token("plain", SrcPath), Token("inside", SrcPath)>>
ResultBodies ==
    Bodies("title", Lines({"heading", "title", "rule", "artifacts", "narrative"}) \cup
        { BodyLine("bullet", <<Token("plain", SrcPath), Token("plain", LibPath)>>, <<>>, FALSE),
          BodyLine("done", <<Token("plain", SrcPath), Token("plain", LibPath)>>, <<>>, FALSE),
          BodyLine("prose", Prose, <<>>, FALSE),
          BodyLine("row", <<>>, <<Token("plain", LibPath)>>, TRUE),
          BodyLine("nested", <<Token("plain", LibPath)>>, <<>>, FALSE) })
OtherBodies ==
    UNION {Bodies(h, Lines({"heading", h, "blank", "rule", "ref", "done", "open"})) :
             h \in {"followup", "criteria", "rollback"}}
ResultBegins(body, type, policy, created, commits, unstaged, staged, edits) ==
    [task |-> [body |-> body, type |-> type, policy |-> policy, created |-> created],
     commits |-> commits, clock |-> 3, unstaged |-> unstaged, staged |-> staged,
     edits |-> edits]
Reading ==
    UNION { {ResultBegins(b, t, "strict", 0, <<>>, {}, {}, 3) :
                b \in ResultBodies, t \in {"feature", "infra"}},
            {ResultBegins(b, "hotfix", "strict", 0, <<>>, {}, {}, 3) : b \in OtherBodies} }
SomeCommits ==
    << [files |-> {SrcPath}, at |-> 1], [files |-> {LibPath}, at |-> 1],
       [files |-> {DocPath}, at |-> 2] >>
Naming(tokens) ==
    << BodyLine("title", <<>>, <<>>, FALSE),
       BodyLine("bullet", <<Token("plain", SrcPath)>>, <<>>, FALSE),
       BodyLine("row", <<>>, tokens, FALSE) >>
Checking ==
    {ResultBegins(Naming(<<t>>), "feature", p, c, SomeCommits, {SrcPath}, {LibPath}, 0) :
       t \in {Token("plain", ApiPath), Token("outside", SrcPath), Token("plain", <<"b">>),
              Token("plain", TaskPath)},
       p \in {"strict", "warn"}, c \in {0, 1}}
    \cup {ResultBegins(Naming(<<>>), "feature", p, c, SomeCommits, {}, {LibPath}, 0) :
            p \in {"strict", "warn", "off"}, c \in {0, 1}}
Verified ==
  INSTANCE ResultCheck WITH
    File <- {SrcPath, LibPath, DocPath, ApiPath}, Self <- TaskPath,
    Driftless <- {<<"api">>}, DiffTypes <- {"feature"}, Depth <- 1, MinChars <- 20,
    Begins <- UNION {Reading, Checking}, MaxEdits <- 3,
    task <- vTask, unstaged <- vUnstaged, staged <- vStaged,
    untracked <- vUntracked, commits <- vCommits, clock <- vClock, pc <- vPc,
    queries <- vQueries, changed <- vChanged, checked <- vChecked,
    missing <- vMissing, left <- vLeft, verdict <- vVerdict, judged <- vJudged, edits <- vEdits,
    begun <- vBegun, disturbed <- vDisturbed

\* What the presets of the binary set; files in each folder, of each form.
BuiltIn ==
    [base |-> ("policy" :> "strict") @@ ("titles" :> <<"Result", "Deliverables">>),
     go |-> ("kind" :> "go") @@ ("lint" :> <<"gofmt">>) @@ ("rules" :> <<"go">>),
     dotnet |-> ("kind" :> "dotnet") @@ ("rules" :> <<"roslyn">>)]
ConfigFile(version, extends, sets) ==
    [form |-> "yaml", version |-> version, plain |-> TRUE, schema |-> FALSE, typos |-> {},
     extends |-> extends, sets |-> sets, sorted |-> FALSE]
OwnValues ==
    ("policy" :> "warn") @@ ("titles" :> <<"Result", "Outcome">>) @@ ("days" :> 7)
    @@ ("key" :> "k1") @@ ("rules" :> <<"ours">>)
Converted == [ConfigFile(<<2, 0, 0>>, <<"base", "go">>, OwnValues) EXCEPT !.schema = TRUE]
Repeated == [ConfigFile(<<2, 0, 0>>, <<"base", "base">>,
                        ("titles" :> Null) @@ ("rules" :> Null) @@ ("policy" :> "loud"))
             EXCEPT !.sorted = TRUE]
Older == [ConfigFile(<<>>, <<>>, "key" :> "k2") EXCEPT !.schema = TRUE]
Unseen == [Converted EXCEPT !.plain = FALSE, !.typos = {"top", "nested"}]
Clashing == ConfigFile(<<2, 1, 0>>, <<"go", "dotnet">>, "driftless" :> <<"x">>)
Dangling == ConfigFile(<<2, 0, 0>>, <<"base", "ghost">>, OwnValues)
Future == ConfigFile(<<3, 0, 0>>, <<>>, OwnValues)
NotYaml == [ConfigFile(<<>>, <<>>, <<>>) EXCEPT !.form = "garbled"]
NoFolder == [is |-> "none", yaml |-> NoSource, yml |-> NoSource]
FolderWith(yaml, yml) == [is |-> "dir", yaml |-> yaml, yml |-> yml]
Folders(brand, hstl, hostler, other) ==
    (".hstl-oss" :> brand) @@ (".hstl" :> hstl) @@ (".hostler" :> hostler) @@ (".pry4" :> other)
Environment(policy, titles, days, key) ==
    [policy |-> policy, titles |-> titles, days |-> days, key |-> key]
NoVariables == Environment("", <<>>, 0, "")
Loud == Environment("loud", <<"A", "A">>, 0, "k3")
Firm == Environment("off", <<>>, 3, "")
ConfigStarts ==
    { [dirs |-> Folders(FolderWith(Converted, NoSource), NoFolder, NoFolder, NoFolder), env |-> NoVariables],
      [dirs |-> Folders(NoFolder, NoFolder, FolderWith(Converted, NoSource), NoFolder), env |-> Loud],
      [dirs |-> Folders(NoFolder, NoFolder, FolderWith(Repeated, NoSource), NoFolder), env |-> Firm],
      [dirs |-> Folders(FolderWith(NoSource, Unseen), FolderWith(Older, NoSource),
                        FolderWith(Future, NoSource), NoFolder), env |-> NoVariables],
      [dirs |-> Folders(NoFolder, FolderWith(Older, Repeated), NoFolder, NoFolder), env |-> NoVariables],
      [dirs |-> Folders(FolderWith(Dangling, NoSource), NoFolder, NoFolder, FolderWith(NoSource, NoSource)),
       env |-> Firm],
      [dirs |-> Folders(FolderWith(Clashing, NoSource), NoFolder, NoFolder, NoFolder), env |-> Loud],
      [dirs |-> Folders(FolderWith(NotYaml, NoSource), NoFolder, NoFolder, NoFolder), env |-> NoVariables],
      [dirs |-> Folders(NoFolder, NoFolder, NoFolder, NoFolder), env |-> NoVariables] }
ConfigEdits ==
    {<<<<".hstl-oss", "yaml">>, Older>>, <<<<".hostler", "yaml">>, Future>>}
ConfigCommand(kind, yes, dry, to, keep) ==
    [kind |-> kind, yes |-> yes, dry |-> dry, to |-> to, keep |-> keep]
ConfigCommands ==
    { ConfigCommand("use", FALSE, FALSE, "", FALSE),
      ConfigCommand("effective", FALSE, FALSE, "", FALSE),
      ConfigCommand("check", FALSE, FALSE, "", FALSE),
      ConfigCommand("fix", TRUE, FALSE, "", FALSE), ConfigCommand("fix", FALSE, FALSE, "", FALSE),
      ConfigCommand("fix", FALSE, TRUE, "", FALSE),
      ConfigCommand("migrate", FALSE, FALSE, ".hstl", TRUE),
      ConfigCommand("migrate", FALSE, FALSE, ".hstl", FALSE),
      ConfigCommand("migrate", FALSE, FALSE, ".pry4", FALSE) }
Configured ==
  INSTANCE Configuration WITH
    Proc <- {p1, p2}, Presets <- BuiltIn, Starts <- ConfigStarts, Edits <- ConfigEdits,
    Commands <- ConfigCommands, MaxCommands <- 2, MaxEdits <- 1, MaxKills <- 1,
    NoFile <- NoSource,
    dirs <- cDirs, env <- cEnv, pc <- cPc, command <- cCommand, path <- cPath,
    cfg <- cCfg, valid <- cValid, report <- cReport, data <- cData,
    plan <- cPlan, used <- cUsed, shown <- cShown, commands <- cCommands,
    edits <- cEdits, kills <- cKills, begun <- cBegun, calm <- cCalm,
    origin <- cOrigin, clean <- cClean

\* A Task not yet there; one in progress in two worktrees; one that is done.
\* Each behaviour gives few kinds of commands, and sees time pass and files
\* replaced, or a failure, or neither.
TicketTemplate == <<"context_acknowledged", "tests_passed", "criteria_checked">>
TicketBegins(st, menu1, menu2, minutes, seen, failing) ==
    LET there == st # "none"
    IN  [status |-> st, ticket |-> IF there THEN 1 ELSE 0,
         file |-> [v \in {w1, w2} |-> IF there THEN 1 ELSE Absent],
         checked |-> IF st = "done" THEN {TicketTemplate[i] : i \in 1..3}
                     ELSE IF "complete" \in menu1 THEN {"criteria_checked"} ELSE {},
         menu |-> (p1 :> menu1) @@ (p2 :> menu2), ttl |-> minutes,
         events |-> 2 - seen, faults |-> 1 - failing]
TicketScenes ==
    { TicketBegins("none", {"create", "start", "reconcile"},
                   {"create", "start", "reconcile"}, 0, 0, 1),
      TicketBegins("in-progress", {"checkpoint"}, {"checkpoint", "reconcile"}, 0, 1, 0),
      TicketBegins("in-progress", {"checkpoint", "reconcile"}, {}, 0, 1, 1),
      TicketBegins("in-progress", {"context", "check", "check-all"},
                   {"checkpoint", "check-all"}, 0, 0, 0),
      TicketBegins("in-progress", {"context", "check"}, {}, 1, 2, 0),
      TicketBegins("in-progress", {"auto-check", "context"}, {}, 0, 2, 0),
      TicketBegins("in-progress", {"auto-check", "context"}, {}, 1, 2, 0),
      TicketBegins("in-progress", {"auto-check"}, {"checkpoint"}, 0, 0, 1),
      TicketBegins("in-progress", {"complete", "reopen", "start"}, {"checkpoint"}, 0, 0, 0),
      TicketBegins("done", {"complete", "reopen", "start"}, {"start"}, 0, 0, 0) }
Ticketed ==
  INSTANCE WorkTicket WITH
    Proc <- {p1, p2}, Worktree <- {w1, w2}, Context <- {"before", "after"},
    Template <- TicketTemplate, Begins <- TicketScenes,
    MaxCommands <- 3, MaxEvents <- 2, MaxFaults <- 1,
    status <- wStatus, ticket <- wTicket, checked <- wChecked, acks <- wAcks,
    file <- wFile, context <- wContext, clock <- wClock, ttl <- wTtl,
    menu <- wMenu, pc <- wPc, job <- wJob, issued <- wIssued,
    commands <- wCommands, events <- wEvents, faults <- wFaults, calm <- wCalm,
    overlapped <- wOverlapped, strayed <- wStrayed, unasked <- wUnasked,
    basis <- wBasis

ASSUME Reserved!RegistryAssumption
ASSUME Cards!KBAssumption
ASSUME Judgements!GateAssumption
ASSUME Migrated!ProjectAssumption
ASSUME Verified!ResultAssumption
ASSUME Stored!StoresAssumption

\* Nothing to do: sync's state while another part runs.
Quiet == Scenario(NoRow, Bare, Bare, Listing0, Active, NoDocs, Scene(0, 0, 0, {}))

AtRest ==
    /\ tasks = Quiet.tasks /\ files = Quiet.files /\ backlog = Quiet.backlog
    /\ sprints = Quiet.sprints /\ docs = Quiet.docs /\ scene = Quiet.scene
    /\ pc = [p \in Proc |-> "idle"] /\ job = [p \in Proc |-> NoJob]
    /\ rounds = [p \in Proc |-> 0] /\ faults = 0
NoReserved ==
    /\ rRuntime = Parked /\ rDocs = Parked /\ rPc = Parked
    /\ rJob = Parked /\ rIssued = Parked /\ rCrashes = Parked
    /\ rCalm = Parked /\ rGranted = Parked
NoCards ==
    /\ kCards = Parked /\ kIndex = Parked /\ kAuthor = Parked
    /\ kCalls = Parked /\ kKills = Parked /\ kQuiet = Parked
    /\ kCreated = Parked /\ kFresh = Parked
NoJudgements ==
    /\ gLines = Parked /\ gCut = Parked /\ gLabels = Parked
    /\ gLabelCut = Parked /\ gRows = Parked /\ gMarks = Parked
    /\ gSecond = Parked /\ gAppends = Parked /\ gTears = Parked
    /\ gAnswered = Parked /\ gOdd = Parked
NoMigrated ==
    /\ mFiles = Parked /\ mFolder = Parked /\ mRegistry = Parked
    /\ mTaskRows = Parked /\ mSprintRows = Parked /\ mCounter = Parked
    /\ mImport = Parked /\ mRuns = Parked /\ mEvents = Parked
    /\ mLoadFailures = Parked /\ mUndisturbed = Parked /\ mSettled = Parked
NoStored ==
    /\ sSql = Parked /\ sMem = Parked /\ sMinute = Parked
    /\ sMade = Parked /\ sAlike = Parked
NoRuled ==
    /\ eDisk = Parked /\ eEnv = Parked /\ eIndex = Parked
    /\ eWork = Parked /\ eMessage = Parked /\ ePc = Parked
    /\ eCommand = Parked /\ eCfg = Parked /\ eEff = Parked
    /\ eLeft = Parked /\ eExtra = Parked /\ eQueue = Parked
    /\ eBusy = Parked /\ eResults = Parked /\ eExit = Parked
    /\ eLog = Parked /\ eReports = Parked /\ eCommands = Parked
    /\ eEdits = Parked /\ eRead = Parked /\ eBlessed = Parked
NoVerified ==
    /\ vTask = Parked /\ vUnstaged = Parked /\ vStaged = Parked
    /\ vUntracked = Parked /\ vCommits = Parked /\ vClock = Parked
    /\ vPc = Parked /\ vQueries = Parked /\ vChanged = Parked
    /\ vChecked = Parked /\ vMissing = Parked /\ vLeft = Parked
    /\ vVerdict = Parked
    /\ vJudged = Parked /\ vEdits = Parked /\ vBegun = Parked
    /\ vDisturbed = Parked
NoConfigured ==
    /\ cDirs = Parked /\ cEnv = Parked /\ cPc = Parked
    /\ cCommand = Parked /\ cPath = Parked /\ cCfg = Parked
    /\ cValid = Parked /\ cReport = Parked /\ cData = Parked
    /\ cPlan = Parked /\ cUsed = Parked /\ cShown = Parked
    /\ cCommands = Parked /\ cEdits = Parked /\ cKills = Parked
    /\ cBegun = Parked /\ cCalm = Parked /\ cOrigin = Parked
    /\ cClean = Parked
NoTickets ==
    /\ wStatus = Parked /\ wTicket = Parked /\ wChecked = Parked
    /\ wAcks = Parked /\ wFile = Parked /\ wContext = Parked
    /\ wClock = Parked /\ wTtl = Parked /\ wMenu = Parked
    /\ wPc = Parked /\ wJob = Parked /\ wIssued = Parked
    /\ wCommands = Parked /\ wEvents = Parked /\ wFaults = Parked
    /\ wCalm = Parked /\ wOverlapped = Parked /\ wStrayed = Parked
    /\ wUnasked = Parked /\ wBasis = Parked

registryVars == <<rRuntime, rDocs, rPc, rJob, rIssued, rCrashes, rCalm, rGranted>>
cardVars == <<kCards, kIndex, kAuthor, kCalls, kKills, kQuiet, kCreated, kFresh>>
judgementVars == <<gLines, gCut, gLabels, gLabelCut, gRows, gMarks, gSecond,
                   gAppends, gTears, gAnswered, gOdd>>
migratedVars == <<mFiles, mFolder, mRegistry, mTaskRows, mSprintRows, mCounter,
                  mImport, mRuns, mEvents, mLoadFailures, mUndisturbed, mSettled>>
storedVars == <<sSql, sMem, sMinute, sMade, sAlike>>
ruledVars == <<eDisk, eEnv, eIndex, eWork, eMessage, ePc, eCommand, eCfg, eEff, eLeft,
               eExtra, eQueue, eBusy, eResults, eExit, eLog, eReports, eCommands,
               eEdits, eRead, eBlessed>>
verifiedVars == <<vTask, vUnstaged, vStaged, vUntracked, vCommits, vClock, vPc,
                  vQueries, vChanged, vChecked, vMissing, vLeft, vVerdict, vJudged,
                  vEdits, vBegun, vDisturbed>>
configuredVars == <<cDirs, cEnv, cPc, cCommand, cPath, cCfg, cValid, cReport,
                    cData, cPlan, cUsed, cShown, cCommands, cEdits, cKills,
                    cBegun, cCalm, cOrigin, cClean>>
ticketVars == <<wStatus, wTicket, wChecked, wAcks, wFile, wContext, wClock,
                wTtl, wMenu, wPc, wJob, wIssued, wCommands, wEvents, wFaults,
                wCalm, wOverlapped, wStrayed, wUnasked, wBasis>>

PartsInit ==
    \/ /\ part = "sync" /\ Init
       /\ NoReserved /\ NoCards /\ NoJudgements /\ NoMigrated /\ NoStored
       /\ NoRuled /\ NoVerified /\ NoConfigured /\ NoTickets
    \/ /\ part = "registry" /\ Reserved!Init
       /\ AtRest /\ NoCards /\ NoJudgements /\ NoMigrated /\ NoStored
       /\ NoRuled /\ NoVerified /\ NoConfigured /\ NoTickets
    \/ /\ part = "kb" /\ Cards!Init
       /\ AtRest /\ NoReserved /\ NoJudgements /\ NoMigrated /\ NoStored
       /\ NoRuled /\ NoVerified /\ NoConfigured /\ NoTickets
    \/ /\ part = "gate_log" /\ Judgements!Init
       /\ AtRest /\ NoReserved /\ NoCards /\ NoMigrated /\ NoStored
       /\ NoRuled /\ NoVerified /\ NoConfigured /\ NoTickets
    \/ /\ part = "migration" /\ Migrated!Init
       /\ AtRest /\ NoReserved /\ NoCards /\ NoJudgements /\ NoStored
       /\ NoRuled /\ NoVerified /\ NoConfigured /\ NoTickets
    \/ /\ part = "stores" /\ Stored!Init
       /\ AtRest /\ NoReserved /\ NoCards /\ NoJudgements /\ NoMigrated
       /\ NoRuled /\ NoVerified /\ NoConfigured /\ NoTickets
    \/ /\ part = "rules" /\ Ruled!Init
       /\ AtRest /\ NoReserved /\ NoCards /\ NoJudgements /\ NoMigrated
       /\ NoStored /\ NoVerified /\ NoConfigured /\ NoTickets
    \/ /\ part = "result" /\ Verified!Init
       /\ AtRest /\ NoReserved /\ NoCards /\ NoJudgements /\ NoMigrated
       /\ NoStored /\ NoRuled /\ NoConfigured /\ NoTickets
    \/ /\ part = "config" /\ Configured!Init
       /\ AtRest /\ NoReserved /\ NoCards /\ NoJudgements /\ NoMigrated
       /\ NoStored /\ NoRuled /\ NoVerified /\ NoTickets
    \/ /\ part = "tickets" /\ Ticketed!Init
       /\ AtRest /\ NoReserved /\ NoCards /\ NoJudgements /\ NoMigrated
       /\ NoStored /\ NoRuled /\ NoVerified /\ NoConfigured

PartsNext ==
    /\ UNCHANGED part
    /\ \/ /\ part = "sync" /\ Next
          /\ UNCHANGED <<registryVars, cardVars, judgementVars, migratedVars, storedVars,
                         ruledVars, verifiedVars, configuredVars, ticketVars>>
       \/ /\ part = "registry" /\ Reserved!Next
          /\ UNCHANGED <<vars, cardVars, judgementVars, migratedVars, storedVars,
                         ruledVars, verifiedVars, configuredVars, ticketVars>>
       \/ /\ part = "kb" /\ Cards!Next
          /\ UNCHANGED <<vars, registryVars, judgementVars, migratedVars, storedVars,
                         ruledVars, verifiedVars, configuredVars, ticketVars>>
       \/ /\ part = "gate_log" /\ Judgements!Next
          /\ UNCHANGED <<vars, registryVars, cardVars, migratedVars, storedVars,
                         ruledVars, verifiedVars, configuredVars, ticketVars>>
       \/ /\ part = "migration" /\ Migrated!Next
          /\ UNCHANGED <<vars, registryVars, cardVars, judgementVars, storedVars,
                         ruledVars, verifiedVars, configuredVars, ticketVars>>
       \/ /\ part = "stores" /\ Stored!Next
          /\ UNCHANGED <<vars, registryVars, cardVars, judgementVars, migratedVars,
                         ruledVars, verifiedVars, configuredVars, ticketVars>>
       \/ /\ part = "rules" /\ Ruled!Next
          /\ UNCHANGED <<vars, registryVars, cardVars, judgementVars, migratedVars,
                         storedVars, verifiedVars, configuredVars, ticketVars>>
       \/ /\ part = "result" /\ Verified!Next
          /\ UNCHANGED <<vars, registryVars, cardVars, judgementVars, migratedVars,
                         storedVars, ruledVars, configuredVars, ticketVars>>
       \/ /\ part = "config" /\ Configured!Next
          /\ UNCHANGED <<vars, registryVars, cardVars, judgementVars, migratedVars,
                         storedVars, ruledVars, verifiedVars, ticketVars>>
       \/ /\ part = "tickets" /\ Ticketed!Next
          /\ UNCHANGED <<vars, registryVars, cardVars, judgementVars, migratedVars,
                         storedVars, ruledVars, verifiedVars, configuredVars>>

partsVars == <<part, vars, registryVars, cardVars, judgementVars, migratedVars,
               storedVars, ruledVars, verifiedVars, configuredVars, ticketVars>>
PartsSpec == PartsInit /\ [][PartsNext]_partsVars

-----------------------------------------------------------------------------
(* The properties of the parts, where they are not parked.                 *)

\* The variables of every part keep their types.
PartsTyped ==
    CASE part = "sync" -> TypeOK
      [] part = "registry" -> Reserved!TypeOK
      [] part = "kb" -> Cards!TypeOK
      [] part = "gate_log" -> Judgements!TypeOK
      [] part = "migration" -> Migrated!TypeOK
      [] part = "stores" -> Stored!TypeOK
      [] part = "rules" -> Ruled!TypeOK
      [] part = "result" -> Verified!TypeOK
      [] part = "config" -> Configured!TypeOK
      [] part = "tickets" -> Ticketed!TypeOK

\* Neither file of the registry ever holds two allocations that conflict, what
\* `allocate` proposes is free, what it granted is there for the next command,
\* and what the snapshot holds is never lost.  No two cards of a file share an
\* identifier, a card answered as created stays, INDEX.md's total is the sum of
\* its rows, and a rebuild leaves every file its row and its count.  Both stores
\* of the gate's log answer `stats` alike, and a torn line costs at most one
\* acknowledged record.
RecordsKept ==
    /\ part = "registry" => Reserved!FilesConsistent /\ Reserved!RegistryKeeps
    /\ part = "kb" => Cards!KnowledgeKept
    /\ part = "gate_log" => Judgements!JudgementsKept

\* No row's number is beyond the counter; an import that ended left nothing
\* out; an undisturbed one archives no Task whose file it can read; and one
\* over what another left changes nothing.
ImportSound ==
    /\ [](part = "migration" => Migrated!CounterCovers /\ Migrated!MigratedComplete)
    /\ [][part = "migration" => Migrated!ArchivesUnseen /\ Migrated!ChangesNothing]_partsVars

\* The SQLite store and its double hold the same rows and answer queries alike.
StoresAlike == part = "stores" => Stored!StoresAlike

\* A rule gets the severity the files and the environment promise, what
\* `validate` found valid does not fail, a hook judges each of its rules once and
\* exits as the gate's log says, and no secret passes a hard-block.  Open where
\* types.go and the code part: a relaxed hard-block, a rule that is off.
RulesSound == part = "rules" => Ruled!RulesSound

\* `task complete` reads a file as its sections say; a file that was changed when
\* the check began, or on a day after the Task was created, never blocks it; and
\* what passes strictly was changed.  The context item is checked only on an
\* acknowledgement under a ticket of its time; a Task gets one ticket unasked,
\* row and file keep the same one, and reconciling believes the file.
EvidenceSound ==
    /\ part = "result" => Verified!ResultChecked
    /\ part = "tickets" => Ticketed!TicketsSound

\* A command takes each value from the environment, the file or a preset as
\* promised and shows what it uses; a fix settles what it can and changes no
\* value; and no order of a fix, a renamed folder and readers loses the file.  Open
\* where merge.go, brand.go and the code part: `~` over a value, a fix's folder.
ConfigSound == part = "config" => Configured!ConfigSound
=============================================================================
