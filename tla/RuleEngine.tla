------------------------------ MODULE RuleEngine ------------------------------
(***************************************************************************)
(* The rule engine: how `rules run` finds the severity of each rule from   *)
(* rules.yaml, what that file extends, its policies and the environment;   *)
(* how it runs the rules of a git hook, several at a time; and the other   *)
(* commands over the same rules (exec, list, explain, validate, diff).     *)
(*                                                                         *)
(* Commands run one after another, and files and the git index may change  *)
(* between any two of a command's steps.                                   *)
(***************************************************************************)
EXTENDS Integers, Sequences, SequencesExt, FiniteSets, FiniteSetsExt

CONSTANTS
    Rule,              \* rules of the registry, and others that are configured
    Registered,
    Kind,              \* of each rule: message, task_id, secrets, placed, uuid,
                       \* reference, identity, size, script, tools, hooks, own_file, listed
    Default,           \* DefaultSeverity of each rule
    Watched,           \* the files that make a rule apply; {} for always
    File, Test, Misplaced,   \* of the repository; test data; in an inner archive/
    Source, Preset,    \* what may be extended; the presets of the binary
    Starts,            \* what a behaviour may begin with
    Edits,             \* files that are written: <<source, configuration>>
    Commands,
    MaxExtendsDepth, Workers,
    MaxCommands, MaxEdits,       \* of a behaviour; `diff`, which changes nothing, is not counted
    NoFile, Broken, NoMessage

VARIABLES
    disk,        \* rules.yaml and the sources, each a configuration, NoFile or Broken
    env,         \* HSTL_RULE_<ID>: a severity, "bad" or "unset"
    index, work, \* the content of each file that is staged, and in the work tree: none,
                 \* clean, flawed (in its body), unheaded (in its frontmatter), secret
    message,     \* what --msg-file has
    pc, command, cfg, eff, left, extra, queue, busy, results, exit,
    log,         \* the judgements of this command: verdicts of each rule
    reports,     \* the last two reports of `rules run --audit`
    commands, edits,
    read,        \* history: the files as this command's resolution read them
    blessed      \* history: `validate` found these files valid

engineVars == <<disk, env, index, work, message, pc, command, cfg, eff, left, extra,
                queue, busy, results, exit, log, reports, commands, edits, read, blessed>>

Severity == {"off", "advisory", "warn", "block", "hard-block"}
Blocking == {"block", "hard-block"}
Status == {"ok", "violated", "skipped", "error"}

Main == "rules.yaml"
NoConfig == [extends |-> <<>>, policies |-> <<>>, rules |-> <<>>]
NoCommand == [kind |-> "none", phase |-> "", audit |-> FALSE, rule |-> CHOOSE r \in Rule : TRUE]
NoExtra == [phase |-> "", message |-> NoMessage, diff |-> [f \in File |-> "none"]]
Unresolved == [severity |-> "off", layer |-> "", source |-> "", chain |-> <<>>]
NoneResolved == [r \in Rule |-> Unresolved]

Init ==
    /\ \E s \in Starts :
          /\ disk = s.disk /\ env = s.env
          /\ index = s.index /\ work = s.work /\ message = s.message
    /\ pc = "idle" /\ command = NoCommand
    /\ cfg = NoConfig /\ eff = NoneResolved
    /\ left = <<>> /\ extra = NoExtra /\ queue = {} /\ busy = {} /\ results = <<>>
    /\ exit = 0 /\ log = [r \in Rule |-> <<>>] /\ reports = <<>>
    /\ commands = 0 /\ edits = 0
    /\ read = disk /\ blessed = FALSE

-----------------------------------------------------------------------------
(* The cascade. *)

Entry(e) == [layer |-> e.layer, source |-> e.source, severity |-> e.severity]

\* The decision before is kept in the chain.
setEffective(e, severity, layer, source) ==
    [severity |-> severity, layer |-> layer, source |-> source,
     chain |-> IF e.layer = "" THEN e.chain ELSE Append(e.chain, Entry(e))]

\* Every rule of `sets`, a function, is set in it.
overlay(all, sets, layer, source) ==
    [r \in Rule |-> IF r \in DOMAIN sets
                    THEN setEffective(all[r], sets[r], layer, source) ELSE all[r]]

\* The child set its own rules as "rules": they become the source's.
retagged(e, layer, source) ==
    IF e.layer = "rules" /\ e.source = Main
    THEN [e EXCEPT !.layer = layer, !.source = source] ELSE e
tagLastAs(all, layer, source, childRules) ==
    [r \in Rule |->
        IF r \notin DOMAIN childRules THEN all[r]
        ELSE [retagged(all[r], layer, source) EXCEPT
                !.chain = IF @ = <<>> THEN @
                          ELSE [@ EXCEPT ![Len(@)] = retagged(@, layer, source)]]]

layerOf(source) == IF source \in Preset THEN "preset" ELSE "extends"

Failed == [ok |-> FALSE, all |-> NoneResolved]
Resolved(all) == [ok |-> TRUE, all |-> all]

\* `from`: what the sources hold; `visited`: the chain that leads here.
RECURSIVE applyCascade(_, _, _, _, _)
applyCascade(config, from, all, visited, depth) ==
    LET extend(acc, source) ==
            IF ~acc.ok \/ source \in visited THEN Failed
            ELSE IF from[source] \in {NoFile, Broken} THEN Failed
            ELSE LET child == from[source]
                     below == applyCascade(child, from, acc.all, visited \cup {source}, depth + 1)
                 IN  IF ~below.ok THEN Failed
                     ELSE Resolved(tagLastAs(below.all, layerOf(source), source, child.rules))
        extended == FoldLeft(extend, Resolved(all), config.extends)
        policed(acc, p) == overlay(acc, p.sets, "policy", p.name)
    IN  IF depth > MaxExtendsDepth \/ ~extended.ok THEN Failed
        ELSE IF \E r \in DOMAIN config.rules : config.rules[r] \notin Severity THEN Failed
        ELSE Resolved(overlay(FoldLeft(policed, extended.all, config.policies),
                              config.rules, "rules", Main))

\* Mutant of applyEnvOverrides: a hard-block is relaxed as well.
applyEnvOverridesToAll(all) ==
    [r \in Rule |->
        IF all[r].layer = "" \/ env[r] \in {"unset", "bad"} THEN all[r]
        ELSE setEffective(all[r], env[r], "env", "HSTL_RULE")]

\* An override that does not parse is ignored, and so is one of a hard-block.
applyEnvOverrides(all) ==
    [r \in Rule |->
        IF all[r].layer = "" \/ env[r] \in {"unset", "bad"} \/ all[r].severity = "hard-block"
        THEN all[r]
        ELSE setEffective(all[r], env[r], "env", "HSTL_RULE")]

resolveEffective(config, from) ==
    LET cascade == applyCascade(config, from, NoneResolved, {}, 0)
    IN  [cascade EXCEPT !.all = applyEnvOverrides(@)]

\* Without rules.yaml the preset `recommended` is extended.
loadConfig(file) ==
    IF file = NoFile THEN [NoConfig EXCEPT !.extends = <<"recommended">>] ELSE file

-----------------------------------------------------------------------------
(* Rules. *)

category(r) ==
    CASE Kind[r] \in {"message", "task_id", "secrets"} -> "commit"
      [] Kind[r] = "listed" -> "harness"
      [] Kind[r] = "own_file" -> "task"
      [] Kind[r] \in {"tools", "hooks"} -> "skill"
      [] OTHER -> "precommit"

\* A secret in an added line, not of a test and without the marker `nosecret`.
secretIn(diff) == \E f \in File \ Test : diff[f] = "secret"

\* The files of the diff in the context; git is asked where there is none.
stagedFiles(x) ==
    LET of(content) == {f \in File : content[f] # "none"}
    IN  IF of(x.diff) = {} THEN of(index) ELSE of(x.diff)

targets(r, x) == stagedFiles(x) \cap Watched[r]

\* What each kind of rule may answer to the inputs x.
skipped == {"skipped"}
violatedIf(bad) == IF bad THEN {"violated"} ELSE {"ok"}

\* The share of Korean letters, in a message that is long enough to tell.
checkMessage(x) ==
    IF x.message = NoMessage \/ x.message.language = "short" THEN skipped
    ELSE violatedIf(x.message.language = "foreign")
checkTaskID(x) == IF x.message = NoMessage THEN skipped ELSE violatedIf(~x.message.tagged)

checkSecrets(x) ==
    IF \A f \in File : x.diff[f] = "none" THEN skipped ELSE violatedIf(secretIn(x.diff))
checkPlaced(x) ==
    IF stagedFiles(x) = {} THEN skipped ELSE violatedIf(stagedFiles(x) \cap Misplaced # {})

\* A file is named by the diff but read from the work tree; where it is gone by
\* then, the rule steps over it.
anyTarget(r, x, contents) ==
    IF targets(r, x) = {} THEN skipped
    ELSE violatedIf(\E f \in targets(r, x) : work[f] \in contents)
checkUUID(r, x) == anyTarget(r, x, {"unheaded"})
checkReference(r, x) == anyTarget(r, x, {"flawed"})
checkIdentity(r, x) == anyTarget(r, x, {"flawed", "unheaded"})
checkSize(r, x) == violatedIf(\E f \in targets(r, x) : work[f] = "flawed")

\* These look at the work tree alone, whatever is staged.
checkTools(r) ==
    IF \A f \in Watched[r] : work[f] = "none" THEN skipped
    ELSE violatedIf(\E f \in Watched[r] : work[f] = "unheaded")
checkHooks(r) == violatedIf(\E f \in Watched[r] : work[f] \in {"none", "flawed"})

\* A script may answer anything; that it cannot be written out is an error.
checkScript(r, x) ==
    IF Watched[r] # {} /\ targets(r, x) = {} THEN skipped ELSE {"ok", "violated", "error"}

\* No command tells a rule its SelfFilePath.
checkOwnFile == skipped
checkListed == skipped

check(r, x) ==
    CASE Kind[r] = "message" -> checkMessage(x)
      [] Kind[r] = "task_id" -> checkTaskID(x)
      [] Kind[r] = "secrets" -> checkSecrets(x)
      [] Kind[r] = "placed" -> checkPlaced(x)
      [] Kind[r] = "uuid" -> checkUUID(r, x)
      [] Kind[r] = "reference" -> checkReference(r, x)
      [] Kind[r] = "identity" -> checkIdentity(r, x)
      [] Kind[r] = "size" -> checkSize(r, x)
      [] Kind[r] = "script" -> checkScript(r, x)
      [] Kind[r] = "tools" -> checkTools(r)
      [] Kind[r] = "hooks" -> checkHooks(r)
      [] Kind[r] = "own_file" -> checkOwnFile
      [] Kind[r] = "listed" -> checkListed

\* The severity of the result: the effective one, or the rule's own.
severityOf(r) == IF eff[r].layer = "" THEN Default[r] ELSE eff[r].severity

\* recordRuleJudgement.
verdictOf(status, severity) ==
    CASE status = "ok" -> "pass"
      [] status = "violated" /\ severity = "hard-block" -> "hard_block"
      [] status = "violated" /\ severity = "block" -> "block"
      [] status = "violated" /\ severity \notin Blocking -> "warn"
      [] OTHER -> "skip"

resolvePhases(phase) ==
    IF phase = "all" THEN <<"commit-msg", "precommit">> ELSE <<phase>>

rulesForPhase(phase) ==
    IF phase = "commit-msg" THEN {r \in Rule : Kind[r] \in {"message", "task_id"}}
    ELSE {r \in Rule : Kind[r] = "secrets"} \cup
         {r \in Registered : category(r) = "precommit"}

parallelismForPhase(phase) == IF phase = "precommit" THEN Workers ELSE 1

blocked == \E r \in DOMAIN results :
              results[r].status = "violated" /\ results[r].severity \in Blocking

-----------------------------------------------------------------------------
(* A command. *)

Invoke(c) ==
    /\ pc = "idle"
    /\ commands < MaxCommands \/ c.kind = "diff"
    /\ command' = c
    /\ pc' = IF c.kind \in {"exec", "diff"} THEN c.kind ELSE "load"
    /\ cfg' = NoConfig /\ eff' = NoneResolved
    /\ extra' = NoExtra
    /\ results' = <<>> /\ log' = [r \in Rule |-> <<>>] /\ exit' = 0
    /\ commands' = IF c.kind = "diff" THEN commands ELSE commands + 1
    /\ UNCHANGED <<disk, env, index, work, message, left, queue, busy, reports, edits,
                   read, blessed>>

End(code) == pc' = "idle" /\ exit' = code

LoadConfig ==
    /\ pc = "load"
    /\ cfg' = IF disk[Main] = Broken THEN cfg ELSE loadConfig(disk[Main])
    /\ IF disk[Main] = Broken THEN End(1) ELSE pc' = "resolve" /\ exit' = exit
    /\ read' = [read EXCEPT ![Main] = disk[Main]]
    /\ UNCHANGED <<disk, env, index, work, message, command, eff, left, extra, queue, busy,
                   results, log, reports, commands, edits, blessed>>

\* The sources are read after rules.yaml.
ResolveEffective ==
    LET answer == resolveEffective(cfg, disk)
    IN  /\ pc = "resolve"
        /\ eff' = answer.all
        /\ CASE ~answer.ok -> End(1)
             [] answer.ok /\ command.kind = "run" -> pc' = "phase" /\ exit' = exit
             [] OTHER -> pc' = "answer" /\ exit' = exit
        /\ left' = IF answer.ok /\ command.kind = "run"
                   THEN resolvePhases(command.phase) ELSE <<>>
        /\ read' = [s \in DOMAIN disk |-> IF s = Main THEN read[s] ELSE disk[s]]
        /\ UNCHANGED <<disk, env, index, work, message, command, cfg, extra, queue, busy,
                       results, log, reports, commands, edits, blessed>>

\* populateExtra: without a message the commit-msg phase is an error, which
\* --audit steps over.
NextPhase ==
    LET phase == Head(left)
        fails == phase = "commit-msg" /\ message = NoMessage
    IN  /\ pc = "phase" /\ left # <<>>
        /\ IF fails /\ ~command.audit
           THEN End(1) /\ UNCHANGED <<left, extra, queue>>
           ELSE /\ left' = Tail(left)
                /\ extra' = IF fails THEN extra
                            ELSE IF phase = "commit-msg"
                            THEN [NoExtra EXCEPT !.phase = phase, !.message = message]
                            ELSE [NoExtra EXCEPT !.phase = phase, !.diff = index]
                /\ queue' = IF fails THEN {} ELSE rulesForPhase(phase)
                /\ pc' = IF fails THEN "phase" ELSE "dispatch"
                /\ exit' = exit
        /\ UNCHANGED <<disk, env, index, work, message, command, cfg, eff, busy, results,
                       log, reports, commands, edits, read, blessed>>

\* One rule more, in an order of its own, is given a goroutine when the
\* semaphore lets it.
Dispatch ==
    LET r == CHOOSE r \in queue : TRUE
    IN  /\ pc = "dispatch" /\ queue # {}
        /\ r \in Registered => Cardinality(busy) < parallelismForPhase(extra.phase)
        /\ busy' = busy \cup ({r} \cap Registered)
        /\ queue' = queue \ {r}
        /\ UNCHANGED <<disk, env, index, work, message, pc, command, cfg, eff, left, extra,
                       results, exit, log, reports, commands, edits, read, blessed>>

withResult(all, r, status) ==
    [q \in DOMAIN all \cup {r} |->
        IF q = r THEN [status |-> status, severity |-> severityOf(r)] ELSE all[q]]

\* A goroutine checks its rule and records the judgement.
CheckRule(r) ==
    /\ pc = "dispatch" /\ r \in busy
    /\ \E status \in check(r, extra) :
          /\ results' = withResult(results, r, status)
          /\ log' = [log EXCEPT ![r] = Append(@, verdictOf(status, severityOf(r)))]
    /\ busy' = busy \ {r}
    /\ UNCHANGED <<disk, env, index, work, message, pc, command, cfg, eff, left, extra,
                   queue, exit, reports, commands, edits, read, blessed>>

\* wg.Wait returns.
PhaseDone ==
    /\ pc = "dispatch" /\ queue = {} /\ busy = {}
    /\ pc' = "phase"
    /\ UNCHANGED <<disk, env, index, work, message, command, cfg, eff, left, extra, queue,
                   busy, results, exit, log, reports, commands, edits, read, blessed>>

\* `--audit --phase all` runs every other rule of the registry as well, without
\* the inputs of a phase and without a judgement.
unseen == IF command.audit /\ command.phase = "all" THEN Registered \ DOMAIN results ELSE {}
RunUnseen ==
    /\ pc = "phase" /\ left = <<>> /\ unseen # {}
    /\ LET r == CHOOSE r \in unseen : TRUE
       IN  \E status \in check(r, NoExtra) : results' = withResult(results, r, status)
    /\ UNCHANGED <<disk, env, index, work, message, pc, command, cfg, eff, left, extra,
                   queue, busy, exit, log, reports, commands, edits, read, blessed>>

\* The results are shown, --report writes them, and the command exits.
Report ==
    /\ pc = "phase" /\ left = <<>> /\ unseen = {}
    /\ End(IF blocked /\ ~command.audit THEN 3 ELSE 0)
    /\ reports' = IF command.audit
                  THEN Append(IF Len(reports) = 2 THEN Tail(reports) ELSE reports, results)
                  ELSE reports
    /\ UNCHANGED <<disk, env, index, work, message, command, cfg, eff, left, extra, queue,
                   busy, results, log, commands, edits, read, blessed>>

\* `rules exec` asks for no severity: any violation exits 3.
Exec ==
    LET r == command.rule
    IN  /\ pc = "exec"
        /\ IF r \notin Registered THEN End(2) /\ results' = results
           ELSE \E status \in check(r, NoExtra) :
                   /\ results' = withResult(results, r, status)
                   /\ End(CASE status = "violated" -> 3 [] status = "error" -> 1 [] OTHER -> 0)
        /\ UNCHANGED <<disk, env, index, work, message, command, cfg, eff, left, extra, queue,
                       busy, log, reports, commands, edits, read, blessed>>

-----------------------------------------------------------------------------
(* The commands that only look. *)

\* `rules diff`: rules of one report only, or of both with another answer.
computeRulesDiff(before, after) ==
    LET both == DOMAIN before \cap DOMAIN after
    IN  [removed |-> DOMAIN before \ both, added |-> DOMAIN after \ both,
         status |-> {r \in both : before[r].status # after[r].status},
         severity |-> {r \in both : /\ before[r].status = after[r].status
                                    /\ before[r].severity # after[r].severity}]

\* It exits 1 when they differ, or when a report is not there.
Diff ==
    /\ pc = "diff"
    /\ LET d == computeRulesDiff(reports[1], reports[2])
       IN  End(IF Len(reports) = 2 /\ \A k \in DOMAIN d : d[k] = {} THEN 0 ELSE 1)
    /\ UNCHANGED <<disk, env, index, work, message, command, cfg, eff, left, extra, queue,
                   busy, results, log, reports, commands, edits, read, blessed>>

\* `rules explain` fails on a rule without a severity.
Answer ==
    /\ pc = "answer"
    /\ End(IF command.kind = "explain" /\ eff[command.rule].layer = "" THEN 1 ELSE 0)
    /\ blessed' = (blessed \/ (command.kind = "validate" /\ read = disk))
    /\ UNCHANGED <<disk, env, index, work, message, command, cfg, eff, left, extra, queue,
                   busy, results, log, reports, commands, edits, read>>

-----------------------------------------------------------------------------
(* What changes around a command. *)

\* The presets are of the binary and are never written.
Edit(source, config) ==
    /\ edits < MaxEdits
    /\ source \notin Preset /\ disk[source] # config
    /\ disk' = [disk EXCEPT ![source] = config]
    /\ blessed' = FALSE
    /\ edits' = edits + 1
    /\ UNCHANGED <<env, index, work, message, pc, command, cfg, eff, left, extra, queue, busy,
                   results, exit, log, reports, commands, read>>

\* A file of the work tree is staged (a rule's script may do so), or mended.
Stage(f) ==
    /\ edits < MaxEdits
    /\ index' = [index EXCEPT ![f] = work[f]]
    /\ index' # index
    /\ edits' = edits + 1
    /\ UNCHANGED <<disk, env, work, message, pc, command, cfg, eff, left, extra, queue, busy,
                   results, exit, log, reports, commands, read, blessed>>
Mend(f) ==
    /\ edits < MaxEdits
    /\ work[f] # "clean"
    /\ work' = [work EXCEPT ![f] = "clean"]
    /\ edits' = edits + 1
    /\ UNCHANGED <<disk, env, index, message, pc, command, cfg, eff, left, extra, queue, busy,
                   results, exit, log, reports, commands, read, blessed>>

Next ==
    \/ \E c \in Commands : Invoke(c)
    \/ LoadConfig \/ ResolveEffective
    \/ NextPhase \/ Dispatch \/ PhaseDone \/ RunUnseen \/ Report
    \/ \E r \in Rule : CheckRule(r)
    \/ Exec \/ Diff \/ Answer
    \/ \E e \in Edits : Edit(e[1], e[2])
    \/ \E f \in File : Stage(f) \/ Mend(f)

Spec == Init /\ [][Next]_engineVars

-----------------------------------------------------------------------------
(* Properties. *)

Decided == [layer : STRING, source : STRING, severity : Severity]
TypeOK ==
    /\ pc \in {"idle", "load", "resolve", "phase", "dispatch", "exec", "diff", "answer"}
    /\ exit \in 0..3
    /\ \A r \in Rule : /\ eff[r].severity \in Severity
                       /\ \A i \in DOMAIN eff[r].chain : eff[r].chain[i] \in Decided
    /\ busy \subseteq Registered /\ Cardinality(busy) <= Workers
    /\ DOMAIN results \subseteq Registered
    /\ \A r \in DOMAIN results : results[r].status \in Status
    /\ Len(reports) <= 2 /\ commands \in 0..MaxCommands /\ edits \in 0..MaxEdits

\* What a configuration decides, and before it what it extends: all of it in
\* order, each under the name of the file that says so.
RECURSIVE decisions(_, _, _, _)
decisions(config, layer, source, from) ==
    FlattenSeq([i \in DOMAIN config.extends |->
                  LET s == config.extends[i] IN decisions(from[s], layerOf(s), s, from)])
    \o [i \in DOMAIN config.policies |->
           [layer |-> "policy", source |-> config.policies[i].name,
            sets |-> config.policies[i].sets]]
    \o <<[layer |-> layer, source |-> source, sets |-> config.rules]>>
decisionsOn(r) ==
    LET about == SelectSeq(decisions(loadConfig(read[Main]), "rules", Main, read),
                           LAMBDA d : r \in DOMAIN d.sets)
    IN  [i \in DOMAIN about |-> [layer |-> about[i].layer, source |-> about[i].source,
                                 severity |-> about[i].sets[r]]]

\* The severity the files promise, whatever the environment says.
promised(r) == IF decisionsOn(r) = <<>> THEN Default[r] ELSE Last(decisionsOn(r)).severity

\* A way along `extends` that fails: too long, in a circle, or to a file that
\* is not there, does not parse or names no severity.
unsound(config) ==
    config \in {NoFile, Broken} \/ \E r \in DOMAIN config.rules : config.rules[r] \notin Severity
failing ==
    LET root == loadConfig(read[Main])
        next(way) == IF way = <<>> THEN Range(root.extends)
                     ELSE IF unsound(read[Last(way)]) THEN {} ELSE Range(read[Last(way)].extends)
        ways[n \in 0..(MaxExtendsDepth + 1)] ==
            IF n = 0 THEN {<<>>} ELSE UNION {{Append(w, s) : s \in next(w)} : w \in ways[n - 1]}
    IN  \/ unsound(root) \/ ways[MaxExtendsDepth + 1] # {}
        \/ \E n \in 1..MaxExtendsDepth : \E w \in ways[n] :
              unsound(read[Last(w)]) \/ Cardinality(Range(w)) < n

\* A hard-block, of the rule itself or of a file, that a file after it makes less.
\* The cascade does so; types.go calls it a "non-relaxable block (env/config
\* override forbidden)".  What such a rule should come to is left open.
relaxed(r) ==
    LET said == <<Default[r]>> \o [i \in DOMAIN decisionsOn(r) |-> decisionsOn(r)[i].severity]
    IN  \E i, j \in DOMAIN said : i < j /\ said[i] = "hard-block" /\ said[j] # "hard-block"

\* A rule's severity is the last one decided, and its chain the ones before, each
\* under the file it came from, though the cascade first writes a child's rules
\* down as rules.yaml's and mends that later; what fails is never run.  Nothing is
\* said of a rule whose hard-block a file relaxes.
ResolvedAsPromised ==
    pc = "answer" \/ (pc = "phase" /\ results = <<>>) =>
        /\ ~failing
        /\ \A r \in {r \in Rule : ~relaxed(r)} :
              LET ds == decisionsOn(r)
                  forced == /\ ds # <<>> /\ env[r] \in Severity
                            /\ Last(ds).severity # "hard-block"
              IN  /\ forced => eff[r].severity = env[r] /\ eff[r].chain = ds
                  /\ ~forced /\ ds # <<>> => Append(eff[r].chain, Entry(eff[r])) = ds
                  /\ ds = <<>> => eff[r] = Unresolved

\* Files that `validate` found valid never stop a run, while nobody writes them.
ValidatePredicts ==
    pc = "idle" /\ command.kind = "run" /\ exit = 1 /\ blessed =>
        message = NoMessage /\ ~command.audit /\ command.phase # "precommit"

phasesRun == {p \in Range(resolvePhases(command.phase)) :
                 p = "precommit" \/ message # NoMessage}

\* A run that ends has judged each rule of its phases once, in whatever order
\* the goroutines finish, and it exits 3 exactly when the gate's log has a block.
\* A rule that is off is judged at most once: the code checks it and records what
\* it found, types.go calls it "not checked", and either is allowed.
LogTellsExit ==
    pc = "idle" /\ command.kind = "run" /\ exit # 1 =>
        /\ \A r \in Registered :
              LET due == Cardinality({p \in phasesRun : r \in rulesForPhase(p)})
              IN  IF severityOf(r) = "off" THEN Len(log[r]) <= due ELSE Len(log[r]) = due
        /\ exit = 3 <=> /\ ~command.audit
                        /\ \E r \in Rule : Range(log[r]) \cap {"block", "hard_block"} # {}

\* A secret that was staged when the hook began stops the commit, if the files
\* make that rule a hard-block, whatever the environment says.
HardBlockHolds ==
    pc = "idle" /\ command.kind = "run" /\ extra.phase = "precommit"
      /\ exit = 0 /\ ~command.audit =>
        \A r \in Registered :
            Kind[r] = "secrets" /\ promised(r) = "hard-block" => ~secretIn(extra.diff)

\* All of them: severities come out as the files and the environment say, and
\* a hook's exit agrees with them and with the gate's log.  Two questions on which
\* the code and types.go part stay open: a relaxed hard-block, a rule that is off.
RulesSound == ResolvedAsPromised /\ ValidatePredicts /\ LogTellsExit /\ HardBlockHolds
=============================================================================
