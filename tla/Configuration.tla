---------------------------- MODULE Configuration ----------------------------
(***************************************************************************)
(* project-config.yaml: where a command finds it, what it extends, which   *)
(* value a getter answers among the environment, the file and the          *)
(* defaults; `config show-effective`, `check` and `fix`, which rewrites    *)
(* the file; and `config migrate-mode`, which renames its folder.          *)
(*                                                                         *)
(* A file is what the code tells apart in it: whether it parses, whether   *)
(* its keys are in canonical order, and the values it sets at the leaves.  *)
(* Commands run at once, the user may write a file between any two steps,  *)
(* and a command may be killed.                                            *)
(***************************************************************************)
EXTENDS Integers, Sequences, SequencesExt, FiniteSets

CONSTANTS
    Proc,
    Presets,           \* of the binary: what each sets; none extends another
    Starts,            \* what a behaviour may begin with: folders, environment
    Edits,             \* what the user may write: <<path, document>>
    Commands,
    MaxCommands, MaxEdits, MaxKills,
    NoFile, Null       \* Null is a value of YAML as well: `key: ~`

VARIABLES
    dirs,      \* each folder of the project: none, dir or link, and its two files
    env,       \* the HSTL_ variables; "", <<>> and 0 when unset
    pc, command,
    path,      \* the file the command works on
    cfg,       \* the process's cache of the configuration
    valid,     \* show-effective: what the validator said
    report,    \* check and fix: what DetectConfigProblems found
    data,      \* fix: what it will write
    plan,      \* migrate-mode: the source of the rename, and what is in its way
    used,      \* what the getters answered
    shown,     \* what show-effective printed
    commands, edits, kills,
    begun,     \* history: the folders when the command began
    calm,      \* history: nobody else has written since
    origin,    \* history: what a command would have loaded at the start
    clean      \* history: nobody wrote the file, was killed, or fixed it while
               \* another fixed it

configVars == <<dirs, env, pc, command, path, cfg, valid, report, data, plan, used,
                shown, commands, edits, kills, begun, calm, origin, clean>>

\* The folder of the brand, the older ones, and those of other modes.
Dir == {".hstl-oss", ".hstl", ".hostler", ".pry4"}
Primary == ".hstl"     \* of migrate-mode --to=hstl, and where its links lead
NoDir == [is |-> "none", yaml |-> NoFile, yml |-> NoFile]
NoPath == <<"", "">>
BrandPath == <<".hstl-oss", "yaml">>
Searched == << BrandPath, <<".hstl-oss", "yml">>, <<".hstl", "yaml">>, <<".hstl", "yml">>,
               <<".hostler", "yaml">>, <<".hostler", "yml">> >>

\* An empty file: WriteFile truncates before it writes.
Blank == [form |-> "blank", version |-> <<>>, plain |-> TRUE, schema |-> FALSE,
          typos |-> {}, extends |-> <<>>, sets |-> <<>>, sorted |-> FALSE]

Unread == [state |-> "unread", sets |-> <<>>]
NoConfig == [state |-> "none", sets |-> <<>>]
LoadFailed == [state |-> "error", sets |-> <<>>]
NoReport == [exists |-> FALSE, codes |-> {}]
NoPlan == [source |-> "", already |-> FALSE]
NoCommand == [kind |-> "none", yes |-> FALSE, dry |-> FALSE, to |-> "", keep |-> FALSE]

through(ds, d) == IF ds[d].is = "link" THEN ds[Primary] ELSE ds[d]
held(ds, at) == through(ds, at[1])[at[2]]
put(ds, at, doc) ==
    LET d == IF ds[at[1]].is = "dir" THEN at[1] ELSE Primary
    IN  [ds EXCEPT ![d][at[2]] = doc]

firstOf(ds, candidates, otherwise) ==
    LET there == SelectSeq(candidates, LAMBDA at : held(ds, at) # NoFile)
    IN  IF there = <<>> THEN otherwise ELSE Head(there)

\* The loader takes .yml as well, `config check` and `config fix` do not.
findProjectConfigYAML(ds) == firstOf(ds, Searched, NoPath)
defaultConfigRelPath(ds) ==
    firstOf(ds, SelectSeq(Searched, LAMBDA at : at[2] = "yaml"), BrandPath)

-----------------------------------------------------------------------------
(* Loading. *)

\* Maps are merged down to their leaves, a list is appended to a list, and
\* otherwise the later value wins, `~` included.
mergeMaps(dst, src) ==
    [k \in DOMAIN dst \cup DOMAIN src |->
        IF k \notin DOMAIN src THEN dst[k]
        ELSE IF k \notin DOMAIN dst THEN src[k]
        ELSE IF k \in {"titles", "lint", "rules", "driftless"} /\ dst[k] # Null /\ src[k] # Null
             THEN dst[k] \o src[k] ELSE src[k]]

LoadPreset(ref) == Presets[ref]
ResolveExtends(refs) == FoldLeft(LAMBDA all, ref : mergeMaps(all, LoadPreset(ref)), <<>>, refs)
resolves(doc) == ToSet(doc.extends) \subseteq DOMAIN Presets

\* Mutant of applyExtendsAndMerge: the presets are merged over the project.
mergeUnderPresets(doc) == mergeMaps(doc.sets, ResolveExtends(doc.extends))

applyExtendsAndMerge(doc) == mergeMaps(ResolveExtends(doc.extends), doc.sets)

ParseSchemaVersion(v) == Len(v) = 3
Compatible(v) == v[1] = 2
checkVersionMajor(v) == v = <<>> \/ (ParseSchemaVersion(v) /\ Compatible(v))

loadProjectConfig(doc) ==
    IF doc = NoFile \/ doc.form = "garbled" \/ ~resolves(doc) \/ ~checkVersionMajor(doc.version)
    THEN LoadFailed
    ELSE [state |-> "loaded", sets |-> applyExtendsAndMerge(doc)]

loadFrom(ds) ==
    IF findProjectConfigYAML(ds) = NoPath THEN NoConfig
    ELSE loadProjectConfig(held(ds, findProjectConfigYAML(ds)))

-----------------------------------------------------------------------------
(* What a getter answers: the environment, the file, or a default.  A      *)
(* configuration that failed to load says nothing.                         *)

Policy == {"off", "warn", "strict"}
Defaults == [policy |-> "strict", titles |-> <<"Result", "Deliverables">>, days |-> 30,
             driftless |-> <<"manifest", "index">>, rules |-> <<>>, key |-> ""]

said(c, k) == IF k \in DOMAIN c.sets /\ c.sets[k] # Null THEN c.sets[k] ELSE Null
saidList(c, k) == IF said(c, k) = Null THEN <<>> ELSE said(c, k)

dedupPreservingOrder(s) ==
    FoldLeft(LAMBDA all, x : IF Contains(all, x) THEN all ELSE Append(all, x), <<>>, s)

GetTaskResultCheckPolicy(c) ==
    IF env.policy \in Policy THEN env.policy
    ELSE IF said(c, "policy") \in Policy THEN said(c, "policy") ELSE Defaults.policy

GetTaskResultSectionTitles(c) ==
    IF env.titles # <<>> THEN dedupPreservingOrder(env.titles)
    ELSE IF saidList(c, "titles") # <<>> THEN dedupPreservingOrder(saidList(c, "titles"))
    ELSE Defaults.titles

GetSprintStaleBodyDays(c) ==
    LET days == said(c, "days")
    IN  IF env.days > 0 THEN env.days
        ELSE IF days = Null THEN Defaults.days
        ELSE IF days > 0 THEN days ELSE Defaults.days

GetTaskResultDriftLessPaths(c) ==
    IF saidList(c, "driftless") # <<>> THEN saidList(c, "driftless") ELSE Defaults.driftless
GetSkillExtensions(c) == saidList(c, "rules")
GetProjectKey(c) == IF said(c, "key") = Null THEN Defaults.key ELSE said(c, "key")

answers(c) ==
    [policy |-> GetTaskResultCheckPolicy(c), titles |-> GetTaskResultSectionTitles(c),
     days |-> GetSprintStaleBodyDays(c), driftless |-> GetTaskResultDriftLessPaths(c),
     rules |-> GetSkillExtensions(c), key |-> GetProjectKey(c)]

\* show-effective has rules of its own: whatever the environment says is shown.
Field(value, source) == [value |-> value, source |-> source]
collectTaskResultCheckPolicy(c) ==
    IF env.policy # "" THEN Field(env.policy, "env")
    ELSE IF said(c, "policy") # Null THEN Field(said(c, "policy"), "yaml")
    ELSE Field(Defaults.policy, "default")
collectTaskResultSectionTitles(c) ==
    IF env.titles # <<>> THEN Field(env.titles, "env")
    ELSE IF saidList(c, "titles") # <<>>
         THEN Field(dedupPreservingOrder(saidList(c, "titles")), "yaml")
    ELSE Field(Defaults.titles, "default")
collectProjectKey(c) ==
    IF env.key # "" THEN Field(env.key, "env")
    ELSE IF GetProjectKey(c) # "" THEN Field(GetProjectKey(c), "yaml")
    ELSE Field("(hash)", "default")
CollectEffective(c) ==
    [policy |-> collectTaskResultCheckPolicy(c),
     titles |-> collectTaskResultSectionTitles(c), key |-> collectProjectKey(c)]

-----------------------------------------------------------------------------
(* What is wrong with a file. *)

\* Keys are looked for at the beginning of a line, where a quoted one is not seen.
versionSeen(doc) == doc.version # <<>> /\ doc.plain
findUnknownTopLevelKeys(doc) ==
    \/ "top" \in doc.typos \/ doc.schema
    \/ doc.version # <<>> /\ ~doc.plain
FindUnknownNestedKeys(doc) == doc.form # "garbled" /\ "nested" \in doc.typos

\* `kind` is one of four and no other kind's fields are set.
validatePlatformTaggedUnion(sets) ==
    LET kind == IF "kind" \in DOMAIN sets THEN sets["kind"] ELSE ""
        lint == "lint" \in DOMAIN sets
    IN  \/ DOMAIN sets \cap {"kind", "lint"} = {}
        \/ kind = "go"
        \/ kind \in {"dotnet", "python", "node"} /\ ~lint

\* "error" is one of reading or merging, for which nothing is validated.
ValidateProjectConfigYAML(doc) ==
    LET sets == applyExtendsAndMerge(doc)
    IN  IF doc.form = "garbled" \/ ~resolves(doc) THEN "error"
        ELSE IF doc.form = "blank" THEN "ok"
        ELSE IF /\ doc.typos = {} /\ ~doc.schema
                /\ \A k \in DOMAIN sets \ {"titles", "lint", "rules", "driftless"} : sets[k] # Null
                /\ checkVersionMajor(doc.version)
                /\ validatePlatformTaggedUnion(sets)
             THEN "ok" ELSE "invalid"

DetectConfigProblems(doc) ==
    {code \in {"v1_schema", "stale_schema_version", "yaml_parse_error", "canonical_drift",
               "unknown_top_level_key", "unknown_nested_key", "schema_invalid"} :
        CASE code = "v1_schema" -> doc.schema /\ ~versionSeen(doc)
          [] code = "stale_schema_version" -> doc.schema /\ versionSeen(doc)
          [] code = "yaml_parse_error" -> doc.form = "garbled"
          [] code = "canonical_drift" -> doc.form # "garbled" /\ ~doc.sorted
          [] code = "unknown_top_level_key" -> findUnknownTopLevelKeys(doc)
          [] code = "unknown_nested_key" -> FindUnknownNestedKeys(doc)
          [] code = "schema_invalid" -> ValidateProjectConfigYAML(doc) = "invalid"}
reportOf(doc) ==
    IF doc = NoFile THEN NoReport ELSE [exists |-> TRUE, codes |-> DetectConfigProblems(doc)]

FixableProblems(codes) == codes \cap {"stale_schema_version", "canonical_drift"}
MigrationProblems(codes) == codes \cap {"v1_schema"}

stripStaleSchemaVersion(doc) == [doc EXCEPT !.schema = FALSE]
canonicalizeYAML(doc) == [doc EXCEPT !.sorted = TRUE]

\* The file is read again: it is stripped as the report says, not as it is.
fixed(codes, doc) ==
    canonicalizeYAML(IF "stale_schema_version" \in codes THEN stripStaleSchemaVersion(doc) ELSE doc)

-----------------------------------------------------------------------------

Init ==
    /\ \E s \in Starts : dirs = s.dirs /\ env = s.env
    /\ pc = [p \in Proc |-> "idle"] /\ command = [p \in Proc |-> NoCommand]
    /\ path = [p \in Proc |-> NoPath] /\ cfg = [p \in Proc |-> Unread]
    /\ valid = [p \in Proc |-> "none"] /\ report = [p \in Proc |-> NoReport]
    /\ data = [p \in Proc |-> Blank] /\ plan = [p \in Proc |-> NoPlan]
    /\ used = [p \in Proc |-> Defaults] /\ shown = [p \in Proc |-> CollectEffective(NoConfig)]
    /\ commands = 0 /\ edits = 0 /\ kills = 0
    /\ begun = [p \in Proc |-> dirs] /\ calm = [p \in Proc |-> TRUE]
    /\ origin = loadFrom(dirs) /\ clean = TRUE

goto(p, l) == pc' = [pc EXCEPT ![p] = l]
disturb(p) == calm' = [q \in Proc |-> calm[q] /\ q = p]
resting(p) == pc[p] \in {"idle", "done", "failed"}
fixing(p) == ~resting(p) /\ command[p].kind = "fix"

firstStep(kind) ==
    CASE kind = "use" -> "find"
      [] kind = "effective" -> "validate"
      [] kind \in {"check", "fix"} -> "target"
      [] kind = "migrate" -> "plan"

Invoke(p, c) ==
    /\ resting(p) /\ commands < MaxCommands
    /\ command' = [command EXCEPT ![p] = c]
    /\ goto(p, firstStep(c.kind))
    /\ cfg' = [cfg EXCEPT ![p] = Unread] /\ path' = [path EXCEPT ![p] = NoPath]
    /\ valid' = [valid EXCEPT ![p] = "none"] /\ report' = [report EXCEPT ![p] = NoReport]
    /\ data' = [data EXCEPT ![p] = Blank] /\ plan' = [plan EXCEPT ![p] = NoPlan]
    /\ used' = [used EXCEPT ![p] = Defaults]
    /\ shown' = [shown EXCEPT ![p] = CollectEffective(NoConfig)]
    /\ commands' = commands + 1
    /\ begun' = [begun EXCEPT ![p] = dirs] /\ calm' = [calm EXCEPT ![p] = TRUE]
    /\ clean' = (clean /\ (c.kind = "fix" => ~\E q \in Proc \ {p} : fixing(q)))
    /\ UNCHANGED <<dirs, env, edits, kills, origin>>

\* A process reads its configuration once: it looks for the file, ...
Find(p) ==
    /\ pc[p] = "find"
    /\ path' = [path EXCEPT ![p] = findProjectConfigYAML(dirs)]
    /\ cfg' = [cfg EXCEPT ![p] = IF path'[p] = NoPath THEN NoConfig ELSE @]
    /\ goto(p, IF path'[p] = NoPath THEN "answer" ELSE "read")
    /\ UNCHANGED <<dirs, env, command, valid, report, data, plan, used, shown, commands,
                   edits, kills, begun, calm, origin, clean>>

\* ... and reads what it found, if that is still there.
Read(p) ==
    /\ pc[p] = "read"
    /\ cfg' = [cfg EXCEPT ![p] = loadProjectConfig(held(dirs, path[p]))]
    /\ goto(p, "answer")
    /\ UNCHANGED <<dirs, env, command, path, valid, report, data, plan, used, shown,
                   commands, edits, kills, begun, calm, origin, clean>>

Answer(p) ==
    /\ pc[p] = "answer"
    /\ used' = [used EXCEPT ![p] = answers(cfg[p])]
    /\ shown' = [shown EXCEPT ![p] = CollectEffective(cfg[p])]
    /\ goto(p, "done")
    /\ UNCHANGED <<dirs, env, command, path, cfg, valid, report, data, plan, commands,
                   edits, kills, begun, calm, origin, clean>>

\* show-effective validates a file it reads for itself before the fields are
\* collected from the cache.
Validate(p) ==
    LET at == findProjectConfigYAML(dirs)
    IN  /\ pc[p] = "validate"
        /\ valid' = [valid EXCEPT ![p] = IF at = NoPath THEN "ok"
                                         ELSE ValidateProjectConfigYAML(held(dirs, at))]
        /\ goto(p, "find")
        /\ UNCHANGED <<dirs, env, command, path, cfg, report, data, plan, used, shown,
                       commands, edits, kills, begun, calm, origin, clean>>

-----------------------------------------------------------------------------
(* config check and config fix. *)

ResolveTarget(p) ==
    /\ pc[p] = "target"
    /\ path' = [path EXCEPT ![p] = defaultConfigRelPath(dirs)]
    /\ goto(p, "detect")
    /\ UNCHANGED <<dirs, env, command, cfg, valid, report, data, plan, used, shown,
                   commands, edits, kills, begun, calm, origin, clean>>

Detect(p) ==
    /\ pc[p] = "detect"
    /\ report' = [report EXCEPT ![p] = reportOf(held(dirs, path[p]))]
    /\ goto(p, IF command[p].kind = "check" \/ FixableProblems(report'[p].codes) = {} THEN "done"
               ELSE IF command[p].dry \/ command[p].yes THEN "reread"
               ELSE "prompt")
    /\ UNCHANGED <<dirs, env, command, path, cfg, valid, data, plan, used, shown, commands,
                   edits, kills, begun, calm, origin, clean>>

Prompt(p) ==
    /\ pc[p] = "prompt"
    /\ goto(p, "reread") \/ goto(p, "done")
    /\ UNCHANGED <<dirs, env, command, path, cfg, valid, report, data, plan, used, shown,
                   commands, edits, kills, begun, calm, origin, clean>>

\* ApplyConfigFixes.
Reread(p) ==
    LET doc == held(dirs, path[p])
        fails == doc = NoFile \/ doc.form = "garbled"
    IN  /\ pc[p] = "reread"
        /\ data' = [data EXCEPT ![p] = IF fails THEN @ ELSE fixed(report[p].codes, doc)]
        /\ goto(p, IF fails THEN "failed" ELSE IF command[p].dry THEN "done" ELSE "truncate")
        /\ UNCHANGED <<dirs, env, command, path, cfg, valid, report, plan, used, shown,
                       commands, edits, kills, begun, calm, origin, clean>>

\* Without its folder there is no file to open.
Truncate(p) ==
    LET lost == through(dirs, path[p][1]).is # "dir"
    IN  /\ pc[p] = "truncate"
        /\ dirs' = IF lost THEN dirs ELSE put(dirs, path[p], Blank)
        /\ IF lost THEN calm' = calm ELSE disturb(p)
        /\ goto(p, IF lost THEN "failed" ELSE "write")
        /\ UNCHANGED <<env, command, path, cfg, valid, report, data, plan, used, shown,
                       commands, edits, kills, begun, origin, clean>>

\* The file is open: it is written where its folder has been renamed to.
Write(p) ==
    /\ pc[p] = "write"
    /\ dirs' = put(dirs, path[p], data[p])
    /\ disturb(p)
    /\ goto(p, "done")
    /\ UNCHANGED <<env, command, path, cfg, valid, report, data, plan, used, shown,
                   commands, edits, kills, begun, origin, clean>>

-----------------------------------------------------------------------------
(* config migrate-mode. *)

\* `.hstl` is an older folder itself, so it is the source where it is there.
buildMigrationPlan(to) ==
    LET older == SelectSeq(<<".hstl", ".hostler">>, LAMBDA d : dirs[d].is = "dir")
    IN  [source |-> IF older = <<>> THEN "" ELSE Head(older),
         already |-> dirs[to].is = "dir"]
conflicts(to) == {d \in {".hstl", ".pry4"} \ {to} : dirs[d].is = "dir"}

Plan(p) ==
    LET to == command[p].to
        found == buildMigrationPlan(to)
    IN  /\ pc[p] = "plan"
        /\ plan' = [plan EXCEPT ![p] = found]
        /\ goto(p, IF conflicts(to) # {} THEN "failed"
                   ELSE IF found.already /\ found.source = "" THEN "done"
                   ELSE IF to # Primary THEN "failed"
                   ELSE IF command[p].dry THEN "done" ELSE "rename")
        /\ UNCHANGED <<dirs, env, command, path, cfg, valid, report, data, used, shown,
                       commands, edits, kills, begun, calm, origin, clean>>

\* A folder is renamed to nothing or to an empty folder, and where there is
\* neither it is made.
Rename(p) ==
    LET src == plan[p].source
        inTheWay == dirs[Primary].yaml # NoFile \/ dirs[Primary].yml # NoFile
        fails == src # "" /\ (inTheWay \/ dirs[src].is # "dir")
    IN  /\ pc[p] = "rename"
        /\ IF plan[p].already \/ fails THEN UNCHANGED <<dirs, calm>>
           ELSE /\ dirs' = IF src # ""
                           THEN [dirs EXCEPT ![Primary] = dirs[src], ![src] = NoDir]
                           ELSE [dirs EXCEPT ![Primary].is = "dir"]
                /\ disturb(p)
        /\ goto(p, IF ~plan[p].already /\ fails THEN "failed"
                   ELSE IF command[p].keep /\ src # "" THEN "symlink"
                   ELSE "done")
        /\ UNCHANGED <<env, command, path, cfg, valid, report, data, plan, used, shown,
                       commands, edits, kills, begun, origin, clean>>

\* What is there already stays.
Symlink(p) ==
    LET src == plan[p].source
    IN  /\ pc[p] = "symlink"
        /\ dirs' = IF dirs[src].is = "none" THEN [dirs EXCEPT ![src].is = "link"] ELSE dirs
        /\ IF dirs' = dirs THEN calm' = calm ELSE disturb(p)
        /\ goto(p, "done")
        /\ UNCHANGED <<env, command, path, cfg, valid, report, data, plan, used, shown,
                       commands, edits, kills, begun, origin, clean>>

-----------------------------------------------------------------------------
(* What happens around a command. *)

Edit(at, doc) ==
    /\ edits < MaxEdits
    /\ dirs[at[1]].is = "dir" /\ held(dirs, at) # doc
    /\ dirs' = put(dirs, at, doc)
    /\ calm' = [p \in Proc |-> FALSE] /\ clean' = FALSE
    /\ edits' = edits + 1
    /\ UNCHANGED <<env, pc, command, path, cfg, valid, report, data, plan, used, shown,
                   commands, kills, begun, origin>>

Kill(p) ==
    /\ kills < MaxKills /\ ~resting(p)
    /\ goto(p, "idle")
    /\ kills' = kills + 1 /\ clean' = FALSE
    /\ UNCHANGED <<dirs, env, command, path, cfg, valid, report, data, plan, used, shown,
                   commands, edits, begun, calm, origin>>

Next ==
    \/ \E p \in Proc :
          \/ \E c \in Commands : Invoke(p, c)
          \/ Find(p) \/ Read(p) \/ Answer(p) \/ Validate(p)
          \/ ResolveTarget(p) \/ Detect(p) \/ Prompt(p) \/ Reread(p) \/ Truncate(p) \/ Write(p)
          \/ Plan(p) \/ Rename(p) \/ Symlink(p)
          \/ Kill(p)
    \/ \E e \in Edits : Edit(e[1], e[2])

Spec == Init /\ [][Next]_configVars

-----------------------------------------------------------------------------
(* Properties. *)

Places == Dir \X {"yaml", "yml"}
Kinds == {"none", "use", "effective", "check", "fix", "migrate"}

\* The variables keep their types, and a link leads where files are.
TypeOK ==
    /\ \A d \in Dir : /\ dirs[d].is \in {"none", "dir", "link"}
                      /\ dirs[d].is # "dir" => dirs[d].yaml = NoFile /\ dirs[d].yml = NoFile
                      /\ dirs[d].is = "link" => d = ".hostler" /\ dirs[Primary].is = "dir"
    /\ \A p \in Proc :
          /\ pc[p] \in {"idle", "done", "failed", "find", "read", "answer", "validate", "target",
                       "detect", "prompt", "reread", "truncate", "write", "plan", "rename",
                       "symlink"}
          /\ command[p].kind \in Kinds /\ path[p] \in Places \cup {NoPath}
          /\ cfg[p].state \in {"unread", "none", "error", "loaded"}
          /\ valid[p] \in {"none", "ok", "invalid", "error"}
    /\ commands \in 0..MaxCommands /\ edits \in 0..MaxEdits /\ kills \in 0..MaxKills

\* What the layers of a file say of a key: the presets in order, then the file.
Layers(doc, k) ==
    SelectSeq(Append([i \in DOMAIN doc.extends |-> Presets[doc.extends[i]]], doc.sets),
              LAMBDA sets : k \in DOMAIN sets)
LastSaid(doc, k) == IF Layers(doc, k) = <<>> THEN Null ELSE Last(Layers(doc, k))[k]
Joined(doc, k) ==
    FlattenSeq([i \in DOMAIN Layers(doc, k) |->
                  IF Layers(doc, k)[i][k] = Null THEN <<>> ELSE Layers(doc, k)[i][k]])

\* `~` after a value.  The code lets it win; merge.go says "nil values are ignored
\* (dst is preserved)".  What such a key should come to is left open.
Withdrawn(doc, k) ==
    \E i, j \in DOMAIN Layers(doc, k) :
        i < j /\ Layers(doc, k)[i][k] # Null /\ Layers(doc, k)[j][k] = Null
FirstOf(choices, good) == Head(SelectSeq(choices, LAMBDA v : v \in good))

\* A file that does not load says nothing.
FileRead(p) ==
    LET at == findProjectConfigYAML(begun[p])
    IN  IF at = NoPath THEN Blank
        ELSE IF loadFrom(begun[p]).state = "error" THEN Blank ELSE held(begun[p], at)

\* Undisturbed, a command takes its policy from the first of the environment, the
\* file with what it extends, and the default that has a valid one; its titles
\* without repetitions; and lists that the layers add up to (config.go, merge.go).
\* Nothing is said of a key that a later layer sets to `~`.
ValuesAsPromised ==
    \A p \in Proc :
        (pc[p] = "done" /\ command[p].kind \in {"use", "effective"} /\ calm[p]) =>
            LET doc == FileRead(p)
                titles == Joined(doc, "titles")
            IN  /\ \/ Withdrawn(doc, "policy") /\ env.policy \notin Policy
                   \/ used[p].policy = FirstOf(<<env.policy, LastSaid(doc, "policy"), "strict">>, Policy)
                /\ \/ Withdrawn(doc, "days") /\ env.days = 0
                   \/ used[p].days = FirstOf(<<env.days, LastSaid(doc, "days"), 30>>, 1..365)
                /\ \/ Withdrawn(doc, "titles") /\ env.titles = <<>>
                   \/ ToSet(used[p].titles) =
                         CASE env.titles # <<>> -> ToSet(env.titles)
                           [] env.titles = <<>> /\ titles # <<>> -> ToSet(titles)
                           [] OTHER -> {"Result", "Deliverables"}
                /\ IsInjective(used[p].titles)
                /\ Withdrawn(doc, "rules") \/ used[p].rules = Joined(doc, "rules")
                /\ \/ Withdrawn(doc, "key")
                   \/ used[p].key = (IF LastSaid(doc, "key") = Null THEN "" ELSE LastSaid(doc, "key"))

\* Undisturbed, what show-effective prints of a file it calls valid is what the
\* getters of that process answer, for values the getters take
\* (precedence.go: "each function must mirror the getter's precedence").
ShownIsUsed ==
    \A p \in Proc :
        (pc[p] = "done" /\ command[p].kind = "effective" /\ calm[p] /\ valid[p] = "ok") =>
            /\ cfg[p].state \in {"none", "loaded"}
            /\ shown[p].policy.value \in Policy => shown[p].policy.value = used[p].policy
            /\ IsInjective(env.titles) => shown[p].titles.value = used[p].titles
            /\ shown[p].key.source = "yaml" => shown[p].key.value = used[p].key

\* Undisturbed, after `config fix` the file it finds has nothing left that it could
\* fix, no value has changed, a file of the older form does not look converted, and
\* a dry run has written nothing; what was looked at is the file that commands read,
\* unless there is a .yml (fix.go, detect.go).  Where the fixed file lies is left
\* open: the code writes the one it read, be it in a folder of an older name, and
\* brand.go says "Writes always target ProjectDirName".
FixSettles ==
    \A p \in Proc :
        (pc[p] = "done" /\ command[p].kind = "fix" /\ calm[p]) =>
            LET problems(ds) == reportOf(held(ds, defaultConfigRelPath(ds))).codes
            IN  /\ (command[p].yes /\ ~command[p].dry) => FixableProblems(problems(dirs)) = {}
                /\ command[p].dry => dirs = begun[p]
                /\ MigrationProblems(problems(dirs)) = MigrationProblems(problems(begun[p]))
                /\ loadFrom(dirs) = loadFrom(begun[p])
                /\ (\A d \in Dir : begun[p][d].yml = NoFile) =>
                      findProjectConfigYAML(begun[p]) \in {path[p], NoPath}

\* Undisturbed, migrate-mode leaves the configuration where commands find it, and
\* with a link every path that led to a file still does (config_migrate_mode.go).
MigrateKeeps ==
    \A p \in Proc :
        (pc[p] \in {"done", "failed"} /\ command[p].kind = "migrate" /\ calm[p]) =>
            /\ loadFrom(dirs) = loadFrom(begun[p])
            /\ command[p].keep =>
                  \A at \in Places : held(begun[p], at) # NoFile => held(dirs, at) = held(begun[p], at)

\* When every command has ended, the configuration is what it was, in whichever
\* order a fix, renames of the folder and readers took their steps.
ConfigKept == (clean /\ \A p \in Proc : resting(p)) => loadFrom(dirs) = origin

\* All of them: the values commands use are those the files, presets and the
\* environment give them, and neither a fix nor a rename loses or changes one.
ConfigSound == ValuesAsPromised /\ ShownIsUsed /\ FixSettles /\ MigrateKeeps /\ ConfigKept
=============================================================================
