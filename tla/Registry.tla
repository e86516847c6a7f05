------------------------------ MODULE Registry ------------------------------
(***************************************************************************)
(* The resource registry: ports, event ranges and other finite resources,  *)
(* allocated from one JSON file in the user's home (`runtime`), of which   *)
(* `registry sync` keeps a snapshot in the project (`docs`).               *)
(*                                                                         *)
(* Every command runs in a process of its own, so the package's mutex,     *)
(* which one process holds for its one command, never makes anyone wait.   *)
(* A step is one read of a file, one truncation (os.WriteFile opens with   *)
(* O_TRUNC) or the write that follows it.                                  *)
(***************************************************************************)
EXTENDS Integers, Sequences, FiniteSets

CONSTANTS
    Proc,
    Name,         \* resources
    Env,          \* environments an allocation may be confined to
    Value,        \* what --value may ask for
    Bounds,       \* what --range-start and --range-end may ask for
    Size,         \* HSTL_REGISTRY_RANGE_SIZE
    Start,        \* HSTL_REGISTRY_RANGE_START
    Seed,         \* a registry left by earlier commands
    MaxCommands, MaxCrashes,
    Missing, Torn, NoEnv, NoValue

VARIABLES runtime, docs, pc, job, issued, crashes,
          calm,     \* history: no two commands have overlapped
          granted   \* history: the allocations answered "ok"

vars == <<runtime, docs, pc, job, issued, crashes, calm, granted>>

\* A single value is the range from it to itself; the owner is the number of
\* the command that asked.
Allocation == [kind : {"unique", "range"}, lo : Int, hi : Int,
               env : Env \cup {NoEnv}, owner : Nat]
Reg == [Name -> Seq(Allocation)]
emptyRegistry == [n \in Name |-> <<>>]
File == Reg \cup {Missing, Torn}
Readable(f) == f \in Reg

\* Two allocations of a resource that FindConflicts* tells apart from free.
Clash(x, y) ==
    /\ x.kind = y.kind
    /\ x.lo <= y.hi /\ y.lo <= x.hi
    /\ x.kind = "unique" => NoEnv \in {x.env, y.env} \/ x.env = y.env

Consistent(f) ==
    \A n \in Name : \A i, j \in 1..Len(f[n]) :
        i # j => ~Clash(f[n][i], f[n][j])

\* What the constants must be.
RegistryAssumption ==
    /\ Seed \in Reg /\ Consistent(Seed)
    /\ Value \subseteq Int /\ Bounds \subseteq Int \X Int
    /\ Size \in Nat \ {0} /\ Start \in Nat
    /\ MaxCommands \in Nat /\ MaxCrashes \in Nat
    /\ NoEnv \notin Env
    /\ NoValue \notin Int \X Int
    /\ Missing \notin Reg /\ Torn \notin Reg

Command ==
    [op : {"allocate", "check"}, kind : {"unique"}, name : Name,
     want : {<<v, v>> : v \in Value} \cup {NoValue},
     env : Env \cup {NoEnv}]
    \cup [op : {"allocate", "check"}, kind : {"range"}, name : Name,
          want : Bounds \cup {NoValue}, env : {NoEnv}]
    \cup [op : {"allocate"}, kind : {"other"}, name : Name, want : {NoValue},
          env : {NoEnv}]
    \cup [op : {"list", "sync"}]
NoJob == [cmd |-> [op |-> "none"], reg |-> emptyRegistry, owner |-> 0]

TypeOK ==
    /\ runtime \in File /\ docs \in File
    /\ pc \in [Proc -> {"idle", "load", "fallback", "boot", "fill", "decide",
                        "save", "write", "copy", "snapshot"}]
    /\ \A p \in Proc :
        pc[p] # "idle" => job[p].cmd \in Command /\ job[p].reg \in Reg
    /\ issued \in 0..MaxCommands /\ crashes \in 0..MaxCrashes

Init ==
    /\ runtime \in {Missing, Seed} /\ docs \in {Missing, Seed}
    /\ pc = [p \in Proc |-> "idle"]
    /\ job = [p \in Proc |-> NoJob]
    /\ issued = 0 /\ crashes = 0
    /\ calm = TRUE /\ granted = {}

-----------------------------------------------------------------------------
(* What a command looks up in the registry it has loaded. *)

Allocated(reg, n) == {reg[n][i] : i \in 1..Len(reg[n])}

\* Mutant of conflicts: it meets only allocations of its own environment.
conflictsInEnv(reg, n, a) == {x \in Allocated(reg, n) : Clash(x, a) /\ x.env = a.env}

\* FindConflictsUnique and FindConflictsRange.
conflicts(reg, n, a) == {x \in Allocated(reg, n) : Clash(x, a)}

\* Mutant of considered: an environment sees its own allocations only.
consideredInEnv(reg, n, kind, env) ==
    {x \in Allocated(reg, n) : x.kind = kind /\ x.env = env}

\* SuggestNextUnique and SuggestNextRange look at the ends of these.
considered(reg, n, kind, env) ==
    {x \in Allocated(reg, n) :
        /\ x.kind = kind
        /\ kind = "unique" => env = NoEnv \/ x.env \in {env, NoEnv}}

\* What is allocated when the command names no value: past every end, or the
\* default where nothing has been allocated.
suggestion(reg, n, kind, env) ==
    LET seen == considered(reg, n, kind, env)
    IN  IF seen = {} THEN IF kind = "unique" THEN 1 ELSE Start
        ELSE (CHOOSE m \in {x.hi : x \in seen} : \A x \in seen : x.hi <= m) + 1

\* The allocation a command asks for.
asked(c, reg, owner) ==
    LET lo == suggestion(reg, c.name, c.kind, c.env)
    IN  [kind |-> c.kind, env |-> c.env, owner |-> owner,
         lo |-> IF c.want = NoValue THEN lo ELSE c.want[1],
         hi |-> IF c.want # NoValue THEN c.want[2]
                ELSE IF c.kind = "unique" THEN lo ELSE lo + Size - 1]

-----------------------------------------------------------------------------
(* Steps of the commands. *)

goto(p, l) == pc' = [pc EXCEPT ![p] = l]

end(p) == goto(p, "idle") /\ job' = [job EXCEPT ![p] = NoJob]

Begin(p) ==
    /\ pc[p] = "idle" /\ issued < MaxCommands
    /\ \E c \in Command :
        /\ job' = [job EXCEPT ![p] = [cmd |-> c, reg |-> emptyRegistry,
                                      owner |-> issued + 1]]
        /\ goto(p, IF c.op = "sync" THEN "copy" ELSE "load")
    /\ issued' = issued + 1
    /\ calm' = (calm /\ \A q \in Proc : pc[q] = "idle")
    /\ UNCHANGED <<runtime, docs, crashes, granted>>

\* Mutant of Load: the snapshot goes before the runtime file.
LoadSnapshotFirst(p) ==
    /\ pc[p] = "load"
    /\ IF Readable(runtime)
       THEN /\ job' = [job EXCEPT ![p].reg = IF Readable(docs) THEN docs ELSE runtime]
            /\ goto(p, "decide")
       ELSE /\ job' = job
            /\ goto(p, "fallback")
    /\ UNCHANGED <<runtime, docs, issued, crashes, calm, granted>>

\* LoadRegistry: the runtime file, when it is there and parses.
Load(p) ==
    /\ pc[p] = "load"
    /\ IF Readable(runtime)
       THEN /\ job' = [job EXCEPT ![p].reg = runtime]
            /\ goto(p, "decide")
       ELSE /\ job' = job
            /\ goto(p, "fallback")
    /\ UNCHANGED <<runtime, docs, issued, crashes, calm, granted>>

\* Mutant of Fallback: the snapshot is not looked for.
FallbackToNothing(p) ==
    /\ pc[p] = "fallback"
    /\ goto(p, "decide")
    /\ UNCHANGED <<runtime, docs, job, issued, crashes, calm, granted>>

\* Else the snapshot, which is copied to the runtime path; else an empty one.
Fallback(p) ==
    /\ pc[p] = "fallback"
    /\ IF Readable(docs)
       THEN /\ job' = [job EXCEPT ![p].reg = docs]
            /\ goto(p, "boot")
       ELSE /\ job' = job
            /\ goto(p, "decide")
    /\ UNCHANGED <<runtime, docs, issued, crashes, calm, granted>>

\* os.WriteFile truncates the file ...
Truncate(p) ==
    /\ pc[p] \in {"boot", "save"}
    /\ runtime' = Torn
    /\ goto(p, IF pc[p] = "boot" THEN "fill" ELSE "write")
    /\ UNCHANGED <<docs, job, issued, crashes, calm, granted>>

\* ... and writes at its start: if another process has written since, the
\* rest of what that one wrote may follow.
written(f, reg) == IF f = Torn THEN {reg} ELSE {reg, Torn}

Fill(p) ==
    /\ pc[p] = "fill"
    /\ runtime' \in written(runtime, job[p].reg)
    /\ goto(p, "decide")
    /\ UNCHANGED <<docs, job, issued, crashes, calm, granted>>

\* `allocate` appends what is free to what it loaded; a conflict, an
\* unsupported type, `check` and `list` answer and end.
Decide(p) ==
    /\ pc[p] = "decide"
    /\ LET c == job[p].cmd
           a == asked(c, job[p].reg, job[p].owner)
       IN  IF c.op = "allocate" /\ c.kind # "other"
                /\ conflicts(job[p].reg, c.name, a) = {}
           THEN /\ job' = [job EXCEPT ![p].reg[c.name] = Append(@, a)]
                /\ goto(p, "save")
           ELSE end(p)
    /\ UNCHANGED <<runtime, docs, issued, crashes, calm, granted>>

\* saveRegistryLocked's write; the allocation is answered "ok".
Write(p) ==
    /\ pc[p] = "write"
    /\ runtime' \in written(runtime, job[p].reg)
    /\ LET n == job[p].cmd.name
       IN  granted' = granted \cup {[name |-> n, of |-> job[p].reg[n][Len(job[p].reg[n])]]}
    /\ end(p)
    /\ UNCHANGED <<docs, issued, crashes, calm>>

\* Mutant of Copy: the runtime file is copied whether it parses or not.
CopyUnparsed(p) ==
    /\ pc[p] = "copy"
    /\ job' = [job EXCEPT ![p].reg = runtime]
    /\ docs' = Torn
    /\ goto(p, "snapshot")
    /\ UNCHANGED <<runtime, issued, crashes, calm, granted>>

\* SyncToProject: a runtime file that is missing or does not parse is not
\* copied; otherwise the snapshot is truncated ...
Copy(p) ==
    /\ pc[p] = "copy"
    /\ IF Readable(runtime)
       THEN /\ job' = [job EXCEPT ![p].reg = runtime]
            /\ docs' = Torn
            /\ goto(p, "snapshot")
       ELSE end(p) /\ UNCHANGED docs
    /\ UNCHANGED <<runtime, issued, crashes, calm, granted>>

\* ... and written.
Snapshot(p) ==
    /\ pc[p] = "snapshot"
    /\ docs' \in written(docs, job[p].reg)
    /\ end(p)
    /\ UNCHANGED <<runtime, issued, crashes, calm, granted>>

\* The process is killed: the file it was writing stays truncated.
Crash(p) ==
    /\ pc[p] # "idle" /\ crashes < MaxCrashes
    /\ end(p)
    /\ crashes' = crashes + 1
    /\ UNCHANGED <<runtime, docs, issued, calm, granted>>

Next ==
    \E p \in Proc :
        \/ Begin(p) \/ Load(p) \/ Fallback(p) \/ Truncate(p) \/ Fill(p)
        \/ Decide(p) \/ Write(p) \/ Copy(p) \/ Snapshot(p) \/ Crash(p)

Spec == Init /\ [][Next]_vars

-----------------------------------------------------------------------------
(* Properties. *)

\* What LoadRegistry would return now.
Effective ==
    IF Readable(runtime) THEN runtime
    ELSE IF Readable(docs) THEN docs ELSE emptyRegistry

\* The allocations of a registry.
Holds(reg) == UNION {{[name |-> n, of |-> x] : x \in Allocated(reg, n)} : n \in Name}

\* Neither file ever holds two allocations of a resource that conflict, in
\* whatever order processes read, truncate, write and die (FindConflicts* is
\* asked of the registry that is then written).
FilesConsistent ==
    /\ Readable(runtime) => Consistent(runtime)
    /\ Readable(docs) => Consistent(docs)

\* `allocate` without a value is never refused: what SuggestNext* proposes for
\* an environment is free by the rule of FindConflicts*, which treats the
\* environments differently.
SuggestionFree ==
    \A p \in Proc :
        pc[p] = "decide" /\ job[p].cmd.op = "allocate" /\ job[p].cmd.kind # "other"
            /\ job[p].cmd.want = NoValue
        => conflicts(job[p].reg, job[p].cmd.name,
                     asked(job[p].cmd, job[p].reg, job[p].owner)) = {}

\* Commands run one after another and none is killed: whatever `allocate` has
\* answered "ok" is in the registry the next command loads.
GrantsKept ==
    calm /\ crashes = 0 /\ (\A p \in Proc : pc[p] = "idle")
    => granted \subseteq Holds(Effective)

\* Commands run one after another, killed or not: what the snapshot holds is
\* never lost, for the registry falls back to it.
SnapshotKept == calm /\ Readable(docs) => Holds(docs) \subseteq Holds(Effective)

\* The three together: what is proposed is free, what is granted or copied stays.
RegistryKeeps == SuggestionFree /\ GrantsKept /\ SnapshotKept
=============================================================================
