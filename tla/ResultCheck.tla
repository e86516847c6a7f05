----------------------------- MODULE ResultCheck -----------------------------
(***************************************************************************)
(* What `task complete` reads in a Task's file, and how it checks the      *)
(* files that the Result section names against git: three queries of git   *)
(* one after another, and for what is missing then a search of the history *)
(* since the Task was created.  Whoever works in the repository writes,    *)
(* stages and commits between any two of them.                             *)
(*                                                                         *)
(* A path is the sequence of its segments; a body the sequence of its      *)
(* lines.  A day has two ticks of the clock.                               *)
(***************************************************************************)
EXTENDS Integers, Sequences, SequencesExt, FiniteSets, FiniteSetsExt, Functions

CONSTANTS
    File,          \* paths of the repository
    Self,          \* the Task's own file
    Driftless,     \* task_result_check.drift_less_paths
    DiffTypes,     \* Task types whose template asks for a diff
    Depth,         \* HSTL_TASK_RESULT_DIFF_DEPTH
    MinChars,      \* rollbackSectionMinChars
    Begins,        \* what a behaviour may begin with
    MaxEdits       \* events of the repository in a behaviour

\* What a behaviour begins with has its types.
ResultAssumption ==
    /\ Depth \in Nat
    /\ \A b \in Begins :
          /\ b.clock \in Nat /\ b.task.created \in Nat
          /\ b.unstaged \subseteq File /\ b.staged \subseteq File
          /\ b.commits \in Seq([files : SUBSET File, at : Nat])

VARIABLES
    task,          \* body, type, policy and created, the day of the Task
    unstaged, staged, untracked,    \* the work tree and the index
    commits, clock,
    pc, queries, changed, checked, missing, left, verdict, judged,
    edits,
    begun,         \* history: what was dirty, and how many commits, when the check began
    disturbed      \* history: something was unstaged since

resultVars == <<task, unstaged, staged, untracked, commits, clock, pc, queries, changed,
                checked, missing, left, verdict, judged, edits, begun, disturbed>>

-----------------------------------------------------------------------------
(* The file. *)

\* A line [is, ticks, bare, moved]: tokens in backticks, the first word of its
\* text, and whether "->" stands before them.  A token [form, path] is a path of
\* the repository as it is or absolute, one outside of it, or none at all.
Line(is, ticks, bare, moved) == [is |-> is, ticks |-> ticks, bare |-> bare, moved |-> moved]
Plain(is) == Line(is, <<>>, <<>>, FALSE)
Headings == {"title", "heading", "rollback", "followup", "criteria"}
Boxes == {"done", "open"}
Text == {"bullet", "nested", "row", "prose"} \cup Boxes

isLikelyFilePath(token) == token.form \in {"plain", "inside", "outside"}
likely(tokens) == SelectSeq(tokens, isLikelyFilePath)

\* Of a bullet or a row the first path, of a bullet with a box only one in
\* backticks, as its first word is the box; of other text, and of what is right
\* of an arrow, everything in backticks.
extractPathsFromLine(l) ==
    IF l.is \notin {"bullet", "row"} \cup Boxes \/ l.moved THEN likely(l.ticks)
    ELSE IF l.ticks # <<>> THEN likely(<<Head(l.ticks)>>)
    ELSE IF l.is \in Boxes THEN <<>> ELSE likely(l.bare)

initialMode(type) == IF type \in {"infra", "spike"} THEN "narrative" ELSE "all"

\* From the title on, until another section or a rule; below a sub-heading that
\* is not one of artifacts, nothing counts.
parseTaskResultFilesForType(body, type) ==
    LET addNew(paths, t) == IF t \in Range(paths) THEN paths ELSE Append(paths, t)
        scan(acc, l) ==
            IF acc.over THEN acc
            ELSE IF l.is = "title"
            THEN [acc EXCEPT !.inside = TRUE, !.mode = initialMode(type)]
            ELSE IF ~acc.inside THEN acc
            ELSE IF l.is \in Headings \cup {"rule"} THEN [acc EXCEPT !.over = TRUE]
            ELSE IF l.is \in {"artifacts", "narrative"} THEN [acc EXCEPT !.mode = l.is]
            ELSE IF acc.mode # "narrative" /\ l.is \in Text \ {"nested"}
            THEN [acc EXCEPT !.paths = FoldLeft(addNew, @, extractPathsFromLine(l))]
            ELSE acc
    IN  FoldLeft(scan, [inside |-> FALSE, over |-> FALSE, mode |-> initialMode(type),
                        paths |-> <<>>], body).paths

\* One path names the other's end, or merely the same file name.
sameName(a, b) == IsSuffix(a, b) \/ IsSuffix(b, a) \/ Last(a) = Last(b)

excludeSelfReference(tokens) == {t \in tokens : ~sameName(t.path, Self)}

\* A follow-up section with text but no Task ID is warned of.
verifyFollowups(body) ==
    LET unreferenced(acc) == IF acc.inside /\ acc.text /\ ~acc.ref THEN 1 ELSE 0
        scan(acc, l) ==
            IF l.is \in Headings
            THEN [inside |-> l.is = "followup", text |-> FALSE, ref |-> FALSE,
                  warnings |-> acc.warnings + unreferenced(acc)]
            ELSE [acc EXCEPT !.text = @ \/ l.is # "blank", !.ref = @ \/ l.is = "ref"]
        end == FoldLeft(scan, [inside |-> FALSE, text |-> FALSE, ref |-> FALSE,
                               warnings |-> 0], body)
    IN  end.warnings + unreferenced(end)

\* Characters of a line: any number that needs two lines to reach MinChars.
chars(l) == CASE l.is = "blank" -> 0 [] l.is = "rule" -> 3 [] OTHER -> MinChars - 1

\* The first Rollback section is long enough.
verifyRollbackSection(body) ==
    LET scan(acc, l) ==
            IF acc.over THEN acc
            ELSE IF l.is \in Headings
            THEN [acc EXCEPT !.over = acc.inside, !.inside = l.is = "rollback"]
            ELSE IF acc.inside THEN [acc EXCEPT !.chars = @ + chars(l)] ELSE acc
    IN  FoldLeft(scan, [inside |-> FALSE, over |-> FALSE, chars |-> 0], body).chars >= MinChars

\* The boxes under Done Criteria; of the whole file if that section is empty.
parseCompletionCriteria(body) ==
    LET scan(acc, l) ==
            IF acc.over THEN acc
            ELSE IF l.is = "criteria" THEN [acc EXCEPT !.inside = TRUE]
            ELSE IF ~acc.inside THEN acc
            ELSE IF l.is \in Headings THEN [acc EXCEPT !.over = TRUE]
            ELSE [acc EXCEPT !.lines = Append(@, l)]
        section == FoldLeft(scan, [inside |-> FALSE, over |-> FALSE, lines |-> <<>>], body).lines
        lines == IF \A i \in DOMAIN section : section[i].is = "blank" THEN body ELSE section
        count(kind) == Cardinality({i \in DOMAIN lines : lines[i].is = kind})
    IN  [total |-> count("done") + count("open"), checked |-> count("done")]

-----------------------------------------------------------------------------
(* The check. *)

Dirty == unstaged \cup staged
Committed(from) == UNION {commits[i].files : i \in from..Len(commits)}
Tracked == Committed(1)
Existing == Tracked \cup Dirty \cup untracked

\* Mutant of gitQueries: what is committed between two of them is not seen.
gitQueriesReversed == <<"log", "diff --cached", "diff">>

\* runGit: three queries in this order; what moves on between two of them has
\* been seen before or is seen after.
gitQueries == <<"diff", "diff --cached", "log">>

runGit(query) ==
    CASE query = "diff" -> unstaged
      [] query = "diff --cached" -> staged
      [] query = "log" -> Committed(Max({1, Len(commits) - Depth + 1}))

Init ==
    /\ \E b \in Begins :
          /\ task = b.task /\ commits = b.commits /\ clock = b.clock
          /\ unstaged = b.unstaged /\ staged = b.staged /\ edits = b.edits
    /\ untracked = {}
    /\ pc = "idle" /\ queries = <<>> /\ changed = {} /\ checked = {} /\ missing = {}
    /\ left = {}
    /\ verdict = "none" /\ judged = "none"
    /\ begun = [dirty |-> {}, commits |-> 0] /\ disturbed = FALSE

repository == <<unstaged, staged, untracked, commits, clock, edits>>

shouldVerify ==
    task.policy # "off" /\ (task.policy = "strict" \/ task.type \in DiffTypes)

\* recordTaskResultJudgement is not reached when the command is blocked.
judgement(absent) ==
    IF absent = {} THEN "pass"
    ELSE IF task.policy = "warn" THEN "warn"
    ELSE IF task.policy = "strict" THEN "block" ELSE "pass"
Blocks(why) == pc' = "end" /\ verdict' = why /\ judged' = judged
Passes(absent) == pc' = "end" /\ verdict' = "done" /\ judged' = judgement(absent)

Begin ==
    LET named == excludeSelfReference(Range(parseTaskResultFilesForType(task.body, task.type)))
    IN  /\ pc = "idle"
        /\ begun' = [dirty |-> Dirty, commits |-> Len(commits)]
        /\ IF task.type = "hotfix" /\ ~verifyRollbackSection(task.body)
           THEN Blocks("no_rollback") /\ UNCHANGED <<queries, checked>>
           ELSE IF ~shouldVerify
           THEN pc' = "end" /\ verdict' = "done" /\ UNCHANGED <<judged, queries, checked>>
           ELSE IF named = {}
           THEN Passes({}) /\ UNCHANGED <<queries, checked>>
           ELSE /\ pc' = "git" /\ queries' = gitQueries /\ checked' = named
                /\ UNCHANGED <<verdict, judged>>
        /\ UNCHANGED <<repository, task, changed, missing, left, disturbed>>

GetGitChangedFiles ==
    /\ pc = "git" /\ queries # <<>>
    /\ changed' = changed \cup runGit(Head(queries))
    /\ queries' = Tail(queries)
    /\ UNCHANGED <<repository, task, pc, checked, missing, left, verdict, judged, begun,
                   disturbed>>

isDriftLessRegenerated(path) ==
    (\E d \in Driftless : IsSuffix(d, path) \/ IsSuffix(path, d)) /\ path \in Existing

\* verifyTaskResultsForType: nothing is missing where git names nothing.
absent(token) ==
    \/ token.form = "outside"
    \/ /\ \A c \in changed : ~sameName(c, token.path)
       /\ ~isDriftLessRegenerated(token.path)

VerifyTaskResults ==
    LET notFound == IF changed = {} THEN {} ELSE {t \in checked : absent(t)}
    IN  /\ pc = "git" /\ queries = <<>>
        /\ missing' = notFound
        /\ IF notFound # {} /\ task.policy = "strict"
           THEN pc' = "history" /\ left' = notFound /\ UNCHANGED <<verdict, judged>>
           ELSE Passes(notFound) /\ left' = left
        /\ UNCHANGED <<repository, task, queries, changed, checked, begun, disturbed>>

\* `git log --since` takes a date without a time for that day at this time of day.
normalizeSince(created) == 2 * created + (clock % 2)
pathInGitLogSince(token) ==
    /\ token.form # "outside"
    /\ \E i \in DOMAIN commits : /\ commits[i].at >= normalizeSince(task.created)
                                 /\ token.path \in commits[i].files

\* One token after another, in some order.
ApplyGitLogFallback(token) ==
    /\ pc = "history" /\ token \in left
    /\ missing' = IF pathInGitLogSince(token) THEN missing \ {token} ELSE missing
    /\ left' = left \ {token}
    /\ UNCHANGED <<repository, task, pc, queries, changed, checked, verdict, judged, begun,
                   disturbed>>

Conclude ==
    /\ pc = "history" /\ left = {}
    /\ IF missing = {} THEN Passes(missing) ELSE Blocks("unverified")
    /\ UNCHANGED <<repository, task, queries, changed, checked, missing, left, begun,
                   disturbed>>

-----------------------------------------------------------------------------
(* The repository. *)

Edits ==
    /\ edits < MaxEdits /\ edits' = edits + 1
    /\ UNCHANGED <<task, pc, queries, changed, checked, missing, left, verdict, judged, begun>>

Write(f) ==
    /\ Edits
    /\ IF f \in Tracked \cup staged
       THEN unstaged' = unstaged \cup {f} /\ UNCHANGED untracked
       ELSE untracked' = untracked \cup {f} /\ UNCHANGED unstaged
    /\ UNCHANGED <<staged, commits, clock, disturbed>>

Stage(f) ==
    /\ Edits /\ f \in unstaged \cup untracked
    /\ staged' = staged \cup {f} /\ unstaged' = unstaged \ {f} /\ untracked' = untracked \ {f}
    /\ UNCHANGED <<commits, clock, disturbed>>

Commit ==
    /\ Edits /\ staged # {}
    /\ commits' = Append(commits, [files |-> staged, at |-> clock])
    /\ staged' = {}
    /\ UNCHANGED <<unstaged, untracked, clock, disturbed>>

Reset ==
    /\ Edits /\ staged # {}
    /\ unstaged' = unstaged \cup (staged \cap Tracked)
    /\ untracked' = untracked \cup (staged \ Tracked)
    /\ staged' = {} /\ disturbed' = TRUE
    /\ UNCHANGED <<commits, clock>>

Tick == Edits /\ clock' = clock + 1 /\ UNCHANGED <<unstaged, staged, untracked, commits, disturbed>>

Next ==
    \/ Begin \/ GetGitChangedFiles \/ VerifyTaskResults
    \/ \E t \in left : ApplyGitLogFallback(t)
    \/ Conclude
    \/ pc # "end" /\ \/ \E f \in File : Write(f) \/ Stage(f)
                     \/ Commit \/ Reset \/ Tick

Spec == Init /\ [][Next]_resultVars

-----------------------------------------------------------------------------
(* Properties. *)

TypeOK ==
    /\ unstaged \subseteq File /\ staged \subseteq File /\ untracked \subseteq File
    /\ changed \subseteq File /\ edits \in 0..MaxEdits
    /\ pc \in {"idle", "git", "history", "end"}
    /\ verdict \in {"none", "done", "no_rollback", "unverified"}
    /\ judged \in {"none", "pass", "warn"}

\* Without a parser: the lines between a heading and the next one.
headingsOf(body, kinds) == {i \in DOMAIN body : body[i].is \in kinds}
sectionEnd(body, from, kinds) ==
    Min({i \in DOMAIN body : i > from /\ body[i].is \in kinds} \cup {Len(body) + 1})
sectionLines(body, from, kinds) == (from + 1)..(sectionEnd(body, from, kinds) - 1)

\* The lines that name files: between the first title and what ends its section,
\* those whose nearest heading above is one of artifacts, or is the title itself
\* unless the Task is infra or spike.
namingLines(body, type) ==
    LET titles == headingsOf(body, {"title"})
        last == sectionEnd(body, Min(titles), (Headings \ {"title"}) \cup {"rule"})
        above(i) == Max(headingsOf(SubSeq(body, 1, i), {"title", "artifacts", "narrative"}))
    IN  IF titles = {} THEN {}
        ELSE {i \in (Min(titles) + 1)..(last - 1) :
                /\ body[i].is \in Text \ {"nested"}
                /\ \/ body[above(i)].is = "artifacts"
                   \/ body[above(i)].is = "title" /\ type \notin {"infra", "spike"}}

\* The file is read as its sections say: the files named, each once; a warning
\* for each follow-up without a Task; the boxes of Done Criteria.
ReadAsWritten ==
    LET body == task.body
        parsed == parseTaskResultFilesForType(body, task.type)
        criteria == headingsOf(body, {"criteria"})
        boxes == IF criteria = {} THEN {}
                 ELSE sectionLines(body, Min(criteria), Headings \ {"criteria"})
        counted == IF \A i \in boxes : body[i].is \in {"blank", "criteria"} THEN DOMAIN body
                   ELSE boxes
    IN  /\ IsInjective(parsed)
        /\ Range(parsed) = UNION {Range(extractPathsFromLine(body[i])) :
                                    i \in namingLines(body, task.type)}
        /\ verifyFollowups(body) =
             Cardinality({h \in headingsOf(body, {"followup"}) :
                LET own == {body[i].is : i \in sectionLines(body, h, Headings)}
                IN  own \ {"blank"} # {} /\ "ref" \notin own})
        /\ parseCompletionCriteria(body).checked =
             Cardinality({i \in counted : body[i].is = "done"})
        /\ verifyRollbackSection(body) <=>
             \E h \in headingsOf(body, {"rollback"}) :
                /\ \A g \in headingsOf(body, {"rollback"}) : h <= g
                /\ FoldSet(LAMBDA i, n : n + chars(body[i]), 0,
                           sectionLines(body, h, Headings)) >= MinChars

\* A file that was changed when the check began, or committed on a day after
\* the Task was created, never blocks it under its full name, whatever is staged
\* and committed meanwhile; short of a reset, and of more commits than Depth.
ChangedNeverBlocks ==
    verdict = "unverified" /\ ~disturbed /\ Len(commits) - begun.commits <= Depth =>
        \A t \in missing :
            t.form # "outside" =>
                /\ t.path \notin begun.dirty
                /\ \A c \in 1..begun.commits :
                      commits[c].at >= 2 * (task.created + 1) => t.path \notin commits[c].files

\* What passes strictly, when git names anything, was changed: nothing outside of
\* the repository, and no name that git has never heard of.
PassedWasChanged ==
    verdict = "done" /\ task.policy = "strict" /\ changed # {} =>
        \A t \in checked :
            /\ t.form # "outside"
            /\ \E f \in Existing : sameName(f, t.path)

\* All of them: what the file says is what is checked, and the check is fair.
ResultChecked == ReadAsWritten /\ ChangedNeverBlocks /\ PassedWasChanged
=============================================================================
