--------------------------- MODULE MCBacklogSync ---------------------------
(* Small instances of BacklogSync: p1 and p2 run in worktree w1, p3 in w2.     *)
EXTENDS BacklogSync

CONSTANTS p1, p2, p3, w1, w2, t1, s1

Trees == [n \in {p1, p2, p3} |-> IF n = p3 THEN w2 ELSE w1]

Scene(a, b, c, cmds) ==
    [rounds |-> [n \in {p1, p2, p3} |-> CASE n = p1 -> a [] n = p2 -> b [] n = p3 -> c],
     others |-> cmds]

\* States: the file at some place or two, the row, the line and heading.
Bare == [l \in Loc |-> NoFile]
At(l, f) == [Bare EXCEPT ![l] = f]
Read(fm) == [is |-> "read", fm |-> fm]
Unreadable == [is |-> "unreadable", fm |-> Plain]
Scenario(row, here, there, b, srow, doc, sc) ==
    [tasks |-> [n \in {t1} |-> row], sprints |-> [n \in {s1} |-> srow],
     files |-> [v \in {w1, w2} |-> [n \in {t1} |-> IF v = w1 THEN here ELSE there]],
     backlog |-> [v \in {w1, w2} |-> b],
     docs |-> [v \in {w1, w2} |-> [n \in {s1} |-> IF v = w1 THEN doc
                                    ELSE [l \in SprintPlace |-> "absent"]]],
     scene |-> sc]

\* A list with a row has the date of another day.
ListOf(l, h) == [dated |-> l = {}, listed |-> l, heading |-> h, count |-> 0,
                 section |-> h # "remaining", table |-> {}]
Lists == {ListOf(l, h) : l \in {{}, {t1}}, h \in {"plain", "outstanding"}}
         \cup {ListOf({t1}, "remaining")}
NoDocs == [l \in SprintPlace |-> "absent"]
DocAt(l, d) == [NoDocs EXCEPT ![l] = d]
Active == [is |-> TRUE, status |-> "active", folder |-> "active", title |-> "title",
           started |-> TRUE, completed |-> FALSE]

SomeFM == [status : Status, sprint : {"", "backlog", s1}]
OneFile == {At(l, f) : l \in Loc, f \in {Read(fm) : fm \in SomeFM} \cup {Unreadable}}
TwoFiles == {[At("tasks", Read(fm)) EXCEPT ![l] = Read([Plain EXCEPT !.status = st])] :
               fm \in {g \in SomeFM : g.sprint # "backlog"}, l \in {"archive", "active"},
               st \in Status}
AnyRow == {NoRow} \cup [is : {TRUE}, status : Status, sprint : {"", "backlog", s1},
                        path : {"stale", "tasks"}]
AnySprintRow == {NoSprintRow} \cup
    [is : {TRUE}, status : SprintPlace \cup {"discarded"}, folder : {"backlog", "active"},
     title : {"id", "title", "old"}, started : BOOLEAN, completed : BOOLEAN]

RowFor(l, fm) == [is |-> TRUE, status |-> fm.status, sprint |-> fm.sprint, path |-> l]
Listing0 == ListOf({}, "outstanding")

Repairs == {Scenario(row, f, Bare, b, Active, DocAt("active", "titled"), Scene(3, 0, 0, {})) :
              row \in AnyRow, f \in OneFile \cup {Bare}, b \in Lists}
\* Two files of one Task are for a person to settle; no list tells them apart.
Doubles == {Scenario(row, f, Bare, b, Active, DocAt("active", "titled"), Scene(3, 0, 0, {})) :
              row \in AnyRow, f \in TwoFiles, b \in {c \in Lists : c.heading = "outstanding"}}
SprintRepairs ==
    {Scenario(RowFor("active", fm), At("active", Read(fm)), Bare, Listing0, srow, d,
           Scene(3, 0, 0, {})) :
       fm \in {[status |-> "todo", sprint |-> s1]}, srow \in AnySprintRow,
       d \in {NoDocs, DocAt("active", "untitled")}
              \cup {DocAt(l, "titled") : l \in SprintPlace}}
Pairs == {Scenario(row, At(l, Read(fm)), Bare, Listing0, srow, DocAt("active", "titled"),
                Scene(1, 1, 0, {})) :
            row \in {NoRow} \cup {RowFor("stale", g) : g \in [status : Status, sprint : {s1}]},
            l \in {"tasks", "active", "completed"}, fm \in [status : Status, sprint : {s1}],
            srow \in {Active, NoSprintRow, [Active EXCEPT !.status = "backlog",
                                                         !.started = FALSE]}}
Amid == {Scenario(RowFor(l, fm), At(l, Read(fm)), At("tasks", Read(Plain)), Listing0,
               [Active EXCEPT !.status = "backlog", !.folder = "backlog"],
               DocAt("backlog", "titled"),
               Scene(1, 0, 1, cmds)) :
           l \in {"tasks", "backlog"}, fm \in {[status |-> "todo", sprint |-> s1]},
           cmds \in {{"task"}, {"sprint"}, {"rebuild"}}}

\* A Task whose file is in the other worktree only, where the row says, or not.
Elsewhere == {Scenario(row, Bare, At(l, Read(Plain)), b, Active, DocAt("active", "titled"),
                       Scene(3, 0, 0, {})) :
                row \in AnyRow, l \in {"tasks", "active"}, b \in Lists}

Everything == {Repairs, Doubles, SprintRepairs, Pairs, Amid, Elsewhere}
=============================================================================
