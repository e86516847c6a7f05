----------------------------- MODULE PartsProofs -----------------------------
(***************************************************************************)
(* What Migration, KnowledgeBase, GateLog, ResultCheck and Stores promise  *)
(* holds for every project, every number of processes and files, and every *)
(* bound.                                                                  *)
(*                                                                         *)
(* The import of a legacy project: MigInv says of a process at each of its *)
(* places what it has collected so far and how that compares with the      *)
(* files, and, where nothing has disturbed it, with the rows.              *)
(*                                                                         *)
(* The knowledge base: KBInv says, while commands do not overlap, what the *)
(* only command under way knows of the file it is about to replace, or has *)
(* counted.                                                                *)
(*                                                                         *)
(* The gate log: GateInv counts the acknowledged records that are lost,    *)
(* with a torn line that may yet cost one; until something is torn or the  *)
(* keys of a call differ, each line is one row.                            *)
(*                                                                         *)
(* The check of a Task's files: ResultInv follows a path that is not found *)
(* from query to query; while the repository moves one way only, a file    *)
(* that was changed at the start is still shown by a query to come.        *)
(*                                                                         *)
(* The stores: StoresInv says that, as long as nothing hides a difference, *)
(* the double holds the SQLite store seen through View, which reads a NULL *)
(* Sprint as the empty one.                                                *)
(***************************************************************************)
EXTENDS Migration, FiniteSetTheorems, TLAPS

CONSTANTS Author, CardFile, Prefix, Handwritten, MaxCalls, MaxKills, Absent, Garbled
VARIABLES cards, index, author, calls, kills, quiet, created, fresh
KB == INSTANCE KnowledgeBase

CONSTANTS Verdict, GateRule, GivenId, MaxAppends, MaxTears, MaxSecond
VARIABLES lines, cut, labels, labelCut, rows, marks, second, appends, tears, answered, odd
GL == INSTANCE GateLog

CONSTANTS File, Self, Driftless, DiffTypes, Depth, MinChars, Begins, MaxEdits
VARIABLES task, unstaged, staged, untracked, commits, clock, pc, queries, changed, checked,
          missing, left, verdict, judged, edits, begun, disturbed
RC == INSTANCE ResultCheck

CONSTANTS TaskId, SprintId, Priority, Seeds, MaxStoreCalls, MaxMinute, NoTask, Null
VARIABLES sql, mem, minute, made, alike
ST == INSTANCE Stores WITH MaxCalls <- MaxStoreCalls, NoRow <- NoTask

-----------------------------------------------------------------------------
(* The largest of finitely many numbers: induction on the finite sets, by  *)
(* taking a smallest one that has none.                                    *)

Largest(m, S) == m \in S /\ \A x \in S : x <= m

LEMMA LargestOfMore ==
    ASSUME NEW S \in SUBSET Int, NEW x \in S,
           S \ {x} = {} \/ \E m : Largest(m, S \ {x})
    PROVE  \E m : Largest(m, S)
<1>1. CASE S \ {x} = {}
  <2>1. Largest(x, S)
    BY <1>1 DEF Largest
  <2> QED
    BY <2>1
<1>2. CASE \E m : Largest(m, S \ {x})
  <2>1. PICK m : Largest(m, S \ {x})
    BY <1>2
  <2>2. Largest(IF x <= m THEN m ELSE x, S)
    BY <2>1 DEF Largest
  <2> QED
    BY <2>2
<1> QED
  BY <1>1, <1>2

LEMMA LargestExists ==
    ASSUME NEW S \in SUBSET Int, IsFiniteSet(S), S # {}
    PROVE  \E m : Largest(m, S)
<1> DEFINE T == {U \in FiniteSubsetsOf(S) : U # {} /\ ~\E m : Largest(m, U)}
<1>1. SUFFICES ASSUME T # {}
               PROVE  FALSE
  <2>1. S \in FiniteSubsetsOf(S)
    BY DEF FiniteSubsetsOf
  <2> QED
    BY <1>1, <2>1
<1>2. PICK U \in T : \A V \in T : ~ <<V, U>> \in StrictSubsetOrdering(S)
  <2>1. IsWellFoundedOn(StrictSubsetOrdering(S), FiniteSubsetsOf(S))
    BY FS_StrictSubsetOrderingWellFounded
  <2>2. T \subseteq FiniteSubsetsOf(S)
    OBVIOUS
  <2> HIDE DEF T
  <2> QED
    BY <1>1, <2>1, <2>2, WFMin
<1>3. U \subseteq S /\ IsFiniteSet(U) /\ U # {} /\ ~\E m : Largest(m, U)
  BY <1>2 DEF FiniteSubsetsOf
<1>4. PICK x \in U : TRUE
  BY <1>3
<1>5. IsFiniteSet(U \ {x})
  BY <1>3, FS_RemoveElement
<1>6. <<U \ {x}, U>> \in StrictSubsetOrdering(S)
  BY <1>3, <1>4 DEF StrictSubsetOrdering
<1>7. U \ {x} \notin T
  BY <1>2, <1>6
<1>8. U \ {x} = {} \/ \E m : Largest(m, U \ {x})
  BY <1>3, <1>5, <1>7 DEF FiniteSubsetsOf
<1>9. U \in SUBSET Int
  BY <1>3
<1> HIDE DEF T
<1> QED
  BY <1>3, <1>4, <1>8, <1>9, LargestOfMore

LEMMA MaxIsLargest ==
    ASSUME NEW S \in SUBSET Nat, IsFiniteSet(S), S # {}
    PROVE  Max(S) \in S /\ Max(S) \in Nat /\ \A x \in S : x <= Max(S)
<1>1. S \in SUBSET Int
      OBVIOUS
<1>2. \E m \in S : \A y \in S : m >= y
      BY <1>1, LargestExists DEF Largest
<1> QED BY <1>2 DEF Max

-----------------------------------------------------------------------------
(* The order of Glob: as many files are before one as its position says.   *)

\* S is the files of one pattern: of one depth, and no two of one name in one place.
OnePattern(S) ==
    /\ IsFiniteSet(S)
    /\ \A f \in S : f.task \in Int /\ f.place.sprint \in Int
    /\ \A f, g \in S : f.task = g.task /\ f.place.sprint = g.place.sprint => f = g

Before(S, f) == {g \in S : earlier(g, f)}

LEMMA BeforeGrows ==
    ASSUME NEW S, OnePattern(S), NEW f \in S
    PROVE  /\ IsFiniteSet(Before(S, f)) /\ Cardinality(Before(S, f)) \in Nat
           /\ Cardinality(Before(S, f)) < Cardinality(S)
           /\ \A g \in S : earlier(g, f) => Cardinality(Before(S, g)) < Cardinality(Before(S, f))
<1>1. IsFiniteSet(S)
      BY DEF OnePattern
<1>2. ASSUME NEW A \in SUBSET S, NEW B \in SUBSET S, NEW x \in B, x \notin A, A \subseteq B
      PROVE  /\ IsFiniteSet(A) /\ IsFiniteSet(B) /\ Cardinality(A) < Cardinality(B)
             /\ Cardinality(A) \in Nat
  <2>1. IsFiniteSet(A) /\ IsFiniteSet(B)
        BY <1>1, FS_Subset
  <2>2. Cardinality(A) <= Cardinality(B) /\ (Cardinality(A) = Cardinality(B) => A = B)
        BY <1>2, <2>1, FS_Subset
  <2>3. Cardinality(A) \in Nat /\ Cardinality(B) \in Nat
        BY <2>1, FS_CardinalityType
  <2> QED BY <1>2, <2>1, <2>2, <2>3
<1>3. f \notin Before(S, f)
      BY DEF Before, earlier, OnePattern
<1>4. Before(S, f) \in SUBSET S
      BY DEF Before
<1>5. ASSUME NEW g \in S, earlier(g, f)
      PROVE  Cardinality(Before(S, g)) < Cardinality(Before(S, f))
  <2>1. g \in Before(S, f) /\ g \notin Before(S, g)
        BY <1>5 DEF Before, earlier, OnePattern
  <2>2. Before(S, g) \subseteq Before(S, f)
        BY <1>5 DEF Before, earlier, OnePattern
  <2>3. Before(S, g) \in SUBSET S
        BY DEF Before
  <2> QED BY <1>2, <1>4, <2>1, <2>2, <2>3
<1> QED BY <1>2, <1>3, <1>4, <1>5

\* Every file has a position and every position a file.
LEMMA PositionsFill ==
    ASSUME NEW S, OnePattern(S)
    PROVE  /\ Cardinality(S) \in Nat
           /\ \A f, g \in S : Cardinality(Before(S, f)) = Cardinality(Before(S, g)) => f = g
           /\ \A i \in 1..Cardinality(S) : \E f \in S : Cardinality(Before(S, f)) = i - 1
           /\ \A f \in S : Cardinality(Before(S, f)) + 1 \in 1..Cardinality(S)
<1> DEFINE n == Cardinality(S)
           r == [f \in S |-> Cardinality(Before(S, f)) + 1]
<1>1. IsFiniteSet(S) /\ n \in Nat
      BY FS_CardinalityType DEF OnePattern
<1>2. \A f \in S : Cardinality(Before(S, f)) \in Nat /\ Cardinality(Before(S, f)) < n
      BY BeforeGrows
<1>3. ASSUME NEW f \in S, NEW g \in S, Cardinality(Before(S, f)) = Cardinality(Before(S, g))
      PROVE  f = g
  <2>1. earlier(f, g) \/ earlier(g, f) \/ f = g
        BY DEF earlier, OnePattern
  <2>2. ~earlier(f, g) /\ ~earlier(g, f)
        BY <1>2, <1>3, BeforeGrows
  <2> QED BY <2>1, <2>2
<1>4. ASSUME NEW i \in 1..n, ~ \E f \in S : Cardinality(Before(S, f)) = i - 1
      PROVE  FALSE
  <2> DEFINE T == (1..n) \ {i}
  <2>1. IsFiniteSet(T) /\ Cardinality(T) = n - 1
    <3>1. IsFiniteSet(1..n) /\ Cardinality(1..n) = n
          BY <1>1, FS_Interval
    <3> QED BY <1>4, <3>1, FS_RemoveElement
  <2>2. r \in [S -> T]
    <3>1. ASSUME NEW f \in S PROVE r[f] \in T
          BY <1>1, <1>2, <1>4
    <3> QED BY <3>1
  <2>3. \A f, g \in S : r[f] = r[g] => f = g
        BY <1>2, <1>3
  <2>4. Cardinality(T) < Cardinality(S)
        BY <1>1, <2>1
  <2> HIDE DEF r, T
  <2>5. \E f, g \in S : f # g /\ r[f] = r[g]
        BY <1>1, <2>1, <2>2, <2>4, FS_PigeonHole
  <2> QED BY <2>3, <2>5
<1> QED BY <1>1, <1>2, <1>3, <1>4

(* Types. *)

Row == TaskStatus \cup {NoRow}
Scanned == {p \in Place : p.sprint = 0 => ~p.deep}
Entry == [task : TaskNo, place : Scanned, loc : Location \cup {"tasks"}]
Labels == {"glob", "parse", "merge", "sprints", "load", "loadSprints", "count", "orphans",
           "archive"}
Plan == [at : Labels, dryRun : BOOLEAN, spec : 1..10, found : Seq(Entry),
         tasks : [TaskNo -> Row], sprints : [SprintNo -> Location \cup {NoRow}],
         maxTaskSeq : Nat, parsed : SUBSET TaskNo, places : Seq(Location),
         orphans : SUBSET TaskNo, failed : BOOLEAN]

\* No two files have one name in one place.
OneName == \A f, g \in files : f.task = g.task /\ f.place = g.place => f = g

Tables ==
    /\ taskRows \in [TaskNo -> Row] /\ sprintRows \in [SprintNo -> Location \cup {NoRow}]
    /\ counter \in Nat
Project ==
    /\ files \in SUBSET TaskFile /\ IsFiniteSet(files) /\ OneName
    /\ folder \in [SprintNo -> Location] /\ registry \in Registries
Import ==
    /\ import = Rest \/ import \in Plan
    /\ import.at = "glob" => import.spec \in 1..9
    /\ events \in Nat

Shape == Tables /\ Project /\ Import /\ CounterCovers

\* A table of nine rows that runs through four names twice.
LEMMA TwiceThrough ==
    ASSUME NEW n, NEW s,
           s = [i \in 1..9 |-> IF i = 9 THEN [loc |-> "tasks", deep |-> FALSE]
                               ELSE [loc |-> n[1 + ((i - 1) % 4)], deep |-> i > 4]]
    PROVE  /\ Len(s) = 9 /\ s[9] = [loc |-> "tasks", deep |-> FALSE]
           /\ s[1] = [loc |-> n[1], deep |-> FALSE] /\ s[2] = [loc |-> n[2], deep |-> FALSE]
           /\ s[3] = [loc |-> n[3], deep |-> FALSE] /\ s[4] = [loc |-> n[4], deep |-> FALSE]
           /\ s[5] = [loc |-> n[1], deep |-> TRUE] /\ s[6] = [loc |-> n[2], deep |-> TRUE]
           /\ s[7] = [loc |-> n[3], deep |-> TRUE] /\ s[8] = [loc |-> n[4], deep |-> TRUE]
<1>1. /\ 1 + ((1 - 1) % 4) = 1 /\ 1 + ((2 - 1) % 4) = 2
      /\ 1 + ((3 - 1) % 4) = 3 /\ 1 + ((4 - 1) % 4) = 4
      /\ 1 + ((5 - 1) % 4) = 1 /\ 1 + ((6 - 1) % 4) = 2
      /\ 1 + ((7 - 1) % 4) = 3 /\ 1 + ((8 - 1) % 4) = 4
      OBVIOUS
<1>2. /\ (1 > 4) = FALSE /\ (2 > 4) = FALSE /\ (3 > 4) = FALSE /\ (4 > 4) = FALSE
      /\ (5 > 4) = TRUE /\ (6 > 4) = TRUE /\ (7 > 4) = TRUE /\ (8 > 4) = TRUE
      OBVIOUS
<1>3. Len(s) = 9 /\ s[9] = [loc |-> "tasks", deep |-> FALSE]
      OBVIOUS
<1>5. s[1] = [loc |-> n[1], deep |-> FALSE]
  <2>1. s[1] = [loc |-> n[1 + ((1 - 1) % 4)], deep |-> 1 > 4]
        OBVIOUS
  <2> QED BY <1>1, <1>2, <2>1
<1>6. s[2] = [loc |-> n[2], deep |-> FALSE]
  <2>1. s[2] = [loc |-> n[1 + ((2 - 1) % 4)], deep |-> 2 > 4]
        OBVIOUS
  <2> QED BY <1>1, <1>2, <2>1
<1>7. s[3] = [loc |-> n[3], deep |-> FALSE]
  <2>1. s[3] = [loc |-> n[1 + ((3 - 1) % 4)], deep |-> 3 > 4]
        OBVIOUS
  <2> QED BY <1>1, <1>2, <2>1
<1>8. s[4] = [loc |-> n[4], deep |-> FALSE]
  <2>1. s[4] = [loc |-> n[1 + ((4 - 1) % 4)], deep |-> 4 > 4]
        OBVIOUS
  <2> QED BY <1>1, <1>2, <2>1
<1>9. s[5] = [loc |-> n[1], deep |-> TRUE]
  <2>1. s[5] = [loc |-> n[1 + ((5 - 1) % 4)], deep |-> 5 > 4]
        OBVIOUS
  <2> QED BY <1>1, <1>2, <2>1
<1>10. s[6] = [loc |-> n[2], deep |-> TRUE]
  <2>1. s[6] = [loc |-> n[1 + ((6 - 1) % 4)], deep |-> 6 > 4]
        OBVIOUS
  <2> QED BY <1>1, <1>2, <2>1
<1>11. s[7] = [loc |-> n[3], deep |-> TRUE]
  <2>1. s[7] = [loc |-> n[1 + ((7 - 1) % 4)], deep |-> 7 > 4]
        OBVIOUS
  <2> QED BY <1>1, <1>2, <2>1
<1>12. s[8] = [loc |-> n[4], deep |-> TRUE]
  <2>1. s[8] = [loc |-> n[1 + ((8 - 1) % 4)], deep |-> 8 > 4]
        OBVIOUS
  <2> QED BY <1>1, <1>2, <2>1
<1> QED BY <1>3, <1>5, <1>6, <1>7, <1>8, <1>9, <1>10, <1>11, <1>12

LEMMA SpecsAre ==
    /\ Len(scanSpecs) = 9 /\ scanSpecs[9] = [loc |-> "tasks", deep |-> FALSE]
    /\ \A i \in 1..8 : scanSpecs[i].loc \in Location
    /\ \A l \in Location, d \in BOOLEAN : \E i \in 1..8 : scanSpecs[i] = [loc |-> l, deep |-> d]
<1> DEFINE names == << "completed", "active", "backlog", "superseded" >>
           s == scanSpecs
<1>1. /\ names[1] = "completed" /\ names[2] = "active" /\ names[3] = "backlog"
      /\ names[4] = "superseded"
      OBVIOUS
<1>2. scanSpecs = [i \in 1..9 |-> IF i = 9 THEN [loc |-> "tasks", deep |-> FALSE]
                        ELSE [loc |-> names[1 + ((i - 1) % 4)], deep |-> i > 4]]
      BY DEF scanSpecs
<1> HIDE DEF names
<1>3. /\ Len(s) = 9 /\ s[9] = [loc |-> "tasks", deep |-> FALSE]
      /\ s[1] = [loc |-> "completed", deep |-> FALSE] /\ s[2] = [loc |-> "active", deep |-> FALSE]
      /\ s[3] = [loc |-> "backlog", deep |-> FALSE] /\ s[4] = [loc |-> "superseded", deep |-> FALSE]
      /\ s[5] = [loc |-> "completed", deep |-> TRUE] /\ s[6] = [loc |-> "active", deep |-> TRUE]
      /\ s[7] = [loc |-> "backlog", deep |-> TRUE] /\ s[8] = [loc |-> "superseded", deep |-> TRUE]
  <2>1. /\ Len(s) = 9 /\ s[9] = [loc |-> "tasks", deep |-> FALSE]
        /\ s[1] = [loc |-> names[1], deep |-> FALSE] /\ s[2] = [loc |-> names[2], deep |-> FALSE]
        /\ s[3] = [loc |-> names[3], deep |-> FALSE] /\ s[4] = [loc |-> names[4], deep |-> FALSE]
        /\ s[5] = [loc |-> names[1], deep |-> TRUE] /\ s[6] = [loc |-> names[2], deep |-> TRUE]
        /\ s[7] = [loc |-> names[3], deep |-> TRUE] /\ s[8] = [loc |-> names[4], deep |-> TRUE]
        BY <1>2, TwiceThrough, ZenonT(60)
  <2> HIDE DEF s
  <2> QED BY <1>1, <2>1
<1>4. \A i \in 1..8 : i = 1 \/ i = 2 \/ i = 3 \/ i = 4 \/ i = 5 \/ i = 6 \/ i = 7 \/ i = 8
      OBVIOUS
<1>5. \A i \in 1..8 : s[i].loc \in Location
  <2>1. {"completed", "active", "backlog", "superseded"} \subseteq Location
        BY DEF Location
  <2> HIDE DEF s
  <2> QED BY <1>3, <1>4, <2>1
<1>6. ASSUME NEW l \in Location
      PROVE  /\ \E i \in 1..8 : s[i] = [loc |-> l, deep |-> FALSE]
             /\ \E i \in 1..8 : s[i] = [loc |-> l, deep |-> TRUE]
  <2>1. l = "completed" \/ l = "active" \/ l = "backlog" \/ l = "superseded"
        BY DEF Location
  <2>2. \A i \in {1, 2, 3, 4, 5, 6, 7, 8} : i \in 1..8
        OBVIOUS
  <2> HIDE DEF s
  <2>3. \E i \in 1..8 : s[i] = [loc |-> l, deep |-> FALSE]
        BY <1>3, <2>1, <2>2
  <2>4. \E i \in 1..8 : s[i] = [loc |-> l, deep |-> TRUE]
        BY <1>3, <2>1, <2>2
  <2> QED BY <2>3, <2>4
<1>7. \A l \in Location, d \in BOOLEAN : \E i \in 1..8 : s[i] = [loc |-> l, deep |-> d]
  <2>1. \A d \in BOOLEAN : d = TRUE \/ d = FALSE
        OBVIOUS
  <2> HIDE DEF s
  <2> QED BY <1>6, <2>1, ZenonT(60)
<1> QED BY <1>3, <1>5, <1>7

LEMMA Numbers ==
    ASSUME ProjectAssumption
    PROVE  /\ TaskNo \in SUBSET Nat /\ IsFiniteSet(TaskNo) /\ SprintNo \in SUBSET (Nat \ {0})
           /\ NoRow \notin TaskStatus /\ NoRow \notin Location
BY DEF ProjectAssumption

EntryOf(f) == [task |-> f.task, place |-> f.place, loc |-> location(f)]

\* Files of a pattern differ in Sprint or number.
LEMMA MatchesShape ==
    ASSUME ProjectAssumption, Project, NEW k \in 1..9
    PROVE  OnePattern(matches(scanSpecs[k]))
<1> DEFINE S == matches(scanSpecs[k])
<1>1. S \in SUBSET files
      BY DEF matches
<1>2. IsFiniteSet(S)
      BY <1>1, FS_Subset DEF Project
<1>3. ASSUME NEW f \in S
      PROVE  /\ f \in TaskFile /\ f.task \in Int /\ f.place.sprint \in Int
             /\ f.place = [sprint |-> f.place.sprint, deep |-> scanSpecs[k].deep]
  <2>1. f \in files /\ f.place.deep = scanSpecs[k].deep
        BY DEF matches
  <2>2. f \in TaskFile
        BY <2>1 DEF Project
  <2>3. f.place \in Place /\ f.task \in TaskNo
        BY <2>2 DEF TaskFile
  <2>3a. f.task \in Int
        BY <2>3, Numbers
  <2>4. /\ f.place = [sprint |-> f.place.sprint, deep |-> f.place.deep]
        /\ f.place.sprint \in Int
        BY <2>3, Numbers DEF Place
  <2> QED BY <2>1, <2>2, <2>3a, <2>4
<1>4. ASSUME NEW f \in S, NEW g \in S, f.task = g.task, f.place.sprint = g.place.sprint
      PROVE  f = g
  <2>1. f.place = g.place
        BY <1>3, <1>4
  <2> QED BY <1>1, <1>4, <2>1 DEF Project, OneName
<1> QED BY <1>2, <1>3, <1>4 DEF OnePattern

\* Glob answers with every file of the pattern and nothing else.
LEMMA GlobLists ==
    ASSUME ProjectAssumption, Project, NEW k \in 1..9
    PROVE  /\ globbed(scanSpecs[k]) \in Seq(Entry)
           /\ \A f \in matches(scanSpecs[k]) :
                 \E i \in 1..Len(globbed(scanSpecs[k])) : globbed(scanSpecs[k])[i] = EntryOf(f)
<1> DEFINE S == matches(scanSpecs[k])
           n == Cardinality(S)
           G == globbed(scanSpecs[k])
           pick(i) == CHOOSE f \in S : Cardinality(Before(S, f)) = i - 1
<1>1. OnePattern(S)
      BY MatchesShape
<1>2. /\ n \in Nat
      /\ \A f, g \in S : Cardinality(Before(S, f)) = Cardinality(Before(S, g)) => f = g
      /\ \A i \in 1..n : \E f \in S : Cardinality(Before(S, f)) = i - 1
      /\ \A f \in S : /\ Cardinality(Before(S, f)) + 1 \in 1..n
                        /\ Cardinality(Before(S, f)) \in Nat
  <2> HIDE DEF S
  <2> QED BY <1>1, PositionsFill, BeforeGrows
<1>3. G = [i \in 1..n |-> [task |-> pick(i).task, place |-> pick(i).place,
                           loc |-> scanSpecs[k].loc]]
      BY DEF globbed, Before
<1>4. ASSUME NEW i \in 1..n
      PROVE  pick(i) \in S /\ Cardinality(Before(S, pick(i))) = i - 1
      BY <1>2
<1>5. ASSUME NEW f \in S PROVE f \in files /\ EntryOf(f) \in Entry /\ location(f) = scanSpecs[k].loc
  <2>1. f \in files /\ location(f) = scanSpecs[k].loc /\ f.place.deep = scanSpecs[k].deep
        BY DEF matches
  <2>2. f.task \in TaskNo /\ f.place \in Place
        BY <2>1 DEF Project, TaskFile
  <2>3. CASE f.place.sprint = 0
    <3>1. location(f) = "tasks"
          BY <2>3 DEF location
    <3>2. k = 9
      <4>1. k \in 1..8 => location(f) \in Location
            BY <2>1, SpecsAre
      <4> QED BY <3>1, <4>1 DEF Location
    <3>3. ~f.place.deep
          BY <2>1, <3>2, SpecsAre
    <3> QED BY <2>1, <2>2, <3>1, <3>3 DEF EntryOf, Entry, Scanned
  <2>4. CASE f.place.sprint # 0
    <3>1. f.place.sprint \in SprintNo
          BY <2>2, <2>4 DEF Place
    <3>2. location(f) \in Location
          BY <2>4, <3>1 DEF location, Project
    <3> QED BY <2>1, <2>2, <2>4, <3>2 DEF EntryOf, Entry, Scanned
  <2> QED BY <2>3, <2>4
<1> HIDE DEF pick
<1>6. ASSUME NEW i \in 1..n PROVE G[i] = EntryOf(pick(i)) /\ G[i] \in Entry
      BY <1>3, <1>4, <1>5 DEF EntryOf
<1>7. G \in Seq(Entry) /\ Len(G) = n
  <2>1. G = [i \in 1..n |-> G[i]]
        BY <1>3
  <2>2. G \in [1..n -> Entry]
    <3> HIDE DEF G, S, n
    <3> QED BY <1>6, <2>1
  <2> HIDE DEF G, S, n
  <2> QED BY <1>2, <2>2
<1>8. ASSUME NEW f \in S PROVE \E i \in 1..Len(G) : G[i] = EntryOf(f)
  <2>1. Cardinality(Before(S, f)) + 1 \in 1..n /\ Cardinality(Before(S, f)) \in Int
        BY <1>2
  <2>2. pick(Cardinality(Before(S, f)) + 1) = f
        BY <1>2, <1>4, <2>1
  <2> QED BY <1>6, <1>7, <2>1, <2>2
<1> QED BY <1>7, <1>8

Seen == {f.task : f \in Readable}
History == IF registry = NoRegistry THEN {} ELSE registry.history
Alive == {t \in TaskNo : taskRows[t] \notin {NoRow, "archived", "superseded"}}
LastId == IF registry = NoRegistry THEN 0 ELSE registry.lastId

\* What an undisturbed import has in hand.
Listed(f) == \E i \in 1..Len(import.found) : import.found[i] = EntryOf(f)
Placed ==
    /\ ~import.failed
    /\ \A n \in SprintNo :
        \/ import.sprints[n] = folder[n]
        \/ /\ import.sprints[n] = NoRow
           /\ \E i \in 1..Len(import.places) : import.places[i] = folder[n]
Planned ==
    /\ import.parsed = Known
    /\ LastId <= import.maxTaskSeq /\ import.maxTaskSeq \in Known \cup {LastId}
Loaded == import.failed \/ \A t \in Known : taskRows[t] # NoRow
Rowed(n) == import.failed \/ sprintRows[n] = folder[n]

PlanFits ==
    /\ import.at = "glob" =>
        /\ Placed /\ \A t \in TaskNo : import.tasks[t] = NoRow
        /\ \A i \in 1..9 : i < import.spec => \A f \in matches(scanSpecs[i]) : Listed(f)
    /\ import.at = "parse" =>
        /\ Placed /\ \A f \in Readable : Listed(f) \/ import.tasks[f.task] # NoRow
        /\ \A t \in TaskNo : import.tasks[t] # NoRow => t \in Seen
    /\ import.at = "merge" =>
        Placed /\ \A t \in TaskNo : import.tasks[t] # NoRow <=> t \in Seen
    /\ import.at = "sprints" =>
        Placed /\ Planned /\ \A t \in TaskNo : import.tasks[t] # NoRow <=> t \in Known
    /\ import.at = "load" =>
        /\ Planned /\ \A n \in SprintNo : import.sprints[n] = folder[n]
        /\ \A t \in TaskNo : import.tasks[t] # NoRow => t \in Known
        /\ \A t \in Known : import.failed \/ taskRows[t] # NoRow \/ import.tasks[t] # NoRow
    /\ import.at = "loadSprints" =>
        /\ Planned /\ Loaded
        /\ \A n \in SprintNo : import.sprints[n] \in {NoRow, folder[n]}
        /\ \A n \in SprintNo : import.sprints[n] = NoRow => Rowed(n)
    /\ import.at \in {"count", "orphans", "archive"} =>
        Planned /\ Loaded /\ \A n \in SprintNo : Rowed(n)
    /\ import.at \in {"orphans", "archive"} => import.failed \/ LastId <= counter
    /\ import.at = "archive" => import.orphans = Alive \ Known

MigInv == /\ Shape /\ MigratedComplete
          /\ settled => undisturbed
          /\ undisturbed => PlanFits

LEMMA KnownIs ==
    ASSUME ProjectAssumption, Project
    PROVE  /\ Known = Seen \cup History /\ Known \in SUBSET TaskNo /\ Known \in SUBSET Nat
           /\ Seen \in SUBSET TaskNo /\ History \in SUBSET TaskNo /\ LastId \in Nat
           /\ IsFiniteSet(Known)
<1>1. registry # NoRegistry => registry.lastId \in Nat /\ registry.history \in SUBSET TaskNo
      BY DEF ProjectAssumption, Project
<1>2. History \in SUBSET TaskNo /\ LastId \in Nat
      BY <1>1 DEF History, LastId
<1>3. Seen \in SUBSET TaskNo
      BY DEF Seen, Readable, Project, TaskFile
<1>4. Known = Seen \cup History
      BY DEF Known, Seen, History
<1> QED BY <1>2, <1>3, <1>4, Numbers, FS_Subset

\* While nothing but the import runs, the project stays as it is.
LEMMA SameProject ==
    ASSUME UNCHANGED <<files, folder, registry>>
    PROVE  /\ Known' = Known /\ Seen' = Seen /\ LastId' = LastId /\ Readable' = Readable
           /\ \A f : location(f)' = location(f) /\ EntryOf(f)' = EntryOf(f)
           /\ \A i : matches(scanSpecs[i])' = matches(scanSpecs[i])
           /\ (Project => Project')
BY DEF Known, Seen, LastId, Readable, location, EntryOf, matches, scanSpecs, Project, OneName

\* Every file an import can read is one of a pattern.
LEMMA ReadableMatches ==
    ASSUME Project, NEW f \in Readable
    PROVE  \E i \in 1..9 : f \in matches(scanSpecs[i])
<1>1. f \in files /\ f \in TaskFile /\ (f.place.sprint = 0 => ~f.place.deep)
      BY DEF Readable, Project
<1>2. f.place \in Place
      BY <1>1 DEF TaskFile
<1>3. CASE f.place.sprint = 0
  <2>1. f.place.deep = FALSE
        BY <1>1, <1>2, <1>3 DEF Place
  <2>4. scanSpecs[9].loc = "tasks" /\ scanSpecs[9].deep = FALSE
        BY SpecsAre
  <2>5. location(f) = "tasks"
        BY <1>3 DEF location
  <2>2. f \in matches(scanSpecs[9])
        BY <1>1, <2>1, <2>4, <2>5 DEF matches
  <2>3. 9 \in 1..9
        OBVIOUS
  <2> QED BY <2>2, <2>3
<1>4. CASE f.place.sprint # 0
  <2>1. f.place.sprint \in SprintNo /\ f.place.deep \in BOOLEAN
        BY <1>2, <1>4 DEF Place
  <2>2. location(f) \in Location
        BY <1>4, <2>1 DEF location, Project
  <2>3. PICK i \in 1..8 : scanSpecs[i] = [loc |-> location(f), deep |-> f.place.deep]
        BY <2>1, <2>2, SpecsAre
  <2> QED BY <1>1, <2>3 DEF matches
<1> QED BY <1>3, <1>4

-----------------------------------------------------------------------------
LEMMA InitMig ==
    ASSUME ProjectAssumption, Init
    PROVE  MigInv
<1> DEFINE S == {0} \cup {t \in TaskNo : taskRows[t] # NoRow}
<1>1. Tables /\ Project /\ Import
  <2>1. S \in SUBSET Nat /\ IsFiniteSet(S) /\ S # {}
    <3> DEFINE U == {t \in TaskNo : taskRows[t] # NoRow}
    <3>1. U \in SUBSET TaskNo
          OBVIOUS
    <3> HIDE DEF U
    <3>2. IsFiniteSet(U)
          BY <3>1, Numbers, FS_Subset
    <3>3. IsFiniteSet(U \cup {0})
          BY <3>2, FS_AddElement
    <3>4. S = U \cup {0}
          BY DEF U
    <3> QED BY <3>1, <3>3, <3>4, Numbers
  <2>2. counter = Max(S)
        BY DEF Init
  <2> HIDE DEF S
  <2>3. counter \in Nat
        BY <2>1, <2>2, MaxIsLargest
  <2>4. Tables
        BY <2>3 DEF Tables, Init, ProjectAssumption, Row
  <2>5. Project
        BY DEF Project, Init, ProjectAssumption, OneName
  <2>6. Import
        BY DEF Import, Init, Rest
  <2> QED BY <2>4, <2>5, <2>6
<1>2. CounterCovers
  <2>1. S \in SUBSET Nat /\ IsFiniteSet(S) /\ S # {}
    <3> DEFINE U == {t \in TaskNo : taskRows[t] # NoRow}
    <3>1. U \in SUBSET TaskNo
          OBVIOUS
    <3> HIDE DEF U
    <3>2. IsFiniteSet(U)
          BY <3>1, Numbers, FS_Subset
    <3>3. IsFiniteSet(U \cup {0})
          BY <3>2, FS_AddElement
    <3>4. S = U \cup {0}
          BY DEF U
    <3> QED BY <3>1, <3>3, <3>4, Numbers
  <2>2. \A t \in TaskNo : taskRows[t] # NoRow => t \in S
        OBVIOUS
  <2>3. counter = Max(S)
        BY DEF Init
  <2> HIDE DEF S
  <2> QED BY <2>1, <2>2, <2>3, MaxIsLargest DEF CounterCovers
<1>3. ~settled /\ import.at = "rest" /\ undisturbed
      BY DEF Init, Rest
<1> QED BY <1>1, <1>2, <1>3 DEF MigInv, Shape, MigratedComplete, PlanFits

LEMMA StartShape ==
    ASSUME ProjectAssumption, MigInv, Start
    PROVE  MigInv'
<1>1. PICK d \in BOOLEAN :
        import' = [at |-> "glob", dryRun |-> d, spec |-> 1, found |-> <<>>,
                   tasks |-> [t \in TaskNo |-> NoRow],
                   sprints |-> [n \in SprintNo |-> NoRow],
                   maxTaskSeq |-> 0, parsed |-> {},
                   places |-> << "active", "backlog", "completed", "superseded" >>,
                   orphans |-> {}, failed |-> FALSE]
      BY DEF Start
<1>2. UNCHANGED <<files, folder, registry, taskRows, sprintRows, counter, events, settled>>
      BY DEF Start
<1> DEFINE names == << "active", "backlog", "completed", "superseded" >>
<1>3. /\ names \in Seq(Location) /\ Len(names) = 4
      /\ \A l \in Location : \E i \in 1..4 : names[i] = l
      BY DEF Location
<1> HIDE DEF names
<1>4. Import'
  <2>1. import'.at = "glob" /\ import'.spec = 1 /\ events' \in Nat
        BY <1>1, <1>2 DEF MigInv, Shape, Import
  <2>2. import' \in Plan
    <3>1. /\ [t \in TaskNo |-> NoRow] \in [TaskNo -> Row]
          /\ [n \in SprintNo |-> NoRow] \in [SprintNo -> Location \cup {NoRow}]
          /\ <<>> \in Seq(Entry) /\ names \in Seq(Location) /\ {} \in SUBSET TaskNo
          /\ 1 \in 1..10 /\ 0 \in Nat /\ FALSE \in BOOLEAN /\ "glob" \in Labels
          BY <1>3 DEF Row, Labels
    <3> QED BY <1>1, <3>1 DEF Plan, names
  <2> QED BY <2>1, <2>2 DEF Import
<1>5. Placed' /\ \A t \in TaskNo : import'.tasks[t] = NoRow
  <2>1. /\ import'.places = names /\ import'.failed = FALSE
        /\ \A n \in SprintNo : import'.sprints[n] = NoRow
        /\ \A t \in TaskNo : import'.tasks[t] = NoRow
        BY <1>1 DEF names
  <2>2. \A n \in SprintNo : folder[n] \in Location
        BY DEF MigInv, Shape, Project
  <2> QED BY <1>2, <1>3, <2>1, <2>2 DEF Placed
<1>6. PlanFits'
      BY <1>1, <1>5 DEF PlanFits
<1>7. Shape' /\ MigratedComplete'
      BY <1>2, <1>4, SameProject DEF MigInv, Shape, Tables, CounterCovers, MigratedComplete
<1>8. undisturbed'
      BY DEF Start
<1> QED BY <1>6, <1>7, <1>8 DEF MigInv

\* A step of the import that leaves the rows and the project alone keeps all but
\* what it has in hand itself.
Quietly == UNCHANGED <<files, folder, registry, taskRows, sprintRows, counter, events,
                       undisturbed, settled>>

LEMMA QuietlyKeeps ==
    ASSUME ProjectAssumption, MigInv, Quietly, Import', undisturbed => PlanFits'
    PROVE  MigInv'
BY SameProject DEF Quietly, MigInv, Shape, Tables, CounterCovers, MigratedComplete

Holds(s, e) == \E i \in 1..Len(s) : s[i] = e

LEMMA ConcatHolds ==
    ASSUME NEW S, NEW s \in Seq(S), NEW t \in Seq(S)
    PROVE  /\ s \o t \in Seq(S) /\ Len(s) \in Nat /\ Len(s \o t) \in Nat
           /\ \A e : Holds(s, e) \/ Holds(t, e) => Holds(s \o t, e)
<1>1. s \o t \in Seq(S) /\ Len(s \o t) = Len(s) + Len(t) /\ Len(s) \in Nat /\ Len(t) \in Nat
      OBVIOUS
<1>2. ASSUME NEW i \in 1..Len(s)
      PROVE  i \in 1..Len(s \o t) /\ (s \o t)[i] = s[i]
      BY <1>1
<1>3. ASSUME NEW i \in 1..Len(t)
      PROVE  Len(s) + i \in 1..Len(s \o t) /\ (s \o t)[Len(s) + i] = t[i]
      BY <1>1
<1>4. \A e : Holds(s, e) \/ Holds(t, e) => Holds(s \o t, e)
      BY <1>2, <1>3 DEF Holds
<1> QED BY <1>1, <1>4

LEMMA TailHolds ==
    ASSUME NEW S, NEW s \in Seq(S), s # <<>>
    PROVE  /\ Tail(s) \in Seq(S) /\ Head(s) \in S
           /\ \A e : (\E i \in 1..Len(s) : s[i] = e) =>
                e = Head(s) \/ \E i \in 1..Len(Tail(s)) : Tail(s)[i] = e
<1>1. Tail(s) \in Seq(S) /\ Len(Tail(s)) = Len(s) - 1 /\ Len(s) \in Nat /\ Head(s) = s[1] /\ Len(s) # 0
      OBVIOUS
<1>2. ASSUME NEW i \in 1..Len(s), i # 1
      PROVE  i - 1 \in 1..Len(Tail(s)) /\ Tail(s)[i - 1] = s[i]
  <2>1. i \in Int /\ i - 1 \in 1..(Len(s) - 1) /\ (i - 1) + 1 = i
        BY <1>1, <1>2
  <2>2. \A j \in 1..(Len(s) - 1) : Tail(s)[j] = s[j + 1]
        BY <1>1
  <2> QED BY <1>1, <2>1, <2>2
<1>3. Head(s) \in S
      BY <1>1
<1> QED BY <1>1, <1>2, <1>3

LEMMA GlobKeeps ==
    ASSUME ProjectAssumption, MigInv, Glob
    PROVE  MigInv'
<1> DEFINE k == import.spec
           new == globbed(scanSpecs[k])
<1>1. import \in Plan /\ k \in 1..9 /\ import.at = "glob" /\ Project /\ Quietly
      BY DEF MigInv, Shape, Import, Glob, Rest, Quietly
<1>2. import' = [import EXCEPT !.found = import.found \o new, !.spec = k + 1,
                               !.at = IF k = 9 THEN "parse" ELSE "glob"]
      BY SpecsAre DEF Glob
<1>3. /\ new \in Seq(Entry)
      /\ \A f \in matches(scanSpecs[k]) : \E i \in 1..Len(new) : new[i] = EntryOf(f)
      BY <1>1, GlobLists
<1> HIDE DEF new
<1>4. import.found \in Seq(Entry)
      BY <1>1 DEF Plan
<1>5. /\ import'.found = import.found \o new /\ import'.spec = k + 1
      /\ import'.at = (IF k = 9 THEN "parse" ELSE "glob")
      /\ import'.tasks = import.tasks /\ import'.sprints = import.sprints
      /\ import'.places = import.places /\ import'.failed = import.failed
  <2> DEFINE a == import.found \o new
             b == k + 1
             c == IF k = 9 THEN "parse" ELSE "glob"
  <2>1. import \in Plan /\ import' = [import EXCEPT !.found = a, !.spec = b, !.at = c]
        BY <1>1, <1>2
  <2> HIDE DEF a, b, c
  <2>2. /\ import'.found = a /\ import'.spec = b /\ import'.at = c
        /\ import'.tasks = import.tasks /\ import'.sprints = import.sprints
        /\ import'.places = import.places /\ import'.failed = import.failed
        BY <2>1 DEF Plan
  <2> QED BY <2>2 DEF a, b, c
<1>6. Import'
  <2>1. import' \in Plan
    <3>1. import.found \o new \in Seq(Entry) /\ k + 1 \in 1..10
          /\ (IF k = 9 THEN "parse" ELSE "glob") \in Labels
          BY <1>1, <1>3, <1>4, ConcatHolds DEF Labels
    <3> QED BY <1>1, <1>2, <3>1 DEF Plan
  <2> QED BY <1>1, <1>5, <2>1 DEF Import, Quietly, MigInv, Shape
<1>7. ASSUME undisturbed
      PROVE  PlanFits'
  <2>1. /\ Placed /\ \A t \in TaskNo : import.tasks[t] = NoRow
        /\ \A i \in 1..9 : i < k => \A f \in matches(scanSpecs[i]) : Listed(f)
        BY <1>1, <1>7 DEF MigInv, PlanFits
  <2>2. Placed'
        BY <1>1, <1>5, <2>1 DEF Placed, Quietly
  <2>8. \A f : EntryOf(f)' = EntryOf(f)
        BY <1>1, SameProject DEF Quietly
  <2>9. \A e : (\/ \E i \in 1..Len(import.found) : import.found[i] = e
                \/ \E i \in 1..Len(new) : new[i] = e)
               => \E i \in 1..Len(import'.found) : import'.found[i] = e
    <3> DEFINE old == import.found
    <3>1. old \in Seq(Entry) /\ new \in Seq(Entry) /\ import'.found = old \o new
          BY <1>3, <1>4, <1>5
    <3> HIDE DEF old
    <3>2. \A e : Holds(old, e) \/ Holds(new, e) => Holds(old \o new, e)
          BY <3>1, ConcatHolds
    <3>3. \A e : (\/ \E i \in 1..Len(old) : old[i] = e
                  \/ \E i \in 1..Len(new) : new[i] = e)
                 => \E i \in 1..Len(import'.found) : import'.found[i] = e
          BY <3>1, <3>2 DEF Holds
    <3> QED BY <3>3 DEF old
  <2>3. \A f : Listed(f) => Listed(f)'
        BY <2>8, <2>9 DEF Listed
  <2>4. ASSUME NEW f \in matches(scanSpecs[k]) PROVE Listed(f)'
    <3>1. \E i \in 1..Len(new) : new[i] = EntryOf(f)
          BY <1>3
    <3>2. \E i \in 1..Len(import'.found) : import'.found[i] = EntryOf(f)
          BY <2>9, <3>1
    <3> QED BY <2>8, <3>2 DEF Listed
  <2>5. \A i \in 1..9 : i < k + 1 => \A f \in matches(scanSpecs[i]) : Listed(f)'
        BY <1>1, <2>1, <2>3, <2>4
  <2>6. CASE k # 9
    <3>1. import'.at = "glob"
          BY <1>5, <2>6
    <3>2. \A i \in 1..9 : i < import'.spec => \A f \in matches(scanSpecs[i])' : Listed(f)'
          BY <1>1, <1>5, <2>5, SameProject DEF Quietly
    <3> QED BY <1>5, <2>1, <2>2, <3>1, <3>2 DEF PlanFits
  <2>7. CASE k = 9
    <3>1. import'.at = "parse"
          BY <1>5, <2>7
    <3>2. ASSUME NEW f \in Readable PROVE Listed(f)'
      <4>1. PICK i \in 1..9 : f \in matches(scanSpecs[i])
            BY <1>1, ReadableMatches
      <4>2. i < k + 1
            BY <2>7
      <4> QED BY <2>5, <4>1, <4>2
    <3>3. \A f \in Readable' : Listed(f)'
          BY <1>1, <3>2, SameProject DEF Quietly
    <3> QED BY <1>5, <2>1, <2>2, <3>1, <3>3 DEF PlanFits
  <2> QED BY <2>6, <2>7
<1> QED BY <1>1, <1>6, <1>7, QuietlyKeeps

LEMMA ParseKeeps ==
    ASSUME ProjectAssumption, MigInv, Parse
    PROVE  MigInv'
<1>1. import \in Plan /\ import.at = "parse" /\ Project /\ Quietly /\ events \in Nat
      BY DEF MigInv, Shape, Import, Parse, Rest, Quietly
<1>2. import.found \in Seq(Entry) /\ import.tasks \in [TaskNo -> Row]
      BY <1>1 DEF Plan
<1>3. ASSUME undisturbed
      PROVE  /\ Placed /\ \A f \in Readable : Listed(f) \/ import.tasks[f.task] # NoRow
             /\ \A t \in TaskNo : import.tasks[t] # NoRow => t \in Seen
      BY <1>1, <1>3 DEF MigInv, PlanFits
<1>4. CASE import.found = <<>>
  <2>1. import' = [import EXCEPT !.at = "merge"]
        BY <1>4 DEF Parse, goto
  <2>2. /\ import' \in Plan /\ import'.at = "merge" /\ import'.tasks = import.tasks
        /\ import'.sprints = import.sprints /\ import'.places = import.places
        /\ import'.failed = import.failed
        BY <1>1, <2>1 DEF Plan, Labels
  <2>3. Import'
        BY <1>1, <2>2 DEF Import, Quietly
  <2>4. ASSUME undisturbed PROVE PlanFits'
    <3>1. \A f \in Readable : ~Listed(f)
          BY <1>4 DEF Listed
    <3>2. \A t \in TaskNo : import.tasks[t] # NoRow <=> t \in Seen
          BY <1>3, <2>4, <3>1 DEF Seen
    <3>3. Placed'
          BY <1>1, <1>3, <2>2, <2>4 DEF Placed, Quietly
    <3> QED BY <1>1, <2>2, <3>2, <3>3, SameProject DEF PlanFits, Quietly
  <2> QED BY <1>1, <2>3, <2>4, QuietlyKeeps
<1>5. CASE import.found # <<>>
  <2> DEFINE e == Head(import.found)
             row == IF at(e) = {} THEN import.tasks[e.task]
                    ELSE IF e.loc = "superseded" THEN "superseded"
                    ELSE (CHOOSE f \in at(e) : TRUE).status
  <2>1. import' = [import EXCEPT !.found = Tail(import.found), !.tasks[e.task] = row]
        BY <1>5 DEF Parse
  <2>2. e \in Entry /\ Tail(import.found) \in Seq(Entry)
        BY <1>2, <1>5, TailHolds
  <2>3. e.task \in TaskNo /\ e.place \in Scanned
        BY <2>2 DEF Entry
  <2>4. at(e) # {} => /\ row \in TaskStatus
                      /\ \E f \in Readable : f.task = e.task
    <3>1. \A f \in at(e) : f \in files /\ f \in TaskFile /\ f.task = e.task /\ f.place = e.place /\ f.ok
          BY <1>1 DEF at, Project
    <3>2. \A f \in at(e) : f.status \in TaskStatus
          BY <3>1 DEF TaskFile
    <3>3. "superseded" \in TaskStatus
          BY DEF TaskStatus
    <3>4. \A f \in at(e) : f \in Readable
          BY <2>3, <3>1 DEF Readable, Scanned
    <3> QED BY <3>1, <3>2, <3>3, <3>4
  <2>5. row \in Row /\ (at(e) # {} => row # NoRow)
        BY <1>2, <2>3, <2>4, Numbers DEF Row
  <2>6. /\ import'.found = Tail(import.found)
        /\ import'.tasks = [import.tasks EXCEPT ![e.task] = row]
        /\ import'.at = "parse" /\ import'.failed = import.failed
        /\ import'.sprints = import.sprints /\ import'.places = import.places
    <3> HIDE DEF e, row
    <3> QED BY <1>1, <2>1 DEF Plan
  <2>7. import' \in Plan
    <3> HIDE DEF e, row
    <3>1. [import.tasks EXCEPT ![e.task] = row] \in [TaskNo -> Row]
          BY <1>2, <2>3, <2>5
    <3>2. import' = [import EXCEPT !.found = Tail(import.found),
                                   !.tasks = [import.tasks EXCEPT ![e.task] = row]]
          BY <1>1, <2>1 DEF Plan
    <3> QED BY <1>1, <2>2, <3>1, <3>2 DEF Plan
  <2>8. Import'
        BY <1>1, <2>6, <2>7 DEF Import, Quietly
  <2>9. \A f \in Readable : EntryOf(f) = e => at(e) # {} /\ e.task = f.task
        BY DEF at, EntryOf, Readable
  <2>10. \A t \in TaskNo : import'.tasks[t] = IF t = e.task THEN row ELSE import.tasks[t]
    <3> HIDE DEF e, row
    <3> QED BY <1>2, <2>6
  <2>11. at(e) = {} => row = import.tasks[e.task]
        OBVIOUS
  <2> HIDE DEF row
  <2>12. ASSUME undisturbed PROVE PlanFits'
    <3>1. ASSUME NEW f \in Readable
          PROVE  Listed(f)' \/ import'.tasks[f.task] # NoRow
      <4>0. f.task \in TaskNo
            BY <1>1 DEF Readable, Project, TaskFile
      <4>1. CASE Listed(f) /\ EntryOf(f) # e
        <5>1. \E i \in 1..Len(Tail(import.found)) : Tail(import.found)[i] = EntryOf(f)
              BY <1>2, <1>5, <4>1, TailHolds DEF Listed
        <5> QED BY <1>1, <2>6, <5>1, SameProject DEF Listed, Quietly
      <4>2. CASE EntryOf(f) = e
            BY <2>5, <2>9, <2>10, <4>0, <4>2
      <4>3. CASE import.tasks[f.task] # NoRow
            BY <2>5, <2>10, <2>11, <4>0, <4>3
      <4> QED BY <1>3, <2>12, <4>1, <4>2, <4>3
    <3>2. ASSUME NEW t \in TaskNo, import'.tasks[t] # NoRow PROVE t \in Seen
          BY <1>3, <2>4, <2>10, <2>11, <2>12, <3>2 DEF Seen
    <3>3. Placed'
          BY <1>1, <1>3, <2>6, <2>12 DEF Placed, Quietly
    <3> QED BY <1>1, <2>6, <3>1, <3>2, <3>3, SameProject DEF PlanFits, Quietly
  <2> QED BY <1>1, <2>8, <2>12, QuietlyKeeps
<1> QED BY <1>4, <1>5

LEMMA MergeKeeps ==
    ASSUME ProjectAssumption, MigInv, Merge
    PROVE  MigInv'
<1> DEFINE tasks == [t \in TaskNo |->
                        IF import.tasks[t] = NoRow /\ t \in History THEN "archived"
                        ELSE import.tasks[t]]
           parsed == {t \in TaskNo : tasks[t] # NoRow}
           top == Max({LastId} \cup parsed)
<1>1. import \in Plan /\ import.at = "merge" /\ Project /\ Quietly /\ events \in Nat
      BY DEF MigInv, Shape, Import, Merge, Rest, Quietly
<1>2. import.tasks \in [TaskNo -> Row]
      BY <1>1 DEF Plan
<1>3. import' = [import EXCEPT !.at = "sprints", !.tasks = tasks, !.parsed = parsed,
                               !.maxTaskSeq = top]
      BY DEF Merge, History, LastId
<1>4. "archived" \in TaskStatus /\ "archived" # NoRow
      BY Numbers DEF TaskStatus
<1>5. tasks \in [TaskNo -> Row] /\ parsed \in SUBSET TaskNo
  <2>1. \A t \in TaskNo : (IF import.tasks[t] = NoRow /\ t \in History THEN "archived"
                           ELSE import.tasks[t]) \in Row
        BY <1>2, <1>4 DEF Row
  <2> QED BY <2>1
<1>6. \A t \in TaskNo : tasks[t] # NoRow <=> import.tasks[t] # NoRow \/ t \in History
      BY <1>4
<1>7. top \in {LastId} \cup parsed /\ top \in Nat /\ LastId <= top
  <2> DEFINE S == {LastId} \cup parsed
  <2>0. parsed \in SUBSET TaskNo /\ LastId \in Nat
        BY <1>1, <1>5, KnownIs
  <2> HIDE DEF parsed
  <2>1. IsFiniteSet(parsed)
        BY <2>0, Numbers, FS_Subset
  <2>2. IsFiniteSet(parsed \cup {LastId})
        BY <2>1, FS_AddElement
  <2>3. S = parsed \cup {LastId}
        OBVIOUS
  <2>4. S \in SUBSET Nat /\ IsFiniteSet(S) /\ S # {} /\ LastId \in S
        BY <2>0, <2>2, <2>3, Numbers
  <2>5. top = Max(S)
        OBVIOUS
  <2> HIDE DEF S, top
  <2>6. top \in S /\ top \in Nat /\ LastId <= top
        BY <2>4, <2>5, MaxIsLargest
  <2> QED BY <2>6 DEF S
<1> HIDE DEF tasks, parsed, top
<1>8. /\ import'.at = "sprints" /\ import'.tasks = tasks /\ import'.parsed = parsed
      /\ import'.maxTaskSeq = top /\ import'.failed = import.failed
      /\ import'.sprints = import.sprints /\ import'.places = import.places
      BY <1>1, <1>3 DEF Plan
<1>9. Import'
  <2>1. import' \in Plan
        BY <1>1, <1>3, <1>5, <1>7 DEF Plan, Labels
  <2> QED BY <1>1, <1>8, <2>1 DEF Import, Quietly
<1>10. ASSUME undisturbed PROVE PlanFits'
  <2>1. Placed /\ \A t \in TaskNo : import.tasks[t] # NoRow <=> t \in Seen
        BY <1>1, <1>10 DEF MigInv, PlanFits
  <2>2. \A t \in TaskNo : tasks[t] # NoRow <=> t \in Known
        BY <1>1, <1>6, <2>1, KnownIs
  <2>3. parsed = Known
        BY <1>1, <2>2, KnownIs DEF parsed
  <2>4. Placed'
        BY <1>1, <1>8, <2>1 DEF Placed, Quietly
  <2>5. Planned'
        BY <1>1, <1>7, <1>8, <2>3, SameProject DEF Planned, Quietly
  <2> QED BY <1>1, <1>8, <2>2, <2>4, <2>5, SameProject DEF PlanFits, Quietly
<1> QED BY <1>1, <1>9, <1>10, QuietlyKeeps

LEMMA ScanSprintsKeeps ==
    ASSUME ProjectAssumption, MigInv, ScanSprints
    PROVE  MigInv'
<1>1. import \in Plan /\ import.at = "sprints" /\ Project /\ Quietly /\ events \in Nat
      BY DEF MigInv, Shape, Import, ScanSprints, Rest, Quietly
<1>2. import.places \in Seq(Location) /\ import.sprints \in [SprintNo -> Location \cup {NoRow}]
      BY <1>1 DEF Plan
<1>3. undisturbed => /\ Placed /\ Planned
                     /\ \A t \in TaskNo : import.tasks[t] # NoRow <=> t \in Known
      BY <1>1 DEF MigInv, PlanFits
<1>4. CASE import.places # <<>>
  <2> DEFINE l == Head(import.places)
             sprints == [n \in SprintNo |-> IF folder[n] = l THEN folder[n] ELSE import.sprints[n]]
  <2>1. import' = [import EXCEPT !.places = Tail(import.places), !.sprints = sprints]
    <3>1. import' = [import EXCEPT !.places = Tail(@),
                !.sprints = [n \in SprintNo |->
                    IF folder[n] = Head(import.places) THEN folder[n] ELSE @[n]]]
          BY <1>4 DEF ScanSprints
    <3> QED BY <3>1
  <2>2. sprints \in [SprintNo -> Location \cup {NoRow}]
        BY <1>1, <1>2 DEF Project
  <2>3. Tail(import.places) \in Seq(Location)
        BY <1>2, <1>4, TailHolds
  <2>4. \A n \in SprintNo : sprints[n] = IF folder[n] = l THEN folder[n] ELSE import.sprints[n]
        OBVIOUS
  <2> HIDE DEF sprints, l
  <2>5. /\ import'.places = Tail(import.places) /\ import'.sprints = sprints
        /\ import'.at = "sprints" /\ import'.tasks = import.tasks /\ import'.failed = import.failed
        /\ import'.parsed = import.parsed /\ import'.maxTaskSeq = import.maxTaskSeq
        BY <1>1, <2>1 DEF Plan
  <2>6. Import'
    <3>1. import' \in Plan
          BY <1>1, <2>1, <2>2, <2>3 DEF Plan
    <3> QED BY <1>1, <2>5, <3>1 DEF Import, Quietly
  <2>7. ASSUME undisturbed PROVE PlanFits'
    <3>1. ASSUME NEW n \in SprintNo
          PROVE  \/ import'.sprints[n] = folder[n]
                 \/ /\ import'.sprints[n] = NoRow
                    /\ \E i \in 1..Len(import'.places) : import'.places[i] = folder[n]
      <4>1. CASE folder[n] = l
            BY <2>4, <2>5, <4>1
      <4>2. CASE folder[n] # l /\ import.sprints[n] = folder[n]
            BY <2>4, <2>5, <4>2
      <4>3. CASE /\ folder[n] # l /\ import.sprints[n] = NoRow
                 /\ \E i \in 1..Len(import.places) : import.places[i] = folder[n]
        <5>1. \E i \in 1..Len(Tail(import.places)) : Tail(import.places)[i] = folder[n]
              BY <1>2, <1>4, <4>3, TailHolds DEF l
        <5> QED BY <2>4, <2>5, <4>3, <5>1
      <4> QED BY <1>3, <2>7, <4>1, <4>2, <4>3 DEF Placed
    <3>2. Placed'
          BY <1>1, <1>3, <2>5, <2>7, <3>1 DEF Placed, Quietly
    <3>3. Planned'
          BY <1>1, <1>3, <2>5, <2>7, SameProject DEF Planned, Quietly
    <3> QED BY <1>1, <1>3, <2>5, <2>7, <3>2, <3>3, SameProject DEF PlanFits, Quietly
  <2> QED BY <1>1, <2>6, <2>7, QuietlyKeeps
<1>5. CASE import.places = <<>> /\ ~import.dryRun
  <2>1. import' = [import EXCEPT !.at = "load"]
        BY <1>5 DEF ScanSprints, goto
  <2>2. /\ import' \in Plan /\ import'.at = "load" /\ import'.tasks = import.tasks
        /\ import'.sprints = import.sprints /\ import'.failed = import.failed
        /\ import'.parsed = import.parsed /\ import'.maxTaskSeq = import.maxTaskSeq
        BY <1>1, <2>1 DEF Plan, Labels
  <2>3. Import'
        BY <1>1, <2>2 DEF Import, Quietly
  <2>4. ASSUME undisturbed PROVE PlanFits'
    <3>1. \A n \in SprintNo : import.sprints[n] = folder[n]
          BY <1>3, <1>5, <2>4 DEF Placed
    <3>2. Planned'
          BY <1>1, <1>3, <2>2, <2>4, SameProject DEF Planned, Quietly
    <3>3. Known \in SUBSET TaskNo
          BY <1>1, KnownIs
    <3> QED BY <1>1, <1>3, <2>2, <2>4, <3>1, <3>2, <3>3, SameProject DEF PlanFits, Quietly
  <2> QED BY <1>1, <2>3, <2>4, QuietlyKeeps
<1>6. CASE import.places = <<>> /\ import.dryRun
  <2>1. import' = Rest /\ import'.at = "rest"
        BY <1>6 DEF ScanSprints, Rest
  <2>2. Import' /\ PlanFits'
        BY <1>1, <2>1 DEF Import, PlanFits, Quietly
  <2> QED BY <1>1, <2>2, QuietlyKeeps
<1>7. import.dryRun \in BOOLEAN
      BY <1>1 DEF Plan
<1> QED BY <1>4, <1>5, <1>6, <1>7

LEMMA LoadTaskFailsKeeps ==
    ASSUME ProjectAssumption, MigInv, LoadTaskFails
    PROVE  MigInv'
<1>1. import \in Plan /\ import.at = "load" /\ Project /\ Quietly /\ events \in Nat
      BY DEF MigInv, Shape, Import, LoadTaskFails, Rest, Quietly
<1>2. PICK t \in TaskNo : import' = [import EXCEPT !.tasks[t] = NoRow, !.failed = TRUE]
      BY DEF LoadTaskFails
<1> DEFINE tasks == [import.tasks EXCEPT ![t] = NoRow]
<1>3. import.tasks \in [TaskNo -> Row]
      BY <1>1 DEF Plan
<1>4. tasks \in [TaskNo -> Row] /\ \A u \in TaskNo : tasks[u] # NoRow => import.tasks[u] # NoRow
      BY <1>3 DEF Row
<1>5. import' = [import EXCEPT !.tasks = tasks, !.failed = TRUE]
      BY <1>1, <1>2 DEF Plan
<1> HIDE DEF tasks
<1>6. /\ import' \in Plan /\ import'.at = "load" /\ import'.tasks = tasks
      /\ import'.sprints = import.sprints /\ import'.failed = TRUE
      /\ import'.parsed = import.parsed /\ import'.maxTaskSeq = import.maxTaskSeq
      BY <1>1, <1>4, <1>5 DEF Plan
<1>7. Import'
      BY <1>1, <1>6 DEF Import, Quietly
<1>8. ASSUME undisturbed PROVE PlanFits'
  <2>1. /\ Planned /\ \A n \in SprintNo : import.sprints[n] = folder[n]
        /\ \A u \in TaskNo : import.tasks[u] # NoRow => u \in Known
        BY <1>1, <1>8 DEF MigInv, PlanFits
  <2>2. Planned'
        BY <1>1, <1>6, <2>1, SameProject DEF Planned, Quietly
  <2> QED BY <1>1, <1>4, <1>6, <2>1, <2>2, SameProject DEF PlanFits, Quietly
<1> QED BY <1>1, <1>7, <1>8, QuietlyKeeps

LEMMA LoadTasksDoneKeeps ==
    ASSUME ProjectAssumption, MigInv, LoadTasksDone
    PROVE  MigInv'
<1>1. import \in Plan /\ import.at = "load" /\ Project /\ Quietly /\ events \in Nat
      BY DEF MigInv, Shape, Import, LoadTasksDone, Rest, Quietly
<1>2. import' = [import EXCEPT !.at = "loadSprints"] /\ \A t \in TaskNo : import.tasks[t] = NoRow
      BY DEF LoadTasksDone, goto
<1>3. /\ import' \in Plan /\ import'.at = "loadSprints" /\ import'.failed = import.failed
      /\ import'.sprints = import.sprints
      /\ import'.parsed = import.parsed /\ import'.maxTaskSeq = import.maxTaskSeq
      BY <1>1, <1>2 DEF Plan, Labels
<1>4. Import'
      BY <1>1, <1>3 DEF Import, Quietly
<1>5. ASSUME undisturbed PROVE PlanFits'
  <2>1. /\ Planned /\ \A n \in SprintNo : import.sprints[n] = folder[n]
        /\ \A u \in Known : import.failed \/ taskRows[u] # NoRow \/ import.tasks[u] # NoRow
        BY <1>1, <1>5 DEF MigInv, PlanFits
  <2>2. Known \in SUBSET TaskNo
        BY <1>1, KnownIs
  <2>3. Loaded
        BY <1>2, <2>1, <2>2 DEF Loaded
  <2>4. Loaded' /\ Planned'
        BY <1>1, <1>3, <2>1, <2>3, SameProject DEF Loaded, Planned, Quietly
  <2>5. folder \in [SprintNo -> Location] /\ NoRow \notin Location
        BY <1>1, Numbers DEF Project
  <2>6. \A n \in SprintNo : import'.sprints[n] = folder'[n] /\ import'.sprints[n] # NoRow
        BY <1>3, <2>1, <2>5, SameProject, <1>1 DEF Quietly
  <2> QED BY <1>3, <2>4, <2>6 DEF PlanFits
<1> QED BY <1>1, <1>4, <1>5, QuietlyKeeps

\* A row that is there stays, and one that comes is covered.
LEMMA InsertKeeps ==
    ASSUME ProjectAssumption, Tables, CounterCovers, NEW t \in TaskNo, NEW s \in TaskStatus,
           upsertTaskInsert(t, s)
    PROVE  /\ taskRows' \in [TaskNo -> Row] /\ counter' \in Nat /\ CounterCovers'
           /\ counter <= counter' /\ t <= counter' /\ (counter' = counter \/ counter < t)
           /\ \A u \in TaskNo : taskRows'[u] = IF u = t /\ taskRows[t] = NoRow THEN s ELSE taskRows[u]
<1>1. taskRows \in [TaskNo -> Row] /\ counter \in Nat /\ t \in Nat /\ s \in Row
      BY Numbers DEF Tables, Row
<1>2. taskRows' = [taskRows EXCEPT ![t] = IF taskRows[t] = NoRow THEN s ELSE taskRows[t]]
      BY DEF upsertTaskInsert
<1>3. counter' = IF counter > t THEN counter ELSE t
      BY DEF upsertTaskInsert, Larger
<1>4. /\ counter' \in Nat /\ counter <= counter' /\ t <= counter'
      /\ (counter' = counter \/ counter < t)
      BY <1>1, <1>3
<1>5. \A u \in TaskNo : taskRows'[u] = IF u = t /\ taskRows[t] = NoRow THEN s ELSE taskRows[u]
      BY <1>1, <1>2
<1>6. taskRows' \in [TaskNo -> Row]
      BY <1>1, <1>2
<1>7. \A u \in TaskNo : taskRows'[u] # NoRow => u <= counter'
  <2>1. ASSUME NEW u \in TaskNo, taskRows'[u] # NoRow PROVE u <= counter'
    <3>1. CASE u = t
          BY <1>4, <3>1
    <3>2. CASE u # t
      <4>1. u <= counter /\ u \in Nat
            BY <1>5, <2>1, <3>2, Numbers DEF CounterCovers
      <4> QED BY <1>1, <1>4, <4>1
    <3> QED BY <3>1, <3>2
  <2> QED BY <2>1
<1> QED BY <1>4, <1>5, <1>6, <1>7 DEF CounterCovers

LEMMA LoadTaskKeeps ==
    ASSUME ProjectAssumption, MigInv, LoadTask
    PROVE  MigInv' /\ (settled => UNCHANGED <<taskRows, counter>>)
           /\ \A u \in TaskNo : taskRows[u] # NoRow => taskRows'[u] = taskRows[u]
<1>1. /\ import \in Plan /\ import.at = "load" /\ Project /\ Tables /\ CounterCovers
      /\ events \in Nat
      /\ UNCHANGED <<files, folder, registry, sprintRows, events, undisturbed, settled>>
      BY DEF MigInv, Shape, Import, LoadTask, Rest
<1>2. PICK t \in TaskNo : /\ import.tasks[t] # NoRow
                          /\ upsertTaskInsert(t, import.tasks[t])
                          /\ import' = [import EXCEPT !.tasks[t] = NoRow]
      BY DEF LoadTask
<1> DEFINE tasks == [import.tasks EXCEPT ![t] = NoRow]
<1>3. import.tasks \in [TaskNo -> Row]
      BY <1>1 DEF Plan
<1>4. import.tasks[t] \in TaskStatus
      BY <1>2, <1>3 DEF Row
<1>5. /\ tasks \in [TaskNo -> Row]
      /\ \A u \in TaskNo : tasks[u] = IF u = t THEN NoRow ELSE import.tasks[u]
      BY <1>3 DEF Row
<1>6. import' = [import EXCEPT !.tasks = tasks]
      BY <1>1, <1>2 DEF Plan
<1> HIDE DEF tasks
<1>7. /\ import' \in Plan /\ import'.at = "load" /\ import'.tasks = tasks
      /\ import'.sprints = import.sprints /\ import'.failed = import.failed
      /\ import'.parsed = import.parsed /\ import'.maxTaskSeq = import.maxTaskSeq
      BY <1>1, <1>5, <1>6 DEF Plan
<1>8. Import'
      BY <1>1, <1>7 DEF Import
<1>9. /\ taskRows' \in [TaskNo -> Row] /\ counter' \in Nat /\ CounterCovers'
      /\ counter <= counter' /\ t <= counter' /\ (counter' = counter \/ counter < t)
      /\ \A u \in TaskNo : taskRows'[u] = IF u = t /\ taskRows[t] = NoRow
                                          THEN import.tasks[t] ELSE taskRows[u]
  <2> DEFINE s == import.tasks[t]
  <2>1. s \in TaskStatus /\ upsertTaskInsert(t, s)
        BY <1>2, <1>4
  <2> HIDE DEF s
  <2>2. /\ taskRows' \in [TaskNo -> Row] /\ counter' \in Nat /\ CounterCovers'
        /\ counter <= counter' /\ t <= counter' /\ (counter' = counter \/ counter < t)
        /\ \A u \in TaskNo : taskRows'[u] = IF u = t /\ taskRows[t] = NoRow THEN s ELSE taskRows[u]
        BY <1>1, <2>1, InsertKeeps
  <2> QED BY <2>2 DEF s
<1>10. \A u \in TaskNo : taskRows[u] # NoRow => taskRows'[u] = taskRows[u]
      BY <1>9
<1>11. Shape'
      BY <1>1, <1>8, <1>9, SameProject DEF Shape, Tables
<1>12. undisturbed =>
        /\ Planned /\ \A n \in SprintNo : import.sprints[n] = folder[n]
        /\ \A u \in TaskNo : import.tasks[u] # NoRow => u \in Known
        /\ \A u \in Known : import.failed \/ taskRows[u] # NoRow \/ import.tasks[u] # NoRow
      BY <1>1 DEF MigInv, PlanFits
<1>13. settled => UNCHANGED <<taskRows, counter>>
  <2>1. ASSUME settled PROVE taskRows' = taskRows /\ counter' = counter
    <3>1. t \in Known
          BY <1>2, <1>12, <2>1 DEF MigInv
    <3>2. taskRows[t] # NoRow /\ t <= counter
          BY <2>1, <3>1 DEF MigInv, MigratedComplete
    <3>3. counter' = counter
          BY <1>1, <1>9, <3>2, Numbers DEF Tables
    <3>4. taskRows \in [TaskNo -> Row] /\ \A u \in TaskNo : taskRows'[u] = taskRows[u]
          BY <1>1, <1>9, <3>2 DEF Tables
    <3> QED BY <1>9, <3>3, <3>4
  <2> QED BY <2>1
<1>14. MigratedComplete'
      BY <1>1, <1>13, SameProject DEF MigInv, MigratedComplete
<1>15. ASSUME undisturbed PROVE PlanFits'
  <2>1. Planned'
        BY <1>1, <1>7, <1>12, <1>15, SameProject DEF Planned
  <2>2. \A u \in TaskNo : tasks[u] # NoRow => u \in Known
        BY <1>5, <1>12, <1>15
  <2>3. \A u \in Known : import.failed \/ taskRows'[u] # NoRow \/ tasks[u] # NoRow
    <3>1. Known \in SUBSET TaskNo
          BY <1>1, KnownIs
    <3> QED BY <1>2, <1>5, <1>9, <1>12, <1>15, <3>1
  <2> QED BY <1>1, <1>7, <1>12, <1>15, <2>1, <2>2, <2>3, SameProject DEF PlanFits
<1>16. MigInv'
      BY <1>1, <1>11, <1>14, <1>15 DEF MigInv
<1> QED BY <1>10, <1>13, <1>16

LEMMA LoadSprintKeeps ==
    ASSUME ProjectAssumption, MigInv, LoadSprint
    PROVE  MigInv' /\ (settled => sprintRows' = sprintRows)
<1>1. /\ import \in Plan /\ import.at = "loadSprints" /\ Project /\ Tables /\ CounterCovers
      /\ events \in Nat
      /\ UNCHANGED <<files, folder, registry, taskRows, counter, events, undisturbed, settled>>
      BY DEF MigInv, Shape, Import, LoadSprint, Rest
<1>2. undisturbed =>
        /\ Planned /\ Loaded
        /\ \A n \in SprintNo : import.sprints[n] \in {NoRow, folder[n]}
        /\ \A n \in SprintNo : import.sprints[n] = NoRow => Rowed(n)
      BY <1>1 DEF MigInv, PlanFits
<1>3. import.sprints \in [SprintNo -> Location \cup {NoRow}]
      BY <1>1 DEF Plan
<1>4. folder \in [SprintNo -> Location] /\ NoRow \notin Location
      BY <1>1, Numbers DEF Project
<1>5. CASE \A n \in SprintNo : import.sprints[n] = NoRow
  <2>1. import' = [import EXCEPT !.at = "count"] /\ sprintRows' = sprintRows
        BY <1>5 DEF LoadSprint, goto
  <2>2. /\ import' \in Plan /\ import'.at = "count" /\ import'.failed = import.failed
        /\ import'.parsed = import.parsed /\ import'.maxTaskSeq = import.maxTaskSeq
        BY <1>1, <2>1 DEF Plan, Labels
  <2>3. Import' /\ Quietly
        BY <1>1, <2>1, <2>2 DEF Import, Quietly
  <2>4. ASSUME undisturbed PROVE PlanFits'
    <3>1. \A n \in SprintNo : Rowed(n)'
          BY <1>1, <1>2, <1>5, <2>1, <2>2, <2>4 DEF Rowed
    <3>2. Planned' /\ Loaded'
          BY <1>1, <1>2, <2>2, <2>4, SameProject DEF Planned, Loaded
    <3> QED BY <1>1, <2>1, <2>2, <3>1, <3>2, SameProject DEF PlanFits
  <2>5. MigInv'
        BY <2>3, <2>4, QuietlyKeeps
  <2> QED BY <2>1, <2>5
<1>6. CASE ~\A n \in SprintNo : import.sprints[n] = NoRow
  <2>1. PICK n \in SprintNo : /\ import.sprints[n] # NoRow
                              /\ sprintRows' = [sprintRows EXCEPT ![n] = import.sprints[n]]
                              /\ import' = [import EXCEPT !.sprints[n] = NoRow]
        BY <1>6 DEF LoadSprint
  <2> DEFINE sprints == [import.sprints EXCEPT ![n] = NoRow]
  <2>2. import.sprints[n] \in Location
        BY <1>3, <2>1
  <2>3. /\ sprints \in [SprintNo -> Location \cup {NoRow}]
        /\ \A m \in SprintNo : sprints[m] = IF m = n THEN NoRow ELSE import.sprints[m]
        BY <1>3
  <2>4. import' = [import EXCEPT !.sprints = sprints]
        BY <1>1, <2>1 DEF Plan
  <2> HIDE DEF sprints
  <2>5. /\ import' \in Plan /\ import'.at = "loadSprints" /\ import'.failed = import.failed
        /\ import'.sprints = sprints
        /\ import'.parsed = import.parsed /\ import'.maxTaskSeq = import.maxTaskSeq
        BY <1>1, <2>3, <2>4 DEF Plan
  <2>6. Import'
        BY <1>1, <2>5 DEF Import
  <2>7. /\ sprintRows' \in [SprintNo -> Location \cup {NoRow}]
        /\ sprintRows \in [SprintNo -> Location \cup {NoRow}]
        /\ \A m \in SprintNo : sprintRows'[m] = IF m = n THEN import.sprints[n] ELSE sprintRows[m]
        BY <1>1, <2>1, <2>2 DEF Tables
  <2>8. Shape'
        BY <1>1, <2>6, <2>7, SameProject DEF Shape, Tables, CounterCovers
  <2>9. undisturbed => import.sprints[n] = folder[n]
        BY <1>2, <2>1
  <2>10. settled => sprintRows' = sprintRows
    <3>1. ASSUME settled PROVE sprintRows' = sprintRows
      <4>1. import.sprints[n] = folder[n] /\ sprintRows[n] = folder[n]
            BY <2>9, <3>1 DEF MigInv, MigratedComplete
      <4>2. \A m \in SprintNo : sprintRows'[m] = sprintRows[m]
            BY <2>7, <4>1
      <4> QED BY <2>7, <4>2
    <3> QED BY <3>1
  <2>11. MigratedComplete'
        BY <1>1, <2>10, SameProject DEF MigInv, MigratedComplete
  <2>12. ASSUME undisturbed PROVE PlanFits'
    <3>1. Planned' /\ Loaded'
          BY <1>1, <1>2, <2>5, <2>12, SameProject DEF Planned, Loaded
    <3>2. ASSUME NEW m \in SprintNo
          PROVE  sprints[m] \in {NoRow, folder[m]} /\ (sprints[m] = NoRow => Rowed(m)')
          BY <1>1, <1>2, <2>3, <2>5, <2>7, <2>9, <2>12 DEF Rowed
    <3> QED BY <1>1, <2>5, <3>1, <3>2, SameProject DEF PlanFits
  <2>13. MigInv'
        BY <1>1, <2>8, <2>11, <2>12 DEF MigInv
  <2> QED BY <2>10, <2>13
<1> QED BY <1>5, <1>6

LEMMA LoadSprintFailsKeeps ==
    ASSUME ProjectAssumption, MigInv, LoadSprintFails
    PROVE  MigInv'
<1>1. import \in Plan /\ import.at = "loadSprints" /\ Project /\ Quietly /\ events \in Nat
      BY DEF MigInv, Shape, Import, LoadSprintFails, Rest, Quietly
<1>2. PICK n \in SprintNo : import' = [import EXCEPT !.sprints[n] = NoRow, !.failed = TRUE]
      BY DEF LoadSprintFails
<1> DEFINE sprints == [import.sprints EXCEPT ![n] = NoRow]
<1>3. import.sprints \in [SprintNo -> Location \cup {NoRow}]
      BY <1>1 DEF Plan
<1>4. /\ sprints \in [SprintNo -> Location \cup {NoRow}]
      /\ \A m \in SprintNo : sprints[m] = IF m = n THEN NoRow ELSE import.sprints[m]
      BY <1>3
<1>5. import' = [import EXCEPT !.sprints = sprints, !.failed = TRUE]
      BY <1>1, <1>2 DEF Plan
<1> HIDE DEF sprints
<1>6. /\ import' \in Plan /\ import'.at = "loadSprints" /\ import'.failed = TRUE
      /\ import'.sprints = sprints
      /\ import'.parsed = import.parsed /\ import'.maxTaskSeq = import.maxTaskSeq
      BY <1>1, <1>4, <1>5 DEF Plan
<1>7. Import'
      BY <1>1, <1>6 DEF Import, Quietly
<1>8. ASSUME undisturbed PROVE PlanFits'
  <2>1. Planned /\ \A m \in SprintNo : import.sprints[m] \in {NoRow, folder[m]}
        BY <1>1, <1>8 DEF MigInv, PlanFits
  <2>2. Planned' /\ Loaded' /\ \A m \in SprintNo : Rowed(m)'
        BY <1>1, <1>6, <2>1, SameProject DEF Planned, Loaded, Rowed, Quietly
  <2>3. \A m \in SprintNo : sprints[m] \in {NoRow, folder[m]}
        BY <1>4, <2>1
  <2> QED BY <1>1, <1>6, <2>2, <2>3 DEF PlanFits, Quietly
<1> QED BY <1>1, <1>7, <1>8, QuietlyKeeps

LEMMA SetCounterMaxKeeps ==
    ASSUME ProjectAssumption, MigInv, SetCounterMax
    PROVE  MigInv' /\ (settled => counter' = counter)
<1>1. /\ import \in Plan /\ import.at = "count" /\ Project /\ Tables /\ CounterCovers
      /\ events \in Nat
      /\ UNCHANGED <<files, folder, registry, taskRows, sprintRows, events, undisturbed, settled>>
      BY DEF MigInv, Shape, Import, SetCounterMax, Rest
<1>2. /\ counter \in Nat /\ import.maxTaskSeq \in Nat
      /\ counter' = (IF counter > import.maxTaskSeq THEN counter ELSE import.maxTaskSeq)
      BY <1>1 DEF Tables, Plan, SetCounterMax, Larger
<1>3. counter' \in Nat /\ counter <= counter' /\ import.maxTaskSeq <= counter'
      BY <1>2
<1>4. /\ import' \in Plan /\ import'.at = "orphans" /\ import'.failed = import.failed
      /\ import'.parsed = import.parsed /\ import'.maxTaskSeq = import.maxTaskSeq
      BY <1>1 DEF Plan, Labels, SetCounterMax, goto
<1>5. Import'
      BY <1>1, <1>4 DEF Import
<1>6. CounterCovers'
  <2>1. ASSUME NEW t \in TaskNo, taskRows[t] # NoRow PROVE t <= counter'
    <3>1. t <= counter /\ t \in Nat
          BY <1>1, <2>1, Numbers DEF CounterCovers
    <3> QED BY <1>2, <1>3, <3>1
  <2> QED BY <1>1, <2>1 DEF CounterCovers
<1>7. Shape'
      BY <1>1, <1>3, <1>5, <1>6, SameProject DEF Shape, Tables
<1>8. undisturbed => Planned /\ Loaded /\ \A n \in SprintNo : Rowed(n)
      BY <1>1 DEF MigInv, PlanFits
<1>9. settled => counter' = counter
  <2>1. ASSUME settled PROVE counter' = counter
    <3>1. import.maxTaskSeq \in Known \cup {LastId}
          BY <1>8, <2>1 DEF MigInv, Planned
    <3>2. import.maxTaskSeq <= counter
          BY <1>2, <2>1, <3>1 DEF MigInv, MigratedComplete, LastId
    <3> QED BY <1>2, <3>2
  <2> QED BY <2>1
<1>10. MigratedComplete'
      BY <1>1, <1>9, SameProject DEF MigInv, MigratedComplete
<1>11. ASSUME undisturbed PROVE PlanFits'
  <2>1. Planned' /\ Loaded' /\ \A n \in SprintNo : Rowed(n)'
        BY <1>1, <1>4, <1>8, <1>11, SameProject DEF Planned, Loaded, Rowed
  <2>2. LastId <= counter' /\ LastId' = LastId
    <3>1. LastId \in Nat /\ LastId <= import.maxTaskSeq
          BY <1>1, <1>8, <1>11, KnownIs DEF Planned
    <3> QED BY <1>1, <1>2, <1>3, <3>1, SameProject
  <2> QED BY <1>1, <1>4, <1>8, <1>11, <2>1, <2>2 DEF PlanFits
<1>12. MigInv'
      BY <1>1, <1>7, <1>10, <1>11 DEF MigInv
<1> QED BY <1>9, <1>12

LEMMA SetCounterFailsKeeps ==
    ASSUME ProjectAssumption, MigInv, SetCounterFails
    PROVE  MigInv'
<1>1. import \in Plan /\ import.at = "count" /\ Project /\ Quietly /\ events \in Nat
      BY DEF MigInv, Shape, Import, SetCounterFails, Rest, Quietly
<1>2. /\ import' \in Plan /\ import'.at = "orphans" /\ import'.failed = TRUE
      /\ import'.parsed = import.parsed /\ import'.maxTaskSeq = import.maxTaskSeq
      BY <1>1 DEF Plan, Labels, SetCounterFails
<1>3. Import'
      BY <1>1, <1>2 DEF Import, Quietly
<1>4. ASSUME undisturbed PROVE PlanFits'
  <2>1. Planned
        BY <1>1, <1>4 DEF MigInv, PlanFits
  <2>2. Planned' /\ Loaded' /\ \A n \in SprintNo : Rowed(n)'
        BY <1>1, <1>2, <2>1, SameProject DEF Planned, Loaded, Rowed, Quietly
  <2> QED BY <1>1, <1>2, <2>2 DEF PlanFits
<1> QED BY <1>1, <1>3, <1>4, QuietlyKeeps

LEMMA OrphansKeeps ==
    ASSUME ProjectAssumption, MigInv, Orphans
    PROVE  MigInv'
<1>1. import \in Plan /\ import.at = "orphans" /\ Project /\ Quietly /\ events \in Nat
      BY DEF MigInv, Shape, Import, Orphans, Rest, Quietly
<1>2. import' = [import EXCEPT !.at = "archive", !.orphans = Alive \ import.parsed]
      BY DEF Orphans, Alive
<1>3. /\ import' \in Plan /\ import'.at = "archive" /\ import'.failed = import.failed
      /\ import'.parsed = import.parsed /\ import'.maxTaskSeq = import.maxTaskSeq
      /\ import'.orphans = Alive \ import.parsed
  <2>1. Alive \ import.parsed \in SUBSET TaskNo
        BY DEF Alive
  <2> QED BY <1>1, <1>2, <2>1 DEF Plan, Labels
<1>4. Import'
      BY <1>1, <1>3 DEF Import, Quietly
<1>5. ASSUME undisturbed PROVE PlanFits'
  <2>1. /\ Planned /\ Loaded /\ \A n \in SprintNo : Rowed(n)
        /\ import.failed \/ LastId <= counter
        BY <1>1, <1>5 DEF MigInv, PlanFits
  <2>2. Planned' /\ Loaded' /\ \A n \in SprintNo : Rowed(n)'
        BY <1>1, <1>3, <2>1, SameProject DEF Planned, Loaded, Rowed, Quietly
  <2>3. import'.orphans = Alive' \ Known'
        BY <1>1, <1>3, <2>1, SameProject DEF Planned, Alive, Quietly
  <2> QED BY <1>1, <1>3, <2>1, <2>2, <2>3, SameProject DEF PlanFits, Quietly
<1> QED BY <1>1, <1>4, <1>5, QuietlyKeeps

LEMMA ArchiveTasksKeeps ==
    ASSUME ProjectAssumption, MigInv, ArchiveTasks
    PROVE  /\ MigInv' /\ (settled => taskRows' = taskRows)
           /\ undisturbed => \A t \in TaskNo : taskRows'[t] = taskRows[t] \/ t \notin Known
<1>1. /\ import \in Plan /\ import.at = "archive" /\ Project /\ Tables /\ CounterCovers
      /\ events \in Nat /\ import' = Rest
      /\ UNCHANGED <<files, folder, registry, sprintRows, counter, events, undisturbed>>
      BY DEF MigInv, Shape, Import, ArchiveTasks, Rest
<1>2. /\ taskRows' = [t \in TaskNo |->
            IF t \in import.orphans /\ taskRows[t] # NoRow THEN "archived" ELSE taskRows[t]]
      /\ settled' = (undisturbed /\ ~import.failed)
      BY DEF ArchiveTasks
<1>3. /\ \A t \in TaskNo : taskRows'[t] =
            IF t \in import.orphans /\ taskRows[t] # NoRow THEN "archived" ELSE taskRows[t]
      /\ taskRows' \in [TaskNo -> Row] /\ taskRows \in [TaskNo -> Row]
      /\ "archived" # NoRow
  <2>1. "archived" \in TaskStatus
        BY DEF TaskStatus
  <2>2. "archived" # NoRow /\ "archived" \in Row
        BY <2>1, Numbers DEF Row
  <2>3. taskRows \in [TaskNo -> Row]
        BY <1>1 DEF Tables
  <2> QED BY <1>2, <2>2, <2>3
<1>4. Import' /\ PlanFits' /\ import'.at = "rest"
      BY <1>1 DEF Import, PlanFits, Rest
<1>5. CounterCovers'
      BY <1>1, <1>3 DEF CounterCovers
<1>6. Shape'
      BY <1>1, <1>3, <1>4, <1>5, SameProject DEF Shape, Tables
<1>7. undisturbed => /\ Loaded /\ import.orphans = Alive \ Known
                     /\ import.failed \/ LastId <= counter
                     /\ import.failed \/ \A n \in SprintNo : sprintRows[n] = folder[n]
      BY <1>1 DEF MigInv, PlanFits, Rowed
<1>8. undisturbed => \A t \in TaskNo : taskRows'[t] = taskRows[t] \/ t \notin Known
      BY <1>3, <1>7
<1>9. settled => taskRows' = taskRows
  <2>1. ASSUME settled PROVE taskRows' = taskRows
    <3>1. import.orphans = {}
          BY <1>7, <2>1 DEF MigInv, MigratedComplete, Alive
    <3>2. \A t \in TaskNo : taskRows'[t] = taskRows[t]
          BY <1>3, <3>1
    <3> QED BY <1>3, <3>2
  <2> QED BY <2>1
<1>10. ASSUME settled' PROVE MigratedComplete'
  <2>1. undisturbed /\ ~import.failed
        BY <1>2, <1>10
  <2>2. Known \in SUBSET TaskNo /\ Known' = Known
        BY <1>1, KnownIs, SameProject
  <2>3. \A t \in Known : taskRows'[t] # NoRow /\ t <= counter
        BY <1>1, <1>3, <1>7, <2>1, <2>2 DEF Loaded, CounterCovers
  <2>4. ASSUME NEW t \in TaskNo, taskRows'[t] \notin {NoRow, "archived", "superseded"}
        PROVE  t \in Known
        BY <1>3, <1>7, <2>1, <2>4 DEF Alive
  <2>5. registry # NoRegistry => registry.lastId <= counter
        BY <1>7, <2>1 DEF LastId
  <2> QED BY <1>1, <1>7, <2>1, <2>2, <2>3, <2>4, <2>5 DEF MigratedComplete
<1>11. ~settled' => MigratedComplete'
      BY DEF MigratedComplete
<1>12. settled' => undisturbed'
      BY <1>1, <1>2
<1>13. MigInv'
      BY <1>4, <1>6, <1>10, <1>11, <1>12 DEF MigInv
<1> QED BY <1>8, <1>9, <1>13

LEMMA KilledKeeps ==
    ASSUME ProjectAssumption, MigInv, Killed
    PROVE  MigInv'
<1>1. /\ UNCHANGED <<files, folder, registry, taskRows, sprintRows, counter, undisturbed, settled>>
      /\ import' = Rest /\ events' = events + 1 /\ events \in Nat
      BY DEF Killed, MigInv, Shape, Import
<1>2. Import' /\ PlanFits'
      BY <1>1 DEF Import, PlanFits, Rest
<1> QED BY <1>1, <1>2, SameProject DEF MigInv, Shape, Tables, CounterCovers, MigratedComplete

\* Where another command runs, all that counts is the shape.
LEMMA MeanwhileKeeps ==
    ASSUME MigInv, Meanwhile, Tables', Project', CounterCovers'
    PROVE  MigInv'
<1>1. Import'
      BY DEF Meanwhile, MigInv, Shape, Import
<1>2. ~undisturbed' /\ ~settled'
      BY DEF Meanwhile
<1> QED BY <1>1, <1>2 DEF MigInv, Shape, MigratedComplete

LEMMA CreateTaskKeeps ==
    ASSUME ProjectAssumption, MigInv, CreateTask
    PROVE  MigInv'
<1> DEFINE rowed == {u \in TaskNo : taskRows[u] # NoRow}
           named == {f.task : f \in files}
           S == {counter} \cup rowed \cup named
           t == 1 + Max(S)
           new == [task |-> t, place |-> [sprint |-> 0, deep |-> FALSE],
                   status |-> "todo", ok |-> TRUE]
<1>1. /\ t \in TaskNo /\ files' = files \cup {new}
      /\ taskRows' = [taskRows EXCEPT ![t] = "todo"] /\ counter' = t
      /\ UNCHANGED <<folder, sprintRows, registry>> /\ Meanwhile
      BY DEF CreateTask, Meanwhile
<1>2. Tables /\ Project /\ CounterCovers
      BY DEF MigInv, Shape
<1>3. rowed \in SUBSET TaskNo /\ named \in SUBSET TaskNo
      BY <1>2 DEF Project, TaskFile
<1>4. counter \in Nat
      BY <1>2 DEF Tables
<1>5. \A u \in S : u \in Nat /\ u < t
  <2> HIDE DEF rowed, named
  <2>1. IsFiniteSet(rowed) /\ IsFiniteSet(named)
        BY <1>3, Numbers, FS_Subset
  <2>2. IsFiniteSet(rowed \cup named)
        BY <2>1, FS_Union
  <2>3. IsFiniteSet((rowed \cup named) \cup {counter})
        BY <2>2, FS_AddElement
  <2>4. S = (rowed \cup named) \cup {counter}
        OBVIOUS
  <2>5. S \in SUBSET Nat /\ IsFiniteSet(S) /\ S # {}
        BY <1>3, <1>4, <2>3, <2>4, Numbers
  <2> HIDE DEF S
  <2>6. Max(S) \in Nat /\ \A u \in S : u <= Max(S)
        BY <2>5, MaxIsLargest
  <2> QED BY <2>5, <2>6
<1>6. \A u \in TaskNo : taskRows[u] # NoRow => u < t
      BY <1>5
<1>7. \A f \in files : f.task \in Nat /\ f.task < t
      BY <1>5
<1> HIDE DEF t, S, rowed, named
<1>8. t \in Nat
      BY <1>1, Numbers
<1>9. Tables'
  <2>1. "todo" \in Row
        BY DEF Row, TaskStatus
  <2>2. taskRows' \in [TaskNo -> Row]
        BY <1>1, <1>2, <2>1 DEF Tables
  <2> QED BY <1>1, <1>2, <1>8, <2>2 DEF Tables
<1>10. CounterCovers'
      BY <1>1, <1>2, <1>6, <1>8, Numbers DEF Tables, CounterCovers
<1>11. new \in TaskFile
  <2>1. [sprint |-> 0, deep |-> FALSE] \in Place
    <3>1. \E d \in BOOLEAN : [sprint |-> 0, deep |-> FALSE] = [sprint |-> 0, deep |-> d]
          OBVIOUS
    <3> QED BY <3>1 DEF Place
  <2>2. "todo" \in TaskStatus
        BY DEF TaskStatus
  <2> QED BY <1>1, <2>1, <2>2 DEF TaskFile
<1>12. Project'
  <2>1. IsFiniteSet(files')
        BY <1>1, <1>2, FS_AddElement DEF Project
  <2>2. new.task = t
        OBVIOUS
  <2>3. files' \in SUBSET TaskFile
        BY <1>1, <1>2, <1>11 DEF Project
  <2> HIDE DEF new
  <2>4. \A f, g \in files' : f.task = g.task /\ f.place = g.place => f = g
        BY <1>1, <1>2, <1>7, <1>8, <2>2 DEF Project, OneName
  <2> QED BY <1>1, <1>2, <2>1, <2>3, <2>4 DEF Project, OneName
<1> QED BY <1>1, <1>9, <1>10, <1>12, MeanwhileKeeps

LEMMA MoveSprintKeeps ==
    ASSUME ProjectAssumption, MigInv, NEW n \in SprintNo, MoveSprint(n)
    PROVE  MigInv'
<1>1. /\ folder' = [folder EXCEPT ![n] = IF folder[n] = "backlog" THEN "active" ELSE "completed"]
      /\ sprintRows' = [sprintRows EXCEPT ![n] = IF sprintRows[n] = NoRow THEN sprintRows[n]
                                                 ELSE folder'[n]]
      /\ UNCHANGED <<files, taskRows, counter, registry>> /\ Meanwhile
      BY DEF MoveSprint, Meanwhile
<1>2. Tables /\ Project /\ CounterCovers
      BY DEF MigInv, Shape
<1>3. folder' \in [SprintNo -> Location]
  <2>1. "active" \in Location /\ "completed" \in Location
        BY DEF Location
  <2> QED BY <1>1, <1>2, <2>1 DEF Project
<1>4. Project'
      BY <1>1, <1>2, <1>3 DEF Project, OneName
<1>5. sprintRows' \in [SprintNo -> Location \cup {NoRow}]
      BY <1>1, <1>2, <1>3 DEF Tables
<1>6. Tables' /\ CounterCovers'
      BY <1>1, <1>2, <1>5 DEF Tables, CounterCovers
<1> QED BY <1>1, <1>4, <1>6, MeanwhileKeeps

LEMMA StutterKeeps ==
    ASSUME ProjectAssumption, MigInv, UNCHANGED migVars
    PROVE  MigInv'
<1>1. Quietly /\ import' = import
      BY DEF Quietly, migVars
<1>2. Import'
      BY <1>1 DEF MigInv, Shape, Import, Quietly
<1>3. undisturbed => PlanFits'
      BY <1>1, SameProject DEF MigInv, PlanFits, Placed, Planned, Loaded, Rowed, Listed, Alive, Quietly
<1> QED BY <1>1, <1>2, <1>3, QuietlyKeeps

LEMMA NextMig ==
    ASSUME ProjectAssumption, MigInv, [Next]_migVars
    PROVE  MigInv'
BY StartShape, GlobKeeps, ParseKeeps, MergeKeeps, ScanSprintsKeeps, LoadTaskKeeps,
   LoadTaskFailsKeeps, LoadTasksDoneKeeps, LoadSprintKeeps, LoadSprintFailsKeeps,
   SetCounterMaxKeeps, SetCounterFailsKeeps, OrphansKeeps,
   ArchiveTasksKeeps, KilledKeeps, CreateTaskKeeps, MoveSprintKeeps, StutterKeeps DEF Next

\* What a step does to rows.
LEMMA RowsChange ==
    ASSUME ProjectAssumption, MigInv, Next
    PROVE  ChangesNothing /\ ArchivesUnseen
<1>1. CASE LoadTask
  <2>1. /\ settled => UNCHANGED <<taskRows, counter>>
        /\ \A u \in TaskNo : taskRows[u] # NoRow => taskRows'[u] = taskRows[u]
        /\ sprintRows' = sprintRows
        BY <1>1, LoadTaskKeeps DEF LoadTask
  <2> QED BY <2>1 DEF ChangesNothing, ArchivesUnseen
<1>2. CASE LoadSprint
  <2>1. (settled => sprintRows' = sprintRows) /\ UNCHANGED <<taskRows, counter>>
        BY <1>2, LoadSprintKeeps DEF LoadSprint
  <2> QED BY <2>1 DEF ChangesNothing, ArchivesUnseen
<1>3. CASE SetCounterMax
  <2>1. (settled => counter' = counter) /\ UNCHANGED <<taskRows, sprintRows>>
        BY <1>3, SetCounterMaxKeeps DEF SetCounterMax
  <2> QED BY <2>1 DEF ChangesNothing, ArchivesUnseen
<1>4. CASE ArchiveTasks
  <2>1. /\ settled => taskRows' = taskRows
        /\ undisturbed => \A t \in TaskNo : taskRows'[t] = taskRows[t] \/ t \notin Known
        /\ UNCHANGED <<sprintRows, counter, undisturbed>>
        BY <1>4, ArchiveTasksKeeps DEF ArchiveTasks
  <2> QED BY <2>1 DEF ChangesNothing, ArchivesUnseen
<1>5. CASE Killed
  <2>1. UNCHANGED <<taskRows, sprintRows, counter>>
        BY <1>5 DEF Killed
  <2> QED BY <2>1 DEF ChangesNothing, ArchivesUnseen
<1>6. CASE CreateTask \/ \E n \in SprintNo : MoveSprint(n)
  <2>1. events' = events + 1 /\ ~undisturbed'
        BY <1>6 DEF CreateTask, MoveSprint, Meanwhile
  <2>2. events \in Nat
        BY DEF MigInv, Shape, Import
  <2> QED BY <2>1, <2>2 DEF ChangesNothing, ArchivesUnseen
<1>7. CASE \/ Start \/ Glob \/ Parse \/ Merge \/ ScanSprints \/ LoadTaskFails \/ LoadTasksDone
           \/ LoadSprintFails \/ SetCounterFails \/ Orphans
  <2>1. UNCHANGED <<taskRows, sprintRows, counter>>
        BY <1>7 DEF Start, Glob, Parse, Merge, ScanSprints, LoadTaskFails, LoadTasksDone,
                    LoadSprintFails, SetCounterFails, Orphans
  <2> QED BY <2>1 DEF ChangesNothing, ArchivesUnseen
<1> QED BY <1>1, <1>2, <1>3, <1>4, <1>5, <1>6, <1>7 DEF Next

\* An import that ends undisturbed and without a failure has brought everything it
\* could read and all of the history, killed ones before it or not, and no row
\* ever has a number beyond the counter.
THEOREM ImportIsComplete ==
    ProjectAssumption => (Spec => [](MigratedComplete /\ CounterCovers))
<1>1. ProjectAssumption /\ Init => ProjectAssumption /\ MigInv
      BY InitMig
<1>2. ProjectAssumption /\ MigInv /\ [Next]_migVars => ProjectAssumption' /\ MigInv'
      BY NextMig
<1>3. MigInv => MigratedComplete /\ CounterCovers
      BY DEF MigInv, Shape
<1> QED BY <1>1, <1>2, <1>3, PTL DEF Spec

\* An undisturbed import archives no Task it could read, even one it could not
\* load, and one over what another has left changes nothing.
THEOREM ImportIsGentle ==
    ProjectAssumption => (Spec => ArchivesOnlyUnseen /\ RerunStable)
<1>1. ProjectAssumption /\ Init => ProjectAssumption /\ MigInv
      BY InitMig
<1>2. ProjectAssumption /\ MigInv /\ [Next]_migVars => ProjectAssumption' /\ MigInv'
      BY NextMig
<1>3. ProjectAssumption /\ MigInv /\ [Next]_migVars =>
        [ArchivesUnseen]_migVars /\ [ChangesNothing]_migVars
      BY RowsChange
<1> QED BY <1>1, <1>2, <1>3, PTL DEF Spec, ArchivesOnlyUnseen, RerunStable

\* Every reachable state of Migration is well typed.
THEOREM MigrationTyped == ProjectAssumption => (Spec => []TypeOK)
<1>1. ProjectAssumption /\ Init => ProjectAssumption /\ MigInv
      BY InitMig
<1>2. ProjectAssumption /\ MigInv /\ [Next]_migVars => ProjectAssumption' /\ MigInv'
      BY NextMig
<1>3. MigInv => TypeOK
  <2> SUFFICES ASSUME MigInv PROVE TypeOK
      OBVIOUS
  <2>1. import.at \in {"rest", "glob", "parse", "merge", "sprints", "load",
                       "loadSprints", "count", "orphans", "archive"}
        BY DEF MigInv, Shape, Import, Plan, Labels, Rest
  <2> QED BY <2>1 DEF MigInv, Shape, Tables, Project, TypeOK, Row
<1> QED BY <1>1, <1>2, <1>3, PTL DEF Spec

-----------------------------------------------------------------------------
(* The knowledge base. *)

\* What people may have left: no two cards of a file with one identifier.
KnowledgeAssumption ==
    /\ KB!KBAssumption
    /\ Absent \notin Seq(KB!Card) /\ Absent # Garbled
    /\ \A r, t : [rows |-> r, total |-> t] \notin {Absent, Garbled}

Counts == UNION {[D -> Nat] : D \in SUBSET CardFile}
Page == [rows : Counts, total : {KB!cardTotal(c) : c \in Counts} \cup {0, KB!NoTotal}]
Creating == [at : {"number", "look", "read", "truncate", "write"}, file : CardFile,
             card : KB!Card, base : Seq(KB!Card)]
Counting == [at : {"ensure", "walk", "recount", "clear", "store"}, counts : Counts,
             todo : SUBSET CardFile, page : Page \cup {Absent, Garbled}]

KBTyped ==
    /\ cards \in [CardFile -> Seq(KB!Card) \cup {Absent}]
    /\ author \in [Author -> {KB!Idle} \cup Creating \cup Counting]
    /\ index \in Page \cup {Absent, Garbled}
    /\ created \in SUBSET (CardFile \X KB!Card)
    /\ calls \in Nat /\ kills \in Nat
    /\ \A a \in Author : author[a].at = "write" => cards[author[a].file] # Absent

Among(s, c) == \E i \in 1..Len(s) : s[i] = c
Distinct(s) ==
    \A i, j \in 1..Len(s) : i # j => s[i].prefix # s[j].prefix \/ s[i].number # s[j].number
Above(c, s) == \A i \in 1..Len(s) : s[i].prefix = c.prefix => s[i].number < c.number

\* Row by row what the files hold.
Exact(r, todo) ==
    \A f \in CardFile :
        /\ f \in DOMAIN r <=> f \notin todo /\ KB!Scan(f) # <<>>
        /\ f \in DOMAIN r => r[f] = Len(KB!Scan(f))
Fits(page) ==
    \A f \in CardFile :
        /\ KB!Scan(f) # <<>> => f \in DOMAIN page.rows
        /\ f \in DOMAIN page.rows => page.rows[f] = Len(KB!Scan(f))

\* What the only command knows of the file it adds to, or of all of them.
Knows(a) ==
  LET j == author[a]
  IN
    /\ j.at \in {"number", "look"} => j.base = <<>>
    /\ j.at \in {"look", "read", "truncate"} => Above(j.card, KB!Scan(j.file))
    /\ j.at = "truncate" => j.base = KB!Scan(j.file)
    /\ j.at = "write" => /\ cards[j.file] = <<>>
                         /\ Distinct(j.base) /\ Above(j.card, j.base)
    /\ j.at = "ensure" => j.todo = CardFile /\ j.counts = <<>>
    /\ j.at = "walk" => Exact(j.counts, j.todo) /\ index \in Page
    /\ j.at = "recount" => Exact(j.counts, {}) /\ index \in Page
    /\ j.at \in {"clear", "store"} => j.page \in Page /\ Fits(j.page)
    /\ j.at = "store" => index = KB!blankIndex

\* A rebuild under way that has begun to count.
Recounting(a) == \/ author[a].at = "walk" /\ author[a].todo # CardFile
                 \/ author[a].at \in {"recount", "clear", "store"}

Alone == \A a, b \in Author : author[a] # KB!Idle /\ author[b] # KB!Idle => a = b

AllDistinct == \A f \in CardFile : Distinct(KB!Scan(f))
CreatedStay ==
    kills = 0 => \A c \in created :
        \/ Among(KB!Scan(c[1]), c[2])
        \/ \E a \in Author : /\ author[a].at = "write" /\ author[a].file = c[1]
                             /\ Among(author[a].base, c[2])
IndexFits == fresh => \/ index \in Page /\ Fits(index)
                      \/ \E a \in Author : Recounting(a)

KBInv ==
    /\ KBTyped
    /\ quiet => /\ Alone /\ index # Garbled
                /\ \A a \in Author : Knows(a)
                /\ AllDistinct /\ CreatedStay /\ IndexFits

LEMMA KBInvGives ==
    ASSUME KBInv
    PROVE  KB!NumbersDistinct /\ KB!CardsStay /\ KB!IndexFresh
<1>1. quiet => \A f \in CardFile : Distinct(KB!Scan(f))
      BY DEF KBInv, AllDistinct
<1>2. \A a \in Author : author[a] = KB!Idle =>
        author[a].at # "write" /\ ~Recounting(a)
      BY DEF KB!Idle, Recounting
<1>3. KB!NumbersDistinct
      BY <1>1 DEF KB!NumbersDistinct, Distinct
<1>4. KB!CardsStay
      BY <1>2 DEF KBInv, CreatedStay, KB!CardsStay, Among
<1>5. KB!IndexFresh
      BY <1>2 DEF KBInv, IndexFits, KB!IndexFresh, Fits
<1> QED BY <1>3, <1>4, <1>5

LEMMA AuthorIs ==
    ASSUME KBTyped, NEW a \in Author
    PROVE  \/ author[a] = KB!Idle /\ author[a].at = "idle"
           \/ author[a] \in Creating
           \/ author[a] \in Counting
BY DEF KBTyped, KB!Idle

LEMMA ScanIs ==
    ASSUME KBTyped, NEW f \in CardFile
    PROVE  KB!Scan(f) \in Seq(KB!Card)
BY DEF KBTyped, KB!Scan

LEMMA EmptyCounts == <<>> \in Counts /\ DOMAIN <<>> = {}
<1>1. <<>> \in [{} -> Nat]
      OBVIOUS
<1> QED BY <1>1 DEF Counts

LEMMA SeqGrows ==
    ASSUME NEW S, NEW T, S \subseteq T, NEW s \in Seq(S)
    PROVE  s \in Seq(T) /\ \A i \in 1..Len(s) : s[i] \in S
<1>1. Len(s) \in Nat /\ s = [i \in 1..Len(s) |-> s[i]] /\ \A i \in 1..Len(s) : s[i] \in S
      OBVIOUS
<1>2. s \in [1..Len(s) -> T]
      BY <1>1
<1> QED BY <1>1, <1>2

LEMMA InitKB ==
    ASSUME KnowledgeAssumption, KB!Init
    PROVE  KBInv
<1>1. \A f \in CardFile : KB!Scan(f) = Handwritten[f] /\ Handwritten[f] \in Seq(KB!Card)
  <2>1. ASSUME NEW f \in CardFile
        PROVE  KB!Scan(f) = Handwritten[f] /\ Handwritten[f] \in Seq(KB!Card)
    <3> DEFINE R == [prefix : {Prefix[g] : g \in CardFile}, number : Nat \ {0}, call : {0}]
               s == Handwritten[f]
    <3>1. s \in Seq(R)
          BY DEF KnowledgeAssumption, KB!KBAssumption
    <3>2. R \subseteq KB!Card
          BY DEF KB!Card
    <3>3. cards[f] = IF s = <<>> THEN Absent ELSE s
          BY DEF KB!Init
    <3> HIDE DEF R, s
    <3>4. s \in Seq(KB!Card)
          BY <3>1, <3>2, SeqGrows
    <3>5. s # Absent
          BY <3>4 DEF KnowledgeAssumption
    <3>6. KB!Scan(f) = s
          BY <3>3, <3>5 DEF KB!Scan
    <3> QED BY <3>4, <3>6 DEF s
  <2> QED BY <2>1
<1>2. KBTyped
  <2>1. cards \in [CardFile -> Seq(KB!Card) \cup {Absent}]
        BY <1>1 DEF KB!Init
  <2>2. author \in [Author -> {KB!Idle} \cup Creating \cup Counting]
        BY DEF KB!Init
  <2>3. \A a \in Author : author[a].at = "idle"
        BY DEF KB!Init, KB!Idle
  <2> QED BY <2>1, <2>2, <2>3 DEF KB!Init, KBTyped
<1>3. ASSUME NEW f \in CardFile PROVE Distinct(KB!Scan(f))
  <2> DEFINE R == [prefix : {Prefix[g] : g \in CardFile}, number : Nat \ {0}, call : {0}]
             s == Handwritten[f]
  <2>1. s \in Seq(R) /\ \A i, j \in 1..Len(s) : i # j => s[i] # s[j]
        BY DEF KnowledgeAssumption, KB!KBAssumption
  <2>2. \A c, d \in R : c # d => c.prefix # d.prefix \/ c.number # d.number
        OBVIOUS
  <2> HIDE DEF R, s
  <2>3. \A i \in 1..Len(s) : s[i] \in R
        BY <2>1, SeqGrows
  <2>4. Distinct(s)
        BY <2>1, <2>2, <2>3 DEF Distinct
  <2>5. KB!Scan(f) = s
        BY <1>1 DEF s
  <2> QED BY <2>4, <2>5
<1>4. \A a \in Author : author[a] = KB!Idle /\ Knows(a)
      BY DEF KB!Init, Knows, KB!Idle
<1> QED BY <1>2, <1>3, <1>4 DEF KB!Init, KBInv, Alone, AllDistinct, CreatedStay, IndexFits, KnowledgeAssumption

LEMMA UpdateIs ==
    ASSUME KBTyped, NEW a \in Author, NEW v \in {KB!Idle} \cup Creating \cup Counting,
           author' = [author EXCEPT ![a] = v]
    PROVE  /\ author' \in [Author -> {KB!Idle} \cup Creating \cup Counting]
           /\ author'[a] = v /\ \A b \in Author : b # a => author'[b] = author[b]
BY DEF KBTyped

\* A step of one command, for what it has to show where it is the only one.
LEMMA StepKeeps ==
    ASSUME KBInv, NEW a \in Author, author[a] # KB!Idle, KBTyped', quiet' = quiet,
           \A b \in Author : b # a => author'[b] = author[b],
           quiet => /\ index' # Garbled /\ Knows(a)'
                    /\ AllDistinct' /\ CreatedStay' /\ IndexFits'
    PROVE  KBInv'
<1>1. ASSUME quiet PROVE Alone' /\ \A b \in Author : Knows(b)'
  <2>1. \A b \in Author : b # a => author'[b] = KB!Idle
        BY <1>1 DEF KBInv, Alone
  <2>2. Alone'
        BY <2>1 DEF Alone, KB!Idle
  <2>3. ASSUME NEW b \in Author PROVE Knows(b)'
    <3>1. CASE b = a
          BY <1>1, <3>1
    <3>2. CASE b # a
      <4>1. author'[b].at = "idle"
            BY <2>1, <3>2 DEF KB!Idle
      <4> QED BY <4>1 DEF Knows
    <3> QED BY <3>1, <3>2
  <2> QED BY <2>2, <2>3
<1> QED BY <1>1 DEF KBInv

\* Where nobody else runs.
LEMMA OnlyOne ==
    ASSUME KBInv, quiet, NEW a \in Author, author[a] # KB!Idle
    PROVE  /\ \A b \in Author : b # a => author[b] = KB!Idle /\ author[b].at = "idle" /\ ~Recounting(b)
           /\ Knows(a) /\ index # Garbled
<1>1. \A b \in Author : b # a => author[b] = KB!Idle
      BY DEF KBInv, Alone
<1> QED BY <1>1 DEF KBInv, KB!Idle, Recounting

LEMMA SameCards ==
    ASSUME cards' = cards
    PROVE  (\A f : KB!Scan(f)' = KB!Scan(f)) /\ (AllDistinct => AllDistinct')
           /\ (\A r, t : Exact(r, t)' <=> Exact(r, t)) /\ (\A p : Fits(p)' <=> Fits(p))
BY DEF KB!Scan, AllDistinct, Exact, Fits

\* Steps that write neither file leave what was created and what is counted.
LEMMA CreatedSame ==
    ASSUME KBInv, quiet, NEW a \in Author, author[a].at # "write", cards' = cards,
           created' = created, kills' = kills,
           \A b \in Author : b # a => author'[b] = author[b]
    PROVE  CreatedStay'
<1>1. ASSUME kills' = 0, NEW c \in created'
      PROVE  \/ Among(KB!Scan(c[1]), c[2])'
             \/ \E b \in Author : /\ author'[b].at = "write" /\ author'[b].file = c[1]
                                  /\ Among(author'[b].base, c[2])
  <2>1. CASE Among(KB!Scan(c[1]), c[2])
        BY <2>1, SameCards DEF Among, KB!Scan
  <2>2. CASE \E b \in Author : /\ author[b].at = "write" /\ author[b].file = c[1]
                               /\ Among(author[b].base, c[2])
        BY <2>2
  <2> QED BY <1>1, <2>1, <2>2 DEF KBInv, CreatedStay
<1> QED BY <1>1 DEF CreatedStay, Among

LEMMA IndexSame ==
    ASSUME KBInv, quiet, NEW a \in Author, ~Recounting(a), cards' = cards,
           index' = index, fresh' = fresh,
           \A b \in Author : b # a => author'[b] = author[b]
    PROVE  IndexFits'
<1>1. CASE ~fresh
      BY <1>1 DEF IndexFits
<1>2. CASE index \in Page /\ Fits(index)
  <2>1. Fits(index)'
        BY <1>2, SameCards DEF Fits, KB!Scan
  <2>2. index' \in Page
        BY <1>2
  <2> QED BY <2>1, <2>2 DEF IndexFits, Page, Counts
<1>3. CASE \E b \in Author : Recounting(b)
      BY <1>3 DEF IndexFits, Recounting
<1> QED BY <1>1, <1>2, <1>3 DEF KBInv, IndexFits

-----------------------------------------------------------------------------
(* `kb create`. *)

LEMMA BeginKB ==
    ASSUME KnowledgeAssumption, KBInv, NEW a \in Author, KB!Begin(a)
    PROVE  KBInv'
<1>1. /\ author[a] = KB!Idle /\ calls' = calls + 1
      /\ quiet' = (quiet /\ \A b \in Author : author[b] = KB!Idle)
      /\ UNCHANGED <<cards, index, kills, created, fresh>> /\ calls \in Nat /\ KBTyped
      BY DEF KB!Begin, KBInv, KBTyped
<1>2. PICK v \in Creating \cup Counting :
        /\ author' = [author EXCEPT ![a] = v]
        /\ (v.at = "number" /\ v.base = <<>>) \/ (v.at = "ensure" /\ v.counts = <<>> /\ v.todo = CardFile)
  <2>1. CASE \E f \in CardFile :
            author' = [author EXCEPT ![a] = [at |-> "number", file |-> f,
                          card |-> [prefix |-> Prefix[f], number |-> 0, call |-> calls + 1],
                          base |-> <<>>]]
    <3>1. PICK f \in CardFile :
            author' = [author EXCEPT ![a] = [at |-> "number", file |-> f,
                          card |-> [prefix |-> Prefix[f], number |-> 0, call |-> calls + 1],
                          base |-> <<>>]]
          BY <2>1
    <3> DEFINE c == [prefix |-> Prefix[f], number |-> 0, call |-> calls + 1]
               v == [at |-> "number", file |-> f, card |-> c, base |-> <<>>]
    <3>2. c \in KB!Card
          BY <1>1 DEF KB!Card
    <3> HIDE DEF c
    <3>3. v \in Creating
          BY <3>2 DEF Creating
    <3>4. author' = [author EXCEPT ![a] = v] /\ v.at = "number" /\ v.base = <<>>
          BY <3>1 DEF c
    <3> QED BY <3>3, <3>4
  <2>2. CASE author' = [author EXCEPT ![a] = [at |-> "ensure", counts |-> <<>>,
                          todo |-> CardFile, page |-> Absent]]
    <3> DEFINE v == [at |-> "ensure", counts |-> <<>>, todo |-> CardFile, page |-> Absent]
    <3>1. v \in Counting
          BY EmptyCounts DEF Counting
    <3>2. author' = [author EXCEPT ![a] = v] /\ v.at = "ensure" /\ v.counts = <<>> /\ v.todo = CardFile
          BY <2>2
    <3> QED BY <3>1, <3>2
  <2> QED BY <2>1, <2>2 DEF KB!Begin
<1>3. /\ author' \in [Author -> {KB!Idle} \cup Creating \cup Counting]
      /\ author'[a] = v /\ \A b \in Author : b # a => author'[b] = author[b]
      BY <1>1, <1>2, UpdateIs
<1>4. KBTyped'
      BY <1>1, <1>2, <1>3 DEF KBTyped
<1>5. ASSUME quiet' PROVE /\ Alone' /\ index' # Garbled
                          /\ \A b \in Author : Knows(b)'
                          /\ AllDistinct' /\ CreatedStay' /\ IndexFits'
  <2>1. quiet /\ \A b \in Author : author[b] = KB!Idle /\ author[b].at = "idle"
    <3>1. quiet /\ \A b \in Author : author[b] = KB!Idle
          BY <1>1, <1>5, Zenon
    <3>2. KB!Idle.at = "idle"
          BY DEF KB!Idle
    <3> QED BY <3>1, <3>2
  <2>2. author[a].at = "idle" /\ ~Recounting(a)
        BY <2>1 DEF Recounting
  <2>3. CreatedStay' /\ IndexFits' /\ AllDistinct'
        BY <1>1, <1>3, <2>1, <2>2, CreatedSame, IndexSame, SameCards DEF KBInv
  <2>4. Alone'
        BY <1>3, <2>1 DEF Alone
  <2>5. ASSUME NEW b \in Author PROVE Knows(b)'
    <3>1. CASE b # a
      <4>1. author'[b].at = "idle"
            BY <1>3, <2>1, <3>1
      <4> QED BY <4>1 DEF Knows
    <3>2. CASE b = a /\ v.at = "number" /\ v.base = <<>>
      <4>1. author'[b].at = "number" /\ author'[b].base = <<>>
            BY <1>3, <3>2
      <4> QED BY <4>1 DEF Knows
    <3>3. CASE b = a /\ v.at = "ensure" /\ v.counts = <<>> /\ v.todo = CardFile
      <4>1. author'[b].at = "ensure" /\ author'[b].counts = <<>> /\ author'[b].todo = CardFile
            BY <1>3, <3>3
      <4> QED BY <4>1 DEF Knows
    <3> QED BY <1>2, <3>1, <3>2, <3>3
  <2>6. index' # Garbled
        BY <1>1, <2>1 DEF KBInv
  <2> QED BY <2>3, <2>4, <2>5, <2>6
<1> QED BY <1>4, <1>5 DEF KBInv

LEMMA HighestIsAbove ==
    ASSUME NEW s \in Seq(KB!Card), NEW p
    PROVE  LET n == 1 + KB!Max({0} \cup {s[i].number : i \in {j \in 1..Len(s) : s[j].prefix = p}})
           IN  n \in Nat /\ \A i \in 1..Len(s) : s[i].prefix = p => s[i].number < n
<1> DEFINE I == {j \in 1..Len(s) : s[j].prefix = p}
           S == {0} \cup {s[i].number : i \in I}
<1>1. Len(s) \in Nat /\ \A i \in 1..Len(s) : s[i] \in KB!Card
      BY SeqGrows
<1>2. \A i \in 1..Len(s) : s[i].number \in Nat
      BY <1>1 DEF KB!Card
<1>3. S \in SUBSET Int /\ S # {}
      BY <1>2
<1>4. IsFiniteSet(S)
  <2> DEFINE g == [i \in (1..Len(s)) \cup {0} |-> IF i = 0 THEN 0 ELSE s[i].number]
             D == (1..Len(s)) \cup {0}
  <2>1. IsFiniteSet(D)
    <3>1. IsFiniteSet(1..Len(s))
          BY <1>1, FS_Interval
    <3> QED BY <3>1, FS_AddElement
  <2> DEFINE R == {g[i] : i \in D}
  <2>2. g \in Surjection(D, R)
        BY DEF Surjection
  <2>3. IsFiniteSet(R)
    <3> HIDE DEF g, D, R
    <3> QED BY <2>1, <2>2, FS_Surjection
  <2>4. S \in SUBSET R
    <3>1. ASSUME NEW x \in S PROVE x \in R
      <4>1. CASE x = 0
        <5>1. 0 \in D /\ g[0] = 0
              OBVIOUS
        <5> QED BY <4>1, <5>1
      <4>2. CASE \E i \in I : x = s[i].number
        <5>1. PICK i \in 1..Len(s) : x = s[i].number
              BY <4>2
        <5>2. i \in D /\ i # 0 /\ g[i] = s[i].number
              BY <1>1
        <5> QED BY <5>1, <5>2
      <4> QED BY <4>1, <4>2
    <3> QED BY <3>1
  <2> HIDE DEF R, S
  <2> QED BY <2>3, <2>4, FS_Subset
<1> HIDE DEF S
<1>5. KB!Max(S) \in S /\ \A x \in S : x <= KB!Max(S)
  <2>1. \E m \in S : \A y \in S : m >= y
        BY <1>3, <1>4, LargestExists DEF Largest
  <2> QED BY <2>1 DEF KB!Max
<1>6. \A i \in I : s[i].number \in S
      BY DEF S
<1>7. \A x \in S : x \in Nat
      BY <1>2 DEF S
<1>8. KB!Max(S) \in Nat /\ \A i \in 1..Len(s) : s[i].prefix = p => s[i].number < 1 + KB!Max(S)
      BY <1>2, <1>5, <1>6, <1>7
<1>9. 1 + KB!Max(S) \in Nat
      BY <1>8
<1> QED BY <1>8, <1>9 DEF S

LEMMA BusyIs ==
    ASSUME KBTyped, NEW a \in Author
    PROVE  /\ author[a].at \in {"number", "look", "read", "truncate", "write"} =>
                author[a] \in Creating /\ author[a] # KB!Idle
           /\ author[a].at \in {"ensure", "walk", "recount", "clear", "store"} =>
                author[a] \in Counting /\ author[a] # KB!Idle
<1>1. author[a] = KB!Idle => author[a].at = "idle"
      BY DEF KB!Idle
<1>2. author[a] \in Creating => author[a].at \in {"number", "look", "read", "truncate", "write"}
      BY DEF Creating
<1>3. author[a] \in Counting => author[a].at \in {"ensure", "walk", "recount", "clear", "store"}
      BY DEF Counting
<1>4. author[a] \in {KB!Idle} \cup Creating \cup Counting
      BY DEF KBTyped
<1> QED BY <1>1, <1>2, <1>3, <1>4

LEMMA NumberKB ==
    ASSUME KBInv, NEW a \in Author, KB!Number(a)
    PROVE  KBInv'
<1> DEFINE j == author[a]
           n == KB!nextNumber(j.file, j.card.prefix)
           c == [j.card EXCEPT !.number = n]
           v == [j EXCEPT !.at = "look", !.card = c]
<1>1. /\ KBTyped /\ j.at = "number" /\ j \in Creating /\ j # KB!Idle
      /\ UNCHANGED <<cards, index, calls, kills, quiet, created, fresh>>
      BY BusyIs DEF KB!Number, KBInv
<1>2. author' = [author EXCEPT ![a] = v]
  <2>1. author' = [author EXCEPT ![a].at = "look",
                      ![a].card.number = KB!nextNumber(author[a].file, author[a].card.prefix)]
        BY DEF KB!Number
  <2> QED BY <2>1
<1>3. j.file \in CardFile /\ j.card \in KB!Card
      BY <1>1 DEF Creating
<1>4. n \in Nat /\ \A i \in 1..Len(KB!Scan(j.file)) :
          KB!Scan(j.file)[i].prefix = j.card.prefix => KB!Scan(j.file)[i].number < n
  <2>1. KB!Scan(j.file) \in Seq(KB!Card)
        BY <1>1, <1>3, ScanIs
  <2> QED BY <2>1, HighestIsAbove DEF KB!nextNumber
<1> HIDE DEF n
<1>5. c \in KB!Card /\ c.prefix = j.card.prefix /\ c.number = n
      BY <1>3, <1>4 DEF KB!Card
<1> HIDE DEF c
<1>6. v \in Creating /\ v.at = "look" /\ v.file = j.file /\ v.card = c /\ v.base = j.base
      BY <1>1, <1>5 DEF Creating
<1> HIDE DEF v
<1>7. /\ author' \in [Author -> {KB!Idle} \cup Creating \cup Counting]
      /\ author'[a] = v /\ \A b \in Author : b # a => author'[b] = author[b]
      BY <1>1, <1>2, <1>6, UpdateIs
<1>8. KBTyped'
      BY <1>1, <1>6, <1>7 DEF KBTyped
<1>9. ASSUME quiet PROVE /\ index' # Garbled /\ Knows(a)'
                         /\ AllDistinct' /\ CreatedStay' /\ IndexFits'
  <2>1. author[a].at # "write" /\ ~Recounting(a)
        BY <1>1 DEF Recounting
  <2>2. CreatedStay' /\ IndexFits' /\ AllDistinct'
        BY <1>1, <1>7, <1>9, <2>1, CreatedSame, IndexSame, SameCards DEF KBInv
  <2>3. Above(c, KB!Scan(j.file))
        BY <1>4, <1>5 DEF Above
  <2>4. /\ author'[a].at = "look" /\ author'[a].file = j.file /\ author'[a].card = c
        /\ author'[a].base = <<>>
    <3>1. j.base = <<>>
          BY <1>1, <1>9, OnlyOne DEF Knows
    <3> QED BY <1>6, <1>7, <3>1
  <2>5. Knows(a)'
        BY <1>1, <2>3, <2>4 DEF Knows, Above, KB!Scan
  <2> QED BY <1>1, <1>9, <2>2, <2>5 DEF KBInv
<1> QED BY <1>1, <1>7, <1>8, <1>9, StepKeeps

LEMMA LookKB ==
    ASSUME KBInv, NEW a \in Author, KB!Look(a)
    PROVE  KBInv'
<1> DEFINE j == author[a]
           l == IF cards[j.file] = Absent THEN "truncate" ELSE "read"
           v == [j EXCEPT !.at = l]
<1>1. /\ KBTyped /\ j.at = "look" /\ j \in Creating /\ j # KB!Idle
      /\ UNCHANGED <<cards, index, calls, kills, quiet, created, fresh>>
      BY BusyIs DEF KB!Look, KBInv
<1>2. author' = [author EXCEPT ![a] = v]
      BY DEF KB!Look, KB!goto
<1>3. v \in Creating /\ v.at = l /\ v.file = j.file /\ v.card = j.card /\ v.base = j.base
      BY <1>1 DEF Creating
<1> HIDE DEF v
<1>4. /\ author' \in [Author -> {KB!Idle} \cup Creating \cup Counting]
      /\ author'[a] = v /\ \A b \in Author : b # a => author'[b] = author[b]
      BY <1>1, <1>2, <1>3, UpdateIs
<1>5. KBTyped'
      BY <1>1, <1>3, <1>4 DEF KBTyped
<1>6. ASSUME quiet PROVE /\ index' # Garbled /\ Knows(a)'
                         /\ AllDistinct' /\ CreatedStay' /\ IndexFits'
  <2>1. author[a].at # "write" /\ ~Recounting(a)
        BY <1>1 DEF Recounting
  <2>2. CreatedStay' /\ IndexFits' /\ AllDistinct'
        BY <1>1, <1>4, <1>6, <2>1, CreatedSame, IndexSame, SameCards DEF KBInv
  <2>3. Above(j.card, KB!Scan(j.file)) /\ j.base = <<>>
        BY <1>1, <1>6, OnlyOne DEF Knows
  <2>4. /\ author'[a].at = l /\ author'[a].file = j.file /\ author'[a].card = j.card
        /\ author'[a].base = <<>>
        BY <1>3, <1>4, <2>3
  <2>5. l = "truncate" => KB!Scan(j.file) = <<>>
        BY DEF KB!Scan
  <2>6. Above(j.card, KB!Scan(j.file))'
        BY <1>1, <2>3, <2>4 DEF Above, KB!Scan
  <2>7. Knows(a)'
        BY <1>1, <2>3, <2>4, <2>5 DEF Knows, Above, KB!Scan
  <2> QED BY <1>1, <1>6, <2>2, <2>7 DEF KBInv
<1> QED BY <1>1, <1>4, <1>5, <1>6, StepKeeps

LEMMA ReadKB ==
    ASSUME KBInv, NEW a \in Author, KB!Read(a)
    PROVE  KBInv'
<1> DEFINE j == author[a]
           s == KB!Scan(j.file)
           v == [j EXCEPT !.at = "truncate", !.base = s]
<1>1. /\ KBTyped /\ j.at = "read" /\ j \in Creating /\ j # KB!Idle
      /\ UNCHANGED <<cards, index, calls, kills, quiet, created, fresh>>
      BY BusyIs DEF KB!Read, KBInv
<1>2. author' = [author EXCEPT ![a] = v]
      BY DEF KB!Read
<1>3. s \in Seq(KB!Card)
      BY <1>1, ScanIs DEF Creating
<1>4. v \in Creating /\ v.at = "truncate" /\ v.file = j.file /\ v.card = j.card /\ v.base = s
  <2> HIDE DEF s
  <2> QED BY <1>1, <1>3 DEF Creating
<1> HIDE DEF v
<1>5. /\ author' \in [Author -> {KB!Idle} \cup Creating \cup Counting]
      /\ author'[a] = v /\ \A b \in Author : b # a => author'[b] = author[b]
      BY <1>1, <1>2, <1>4, UpdateIs
<1>6. KBTyped'
      BY <1>1, <1>4, <1>5 DEF KBTyped
<1>7. ASSUME quiet PROVE /\ index' # Garbled /\ Knows(a)'
                         /\ AllDistinct' /\ CreatedStay' /\ IndexFits'
  <2>1. author[a].at # "write" /\ ~Recounting(a)
        BY <1>1 DEF Recounting
  <2>2. CreatedStay' /\ IndexFits' /\ AllDistinct'
        BY <1>1, <1>5, <1>7, <2>1, CreatedSame, IndexSame, SameCards DEF KBInv
  <2>3. Above(j.card, s)
        BY <1>1, <1>7, OnlyOne DEF Knows
  <2>4. /\ author'[a].at = "truncate" /\ author'[a].file = j.file /\ author'[a].card = j.card
        /\ author'[a].base = s
        BY <1>4, <1>5
  <2>5. Knows(a)'
        BY <1>1, <2>3, <2>4 DEF Knows, Above, KB!Scan
  <2> QED BY <1>1, <1>7, <2>2, <2>5 DEF KBInv
<1> QED BY <1>1, <1>5, <1>6, <1>7, StepKeeps

\* A card with a number beyond those there makes no two alike.
LEMMA AppendDistinct ==
    ASSUME NEW s \in Seq(KB!Card), NEW c \in KB!Card, Distinct(s), Above(c, s)
    PROVE  /\ Distinct(Append(s, c)) /\ Append(s, c) \in Seq(KB!Card) /\ Among(Append(s, c), c)
           /\ \A d : Among(s, d) => Among(Append(s, c), d)
<1> DEFINE r == Append(s, c)
<1>1. /\ r \in Seq(KB!Card) /\ Len(s) \in Nat /\ Len(r) = Len(s) + 1 /\ r[Len(s) + 1] = c
      /\ \A i \in 1..Len(s) : r[i] = s[i]
      OBVIOUS
<1> HIDE DEF r
<1>2. \A i \in 1..Len(s) : s[i].number \in Nat
  <2>1. \A i \in 1..Len(s) : s[i] \in KB!Card
        BY SeqGrows
  <2> QED BY <2>1 DEF KB!Card
<1>3. c.number \in Nat
      BY DEF KB!Card
<1>4. \A i \in 1..Len(r) : i \in 1..Len(s) \/ i = Len(s) + 1
      BY <1>1
<1>5. \A i \in 1..Len(s) : s[i].prefix # c.prefix \/ s[i].number # c.number
      BY <1>2, <1>3 DEF Above
<1>6. Distinct(r)
  <2>1. ASSUME NEW i \in 1..Len(r), NEW k \in 1..Len(r), i # k
        PROVE  r[i].prefix # r[k].prefix \/ r[i].number # r[k].number
    <3>1. CASE i \in 1..Len(s) /\ k \in 1..Len(s)
          BY <1>1, <2>1, <3>1 DEF Distinct
    <3>2. CASE i \in 1..Len(s) /\ k = Len(s) + 1
          BY <1>1, <1>5, <3>2
    <3>3. CASE i = Len(s) + 1 /\ k \in 1..Len(s)
          BY <1>1, <1>5, <3>3
    <3> QED BY <1>4, <2>1, <3>1, <3>2, <3>3
  <2> QED BY <2>1 DEF Distinct
<1>7. Len(s) + 1 \in 1..Len(r) /\ \A i \in 1..Len(s) : i \in 1..Len(r)
      BY <1>1
<1>8. Among(r, c) /\ \A d : Among(s, d) => Among(r, d)
      BY <1>1, <1>7 DEF Among
<1> QED BY <1>1, <1>6, <1>8 DEF r

LEMMA CardsChange ==
    ASSUME KBTyped, NEW f \in CardFile, NEW s \in Seq(KB!Card), KnowledgeAssumption,
           cards' = [cards EXCEPT ![f] = s]
    PROVE  /\ cards' \in [CardFile -> Seq(KB!Card) \cup {Absent}]
           /\ cards'[f] = s /\ KB!Scan(f)' = s
           /\ \A g \in CardFile : g # f => KB!Scan(g)' = KB!Scan(g)
<1>1. s # Absent
      BY DEF KnowledgeAssumption
<1>2. cards \in [CardFile -> Seq(KB!Card) \cup {Absent}]
      BY DEF KBTyped
<1>3. cards'[f] = s /\ \A g \in CardFile : g # f => cards'[g] = cards[g]
      BY <1>2
<1> QED BY <1>1, <1>2, <1>3 DEF KB!Scan

LEMMA TruncateKB ==
    ASSUME KnowledgeAssumption, KBInv, NEW a \in Author, KB!Truncate(a)
    PROVE  KBInv'
<1> DEFINE j == author[a]
           v == [j EXCEPT !.at = "write"]
<1>1. /\ KBTyped /\ j.at = "truncate" /\ j \in Creating /\ j # KB!Idle
      /\ UNCHANGED <<index, calls, kills, quiet, created>> /\ fresh' = FALSE
      BY BusyIs DEF KB!Truncate, KBInv
<1>2. author' = [author EXCEPT ![a] = v]
      BY DEF KB!Truncate, KB!goto
<1>0. PICK f \in CardFile : f = j.file
      BY <1>1 DEF Creating
<1>3. /\ v \in Creating /\ v.at = "write" /\ v.file = f /\ v.card = j.card /\ v.base = j.base
      BY <1>0, <1>1 DEF Creating
<1> HIDE DEF v
<1>4. /\ author' \in [Author -> {KB!Idle} \cup Creating \cup Counting]
      /\ author'[a] = v /\ \A b \in Author : b # a => author'[b] = author[b]
      BY <1>1, <1>2, <1>3, UpdateIs
<1>5. /\ cards' \in [CardFile -> Seq(KB!Card) \cup {Absent}]
      /\ cards'[f] = <<>> /\ KB!Scan(f)' = <<>>
      /\ \A g \in CardFile : g # f => KB!Scan(g)' = KB!Scan(g)
  <2> DEFINE s == <<>>
  <2>1. s \in Seq(KB!Card) /\ cards' = [cards EXCEPT ![f] = s]
        BY <1>0 DEF KB!Truncate
  <2> HIDE DEF s
  <2>2. /\ cards' \in [CardFile -> Seq(KB!Card) \cup {Absent}]
        /\ cards'[f] = s /\ KB!Scan(f)' = s
        /\ \A g \in CardFile : g # f => KB!Scan(g)' = KB!Scan(g)
        BY <1>1, <2>1, CardsChange
  <2> QED BY <2>2 DEF s
<1>6. KBTyped'
  <2>1. \A b \in Author : author'[b].at = "write" => cards'[author'[b].file] # Absent
    <3>1. Absent # <<>>
      <4>1. <<>> \in Seq(KB!Card)
            OBVIOUS
      <4> QED BY <4>1 DEF KnowledgeAssumption
    <3>2. ASSUME NEW b \in Author, author'[b].at = "write" PROVE cards'[author'[b].file] # Absent
      <4>1. CASE b = a
            BY <1>3, <1>4, <1>5, <3>1, <4>1
      <4>2. CASE b # a
        <5>1. author[b].at = "write" /\ cards[author[b].file] # Absent
              BY <1>1, <1>4, <3>2, <4>2 DEF KBTyped
        <5>2. cards' = [cards EXCEPT ![f] = <<>>]
              BY <1>0 DEF KB!Truncate
        <5>3. author[b].file \in CardFile
              BY <1>1, <5>1, BusyIs DEF Creating
        <5> QED BY <1>1, <1>4, <3>1, <4>2, <5>1, <5>2, <5>3 DEF KBTyped
      <4> QED BY <4>1, <4>2
    <3> QED BY <3>2
  <2> QED BY <1>1, <1>4, <1>5, <2>1 DEF KBTyped
<1>7. ASSUME quiet PROVE /\ index' # Garbled /\ Knows(a)'
                         /\ AllDistinct' /\ CreatedStay' /\ IndexFits'
  <2>1. j.base = KB!Scan(f) /\ Above(j.card, KB!Scan(f)) /\ index # Garbled
        BY <1>0, <1>1, <1>7, OnlyOne DEF Knows
  <2>2. \A g \in CardFile : Distinct(KB!Scan(g))
        BY <1>7 DEF KBInv, AllDistinct
  <2>3. /\ author'[a].at = "write" /\ author'[a].file = f /\ author'[a].card = j.card
        /\ author'[a].base = j.base
        BY <1>3, <1>4
  <2>4. Knows(a)'
    <3>1. Distinct(j.base) /\ Above(j.card, j.base)
          BY <2>1, <2>2
    <3>2. Distinct(author'[a].base) /\ Above(author'[a].card, author'[a].base)
          BY <2>3, <3>1
    <3> QED BY <1>5, <2>3, <3>2 DEF Knows, Above, Distinct
  <2>5. AllDistinct'
    <3>1. ASSUME NEW g \in CardFile PROVE Distinct(KB!Scan(g))'
      <4>1. CASE g = f
            BY <1>5, <4>1 DEF Distinct
      <4>2. CASE g # f
            BY <1>5, <2>2, <4>2 DEF Distinct
      <4> QED BY <4>1, <4>2
    <3> QED BY <3>1 DEF AllDistinct
  <2>6. IndexFits'
        BY <1>1 DEF IndexFits
  <2>7. CreatedStay'
    <3>1. ASSUME kills' = 0, NEW c \in created'
          PROVE  \/ Among(KB!Scan(c[1]), c[2])'
                 \/ \E b \in Author : /\ author'[b].at = "write" /\ author'[b].file = c[1]
                                      /\ Among(author'[b].base, c[2])
      <4>1. Among(KB!Scan(c[1]), c[2]) /\ c[1] \in CardFile
        <5>1. c \in CardFile \X KB!Card /\ kills = 0 /\ c \in created
              BY <1>1, <3>1 DEF KBTyped
        <5>2. ~\E b \in Author : author[b].at = "write"
              BY <1>1, <1>7, OnlyOne
        <5> QED BY <1>7, <5>1, <5>2 DEF KBInv, CreatedStay
      <4>2. CASE c[1] = f
        <5>1. Among(author'[a].base, c[2])
              BY <2>1, <2>3, <4>1, <4>2
        <5> QED BY <2>3, <4>2, <5>1
      <4>3. CASE c[1] # f
        <5>1. KB!Scan(c[1])' = KB!Scan(c[1])
              BY <1>5, <4>1, <4>3
        <5> QED BY <4>1, <5>1 DEF Among
      <4> QED BY <4>2, <4>3
    <3> QED BY <3>1 DEF CreatedStay, Among
  <2> QED BY <1>1, <2>1, <2>4, <2>5, <2>6, <2>7
<1> QED BY <1>1, <1>4, <1>6, <1>7, StepKeeps

LEMMA OverlaidTyped ==
    ASSUME NEW s \in Seq(KB!Card), NEW r \in Seq(KB!Card), NEW x \in KB!overlaid(s, r)
    PROVE  x \in Seq(KB!Card) /\ (s = <<>> => x = r)
<1>1. CASE x = r
      BY <1>1
<1>2. CASE \E i \in 2..Len(s) : x = r \o SubSeq(s, i, Len(s))
  <2>1. PICK i \in 2..Len(s) : x = r \o SubSeq(s, i, Len(s))
        BY <1>2
  <2>2. Len(s) \in Nat /\ i \in 1..Len(s) /\ Len(s) \in 1..Len(s)
        BY <2>1
  <2>3. SubSeq(s, i, Len(s)) \in Seq(KB!Card)
        BY <2>2
  <2>4. s # <<>>
        BY <2>2
  <2> QED BY <2>1, <2>3, <2>4
<1> QED BY <1>1, <1>2 DEF KB!overlaid

LEMMA WriteKB ==
    ASSUME KnowledgeAssumption, KBInv, NEW a \in Author, KB!Write(a)
    PROVE  KBInv'
<1> DEFINE j == author[a]
           r == Append(j.base, j.card)
<1>1. /\ KBTyped /\ j.at = "write" /\ j \in Creating /\ j # KB!Idle
      /\ UNCHANGED <<index, calls, kills, quiet>> /\ fresh' = FALSE
      BY BusyIs DEF KB!Write, KBInv
<1>0. PICK f \in CardFile : f = j.file
      BY <1>1 DEF Creating
<1>2. author' = [author EXCEPT ![a] = KB!Idle] /\ created' = created \cup {<<f, j.card>>}
      BY <1>0 DEF KB!Write, KB!finish
<1>3. j.base \in Seq(KB!Card) /\ j.card \in KB!Card /\ r \in Seq(KB!Card)
      BY <1>1 DEF Creating
<1>4. /\ author' \in [Author -> {KB!Idle} \cup Creating \cup Counting]
      /\ author'[a] = KB!Idle /\ \A b \in Author : b # a => author'[b] = author[b]
      BY <1>1, <1>2, UpdateIs
<1>5. PICK x \in KB!overlaid(cards[f], r) : cards' = [cards EXCEPT ![f] = x]
      BY <1>0 DEF KB!Write
<1>6. cards[f] \in Seq(KB!Card)
  <2>1. cards[f] \in Seq(KB!Card) \cup {Absent} /\ cards[f] # Absent
        BY <1>0, <1>1 DEF KBTyped
  <2> QED BY <2>1
<1> HIDE DEF r
<1>7. x \in Seq(KB!Card) /\ (cards[f] = <<>> => x = r)
  <2> DEFINE s == cards[f]
  <2>1. s \in Seq(KB!Card) /\ r \in Seq(KB!Card) /\ x \in KB!overlaid(s, r)
        BY <1>3, <1>6
  <2> HIDE DEF s
  <2>2. x \in Seq(KB!Card) /\ (s = <<>> => x = r)
        BY <2>1, OverlaidTyped
  <2> QED BY <2>2 DEF s
<1>8. /\ cards' \in [CardFile -> Seq(KB!Card) \cup {Absent}]
      /\ cards'[f] = x /\ KB!Scan(f)' = x
      /\ \A g \in CardFile : g # f => KB!Scan(g)' = KB!Scan(g)
      BY <1>1, <1>5, <1>7, CardsChange
<1>9. KBTyped'
  <2>1. \A b \in Author : author'[b].at = "write" => cards'[author'[b].file] # Absent
    <3>1. Absent # x
          BY <1>7 DEF KnowledgeAssumption
    <3>2. ASSUME NEW b \in Author, author'[b].at = "write" PROVE cards'[author'[b].file] # Absent
      <4>1. b # a
            BY <1>4, <3>2 DEF KB!Idle
      <4>2. author[b].at = "write" /\ cards[author[b].file] # Absent
            BY <1>1, <1>4, <3>2, <4>1 DEF KBTyped
      <4>3. author[b].file \in CardFile
            BY <1>1, <4>2, BusyIs DEF Creating
      <4> QED BY <1>1, <1>4, <1>5, <3>1, <4>1, <4>2, <4>3 DEF KBTyped
    <3> QED BY <3>2
  <2>2. created' \in SUBSET (CardFile \X KB!Card)
        BY <1>1, <1>2, <1>3 DEF KBTyped
  <2> QED BY <1>1, <1>4, <1>8, <2>1, <2>2 DEF KBTyped
<1>10. ASSUME quiet PROVE /\ index' # Garbled /\ Knows(a)'
                          /\ AllDistinct' /\ CreatedStay' /\ IndexFits'
  <2>1. cards[f] = <<>> /\ Distinct(j.base) /\ Above(j.card, j.base) /\ index # Garbled
        BY <1>0, <1>1, <1>10, OnlyOne DEF Knows
  <2>2. x = r
        BY <1>7, <2>1
  <2>3. /\ Distinct(r) /\ Among(r, j.card) /\ \A d : Among(j.base, d) => Among(r, d)
    <3> DEFINE s == j.base
               c == j.card
    <3>1. s \in Seq(KB!Card) /\ c \in KB!Card /\ Distinct(s) /\ Above(c, s) /\ r = Append(s, c)
          BY <1>3, <2>1 DEF r
    <3> HIDE DEF s, c
    <3>2. Distinct(r) /\ Among(r, c) /\ \A d : Among(s, d) => Among(r, d)
          BY <3>1, AppendDistinct
    <3> QED BY <3>2 DEF s, c
  <2>4. author'[a].at = "idle"
        BY <1>4 DEF KB!Idle
  <2>5. Knows(a)'
        BY <2>4 DEF Knows
  <2>6. AllDistinct'
    <3>1. ASSUME NEW g \in CardFile PROVE Distinct(KB!Scan(g))'
      <4>0. Distinct(KB!Scan(g))
            BY <1>10 DEF KBInv, AllDistinct
      <4>1. KB!Scan(g)' = IF g = f THEN x ELSE KB!Scan(g)
            BY <1>8
      <4>2. Distinct(IF g = f THEN x ELSE KB!Scan(g))
            BY <2>2, <2>3, <4>0
      <4> QED BY <4>1, <4>2 DEF Distinct
    <3> QED BY <3>1 DEF AllDistinct
  <2>7. IndexFits'
        BY <1>1 DEF IndexFits
  <2>8. CreatedStay'
    <3>1. ASSUME kills' = 0, NEW c \in created' PROVE Among(KB!Scan(c[1]), c[2])'
      <4>1. CASE c = <<f, j.card>>
        <5>1. c[1] = f /\ c[2] = j.card
              BY <4>1
        <5> QED BY <1>8, <2>2, <2>3, <5>1 DEF Among
      <4>2. CASE c \in created
        <5>1. c \in CardFile \X KB!Card /\ kills = 0
              BY <1>1, <3>1, <4>2 DEF KBTyped
        <5>2. \/ Among(KB!Scan(c[1]), c[2])
              \/ c[1] = f /\ Among(j.base, c[2])
          <6>1. \A b \in Author : author[b].at = "write" => b = a
                BY <1>1, <1>10, OnlyOne
          <6> QED BY <1>0, <1>10, <4>2, <5>1, <6>1 DEF KBInv, CreatedStay
        <5>3. c[1] \in CardFile /\ KB!Scan(f) = <<>>
              BY <1>6, <2>1, <5>1 DEF KB!Scan
        <5>4. CASE c[1] = f
          <6>1. Among(r, c[2])
                BY <2>3, <5>2, <5>3, <5>4 DEF Among
          <6> QED BY <1>8, <2>2, <5>4, <6>1 DEF Among
        <5>5. CASE c[1] # f
          <6>1. KB!Scan(c[1])' = KB!Scan(c[1])
                BY <1>8, <5>3, <5>5
          <6> QED BY <5>2, <5>5, <6>1 DEF Among
        <5> QED BY <5>4, <5>5
      <4> QED BY <1>2, <3>1, <4>1, <4>2
    <3> QED BY <3>1 DEF CreatedStay, Among
  <2> QED BY <1>1, <2>1, <2>5, <2>6, <2>7, <2>8
<1> QED BY <1>1, <1>4, <1>9, <1>10, StepKeeps

(* `kb rebuild`. *)

\* A step of a rebuild writes no cards.
LEMMA RebuildKeeps ==
    ASSUME KBInv, NEW a \in Author, NEW v \in {KB!Idle} \cup Counting, author[a] \in Counting,
           author' = [author EXCEPT ![a] = v], UNCHANGED <<cards, calls, kills, quiet, created>>,
           index' \in Page \cup {Absent, Garbled},
           quiet => index' # Garbled /\ Knows(a)' /\ IndexFits'
    PROVE  KBInv'
<1>1. KBTyped /\ author[a] # KB!Idle /\ author[a].at # "write" /\ v.at # "write"
      BY DEF KBInv, Counting, KB!Idle
<1>2. /\ author' \in [Author -> {KB!Idle} \cup Creating \cup Counting]
      /\ author'[a] = v /\ \A b \in Author : b # a => author'[b] = author[b]
      BY <1>1, UpdateIs
<1>3. KBTyped'
      BY <1>1, <1>2 DEF KBTyped, Page, Counts
<1>4. quiet => AllDistinct' /\ CreatedStay'
      BY <1>1, <1>2, CreatedSame, SameCards DEF KBInv
<1> QED BY <1>1, <1>2, <1>3, <1>4, StepKeeps

LEMMA EnsureKB ==
    ASSUME KnowledgeAssumption, KBInv, NEW a \in Author, KB!Ensure(a)
    PROVE  KBInv'
<1> DEFINE j == author[a]
           v == [j EXCEPT !.at = "walk"]
<1>1. /\ KBTyped /\ j.at = "ensure" /\ j \in Counting /\ j # KB!Idle
      /\ UNCHANGED <<cards, calls, kills, quiet, created, fresh>>
      /\ index' = IF index = Absent THEN KB!emptyIndex ELSE index
      BY BusyIs DEF KB!Ensure, KBInv
<1>2. author' = [author EXCEPT ![a] = v]
      BY DEF KB!Ensure, KB!goto
<1>3. v \in Counting /\ v.at = "walk" /\ v.counts = j.counts /\ v.todo = j.todo
      BY <1>1 DEF Counting
<1> HIDE DEF v
<1>4. author'[a] = v
      BY <1>1, <1>2 DEF KBTyped
<1>5. KB!emptyIndex \in Page
      BY EmptyCounts DEF Page, KB!emptyIndex
<1>6. index' \in Page \cup {Absent, Garbled}
      BY <1>1, <1>5 DEF KBTyped
<1>7. ASSUME quiet PROVE index' # Garbled /\ Knows(a)' /\ IndexFits'
  <2>1. j.todo = CardFile /\ j.counts = <<>> /\ index # Garbled
        BY <1>1, <1>7, OnlyOne DEF Knows
  <2>2. index' \in Page /\ index' # Garbled
    <3>1. KB!emptyIndex # Garbled
          BY DEF KB!emptyIndex, KnowledgeAssumption
    <3> QED BY <1>1, <1>5, <2>1, <3>1 DEF KBTyped
  <2>3. Exact(<<>>, CardFile)
        BY EmptyCounts DEF Exact
  <2>4. Knows(a)'
    <3>1. author'[a].at = "walk" /\ author'[a].todo = CardFile /\ author'[a].counts = <<>>
          BY <1>3, <1>4, <2>1
    <3>2. Exact(<<>>, CardFile)'
          BY <1>1, <2>3, SameCards
    <3> QED BY <2>2, <3>1, <3>2 DEF Knows, Exact, Page, Counts
  <2>5. IndexFits'
    <3>1. fresh => index \in Page /\ Fits(index)
      <4>1. ~Recounting(a) /\ \A b \in Author : b # a => ~Recounting(b)
            BY <1>1, <1>7, OnlyOne DEF Recounting
      <4> QED BY <1>7, <4>1 DEF KBInv, IndexFits
    <3>2. index \in Page => index # Absent
          BY DEF Page, KnowledgeAssumption
    <3>3. fresh => index' = index /\ Fits(index)
          BY <1>1, <3>1, <3>2
    <3>4. fresh' => index' \in Page /\ Fits(index)'
          BY <1>1, <2>2, <3>3, SameCards DEF Fits, KB!Scan
    <3> QED BY <3>4 DEF IndexFits, Page, Counts
  <2> QED BY <2>2, <2>4, <2>5
<1> QED BY <1>1, <1>2, <1>3, <1>6, <1>7, RebuildKeeps

\* What the walk has counted with one file more.
LEMMA WalkCounts ==
    ASSUME KBTyped, NEW c \in Counts, NEW todo \in SUBSET CardFile, NEW f \in todo,
           NEW d, d = IF Len(KB!Scan(f)) = 0 THEN c
                      ELSE [g \in DOMAIN c \cup {f} |-> IF g = f THEN Len(KB!Scan(f)) ELSE c[g]]
    PROVE  d \in Counts /\ (Exact(c, todo) => Exact(d, todo \ {f}))
<1>1. KB!Scan(f) \in Seq(KB!Card)
      BY ScanIs
<1>2. Len(KB!Scan(f)) \in Nat /\ (Len(KB!Scan(f)) = 0 <=> KB!Scan(f) = <<>>)
      BY <1>1
<1>3. PICK D \in SUBSET CardFile : c \in [D -> Nat]
      BY DEF Counts
<1>4. CASE Len(KB!Scan(f)) = 0
  <2>1. d = c
        BY <1>4
  <2> QED BY <1>2, <1>4, <2>1 DEF Exact
<1>5. CASE Len(KB!Scan(f)) # 0
  <2>1. d = [g \in D \cup {f} |-> IF g = f THEN Len(KB!Scan(f)) ELSE c[g]]
        BY <1>3, <1>5
  <2>2. d \in [D \cup {f} -> Nat] /\ D \cup {f} \in SUBSET CardFile
        BY <1>2, <1>3, <2>1
  <2>3. d \in Counts
        BY <2>2 DEF Counts
  <2>4. DOMAIN d = D \cup {f} /\ DOMAIN c = D
        BY <1>3, <2>1
  <2>5. /\ d[f] = Len(KB!Scan(f))
        /\ \A g \in D : g # f => d[g] = c[g]
        BY <2>1
  <2>6. Exact(c, todo) => Exact(d, todo \ {f})
        BY <1>2, <1>5, <2>4, <2>5 DEF Exact
  <2> QED BY <2>3, <2>6
<1> QED BY <1>4, <1>5

LEMMA WalkKB ==
    ASSUME KnowledgeAssumption, KBInv, NEW a \in Author, KB!Walk(a)
    PROVE  KBInv'
<1> DEFINE j == author[a]
<1>1. /\ KBTyped /\ j.at = "walk" /\ j \in Counting /\ j # KB!Idle
      /\ UNCHANGED <<cards, index, calls, kills, quiet, created>>
      /\ fresh' = IF j.todo = CardFile THEN TRUE ELSE fresh
      BY BusyIs DEF KB!Walk, KBInv
<1>2. j.counts \in Counts /\ j.todo \in SUBSET CardFile /\ j.page \in Page \cup {Absent, Garbled}
      BY <1>1 DEF Counting
<1>3. PICK f \in j.todo :
        author' = [author EXCEPT
            ![a].todo = j.todo \ {f},
            ![a].at = IF j.todo = {f} THEN "recount" ELSE "walk",
            ![a].counts = IF Len(KB!Scan(f)) = 0 THEN j.counts
                          ELSE [g \in DOMAIN j.counts \cup {f} |->
                                  IF g = f THEN Len(KB!Scan(f)) ELSE j.counts[g]]]
  <2>1. PICK f \in j.todo :
          LET n == Len(KB!Scan(f))
          IN  author' = [author EXCEPT
                ![a].todo = @ \ {f},
                ![a].at = IF author[a].todo = {f} THEN "recount" ELSE "walk",
                ![a].counts = IF n = 0 THEN @
                              ELSE [g \in DOMAIN @ \cup {f} |-> IF g = f THEN n ELSE @[g]]]
        BY DEF KB!Walk
  <2> QED BY <2>1
<1> DEFINE rest == j.todo \ {f}
           l == IF j.todo = {f} THEN "recount" ELSE "walk"
           d == IF Len(KB!Scan(f)) = 0 THEN j.counts
                ELSE [g \in DOMAIN j.counts \cup {f} |->
                        IF g = f THEN Len(KB!Scan(f)) ELSE j.counts[g]]
           v == [j EXCEPT !.todo = rest, !.at = l, !.counts = d]
<1>4. author' = [author EXCEPT ![a] = v]
      BY <1>3
<1>5. d \in Counts /\ (Exact(j.counts, j.todo) => Exact(d, rest))
  <2> DEFINE c == j.counts
             t == j.todo
             e == d
  <2>1. /\ c \in Counts /\ t \in SUBSET CardFile /\ f \in t
        /\ e = IF Len(KB!Scan(f)) = 0 THEN c
               ELSE [g \in DOMAIN c \cup {f} |-> IF g = f THEN Len(KB!Scan(f)) ELSE c[g]]
        BY <1>2
  <2> HIDE DEF c, t, e
  <2>2. e \in Counts /\ (Exact(c, t) => Exact(e, t \ {f}))
        BY <1>1, <2>1, WalkCounts
  <2> QED BY <2>2 DEF c, t, e
<1> HIDE DEF d
<1>6. v \in Counting /\ v.at = l /\ v.todo = rest /\ v.counts = d
      BY <1>1, <1>2, <1>5 DEF Counting
<1> HIDE DEF v
<1>7. author'[a] = v
      BY <1>1, <1>4 DEF KBTyped
<1>8. ASSUME quiet PROVE index' # Garbled /\ Knows(a)' /\ IndexFits'
  <2>1. Exact(j.counts, j.todo) /\ index \in Page /\ index # Garbled
        BY <1>1, <1>8, OnlyOne DEF Knows
  <2>2. author'[a].at = l /\ author'[a].todo = rest /\ author'[a].counts = d
        BY <1>6, <1>7
  <2>3. Exact(d, rest)
        BY <1>5, <2>1
  <2>4. l = "recount" => rest = {}
        OBVIOUS
  <2>5. Knows(a)'
    <3>1. Exact(author'[a].counts, author'[a].todo)
          BY <2>2, <2>3
    <3>2. author'[a].at = "recount" => author'[a].todo = {}
          BY <2>2, <2>4
    <3> QED BY <1>1, <2>1, <2>2, <3>1, <3>2 DEF Knows, Exact, KB!Scan, Page, Counts
  <2>6. Recounting(a)'
        BY <1>2, <1>3, <2>2 DEF Recounting
  <2>7. IndexFits'
        BY <2>6 DEF IndexFits
  <2> QED BY <1>1, <2>1, <2>5, <2>7
<1> QED BY <1>1, <1>4, <1>6, <1>8, RebuildKeeps DEF KBTyped

\* INDEX.md is there once a rebuild has seen to it.
Ensured ==
    \A a \in Author :
        /\ author[a].at \in {"walk", "recount"} => index # Absent
        /\ author[a].at \in {"clear", "store"} => author[a].page # Absent

LEMMA RecountedIsPage ==
    ASSUME NEW p \in Page, NEW c \in Counts
    PROVE  /\ KB!recounted(p, c) \in Page
           /\ DOMAIN KB!recounted(p, c).rows = DOMAIN p.rows \cup DOMAIN c
           /\ \A f \in DOMAIN p.rows \cup DOMAIN c :
                 KB!recounted(p, c).rows[f] = IF f \in DOMAIN c THEN c[f] ELSE 0
<1> DEFINE t == KB!cardTotal(c)
           r == [f \in DOMAIN p.rows \cup DOMAIN c |-> IF f \in DOMAIN c THEN c[f] ELSE 0]
<1>1. KB!recounted(p, c) = [rows |-> r, total |-> t]
      BY DEF KB!recounted
<1>2. t \in {KB!cardTotal(d) : d \in Counts}
      OBVIOUS
<1>3. PICK D \in SUBSET CardFile : c \in [D -> Nat]
      BY DEF Counts
<1>4. p.rows \in Counts
      BY DEF Page
<1>5. PICK E \in SUBSET CardFile : p.rows \in [E -> Nat]
      BY <1>4 DEF Counts
<1>6. r \in [E \cup D -> Nat]
      BY <1>3, <1>5
<1>7. r \in Counts
      BY <1>6 DEF Counts
<1>8. /\ DOMAIN r = DOMAIN p.rows \cup DOMAIN c
      /\ \A f \in DOMAIN p.rows \cup DOMAIN c : r[f] = IF f \in DOMAIN c THEN c[f] ELSE 0
      OBVIOUS
<1> HIDE DEF t, r
<1>9. [rows |-> r, total |-> t] \in Page
      BY <1>2, <1>7 DEF Page
<1> QED BY <1>1, <1>8, <1>9

LEMMA RecountedFits ==
    ASSUME KBTyped, NEW p \in Page, NEW c \in Counts, Exact(c, {})
    PROVE  Fits(KB!recounted(p, c))
<1>1. ASSUME NEW f \in CardFile
      PROVE  /\ KB!Scan(f) # <<>> => f \in DOMAIN KB!recounted(p, c).rows
             /\ f \in DOMAIN KB!recounted(p, c).rows
                   => KB!recounted(p, c).rows[f] = Len(KB!Scan(f))
  <2>1. /\ f \in DOMAIN c <=> KB!Scan(f) # <<>>
        /\ f \in DOMAIN c => c[f] = Len(KB!Scan(f))
        BY DEF Exact
  <2>2. KB!Scan(f) = <<>> => Len(KB!Scan(f)) = 0
        OBVIOUS
  <2> QED BY <2>1, <2>2, RecountedIsPage
<1> QED BY <1>1 DEF Fits

LEMMA RecountKB ==
    ASSUME KnowledgeAssumption, KBInv, Ensured, NEW a \in Author, KB!Recount(a)
    PROVE  KBInv'
<1> DEFINE j == author[a]
           p == IF index = Garbled THEN Garbled ELSE KB!recounted(index, j.counts)
           v == [j EXCEPT !.at = "clear", !.page = p]
<1>1. /\ KBTyped /\ j.at = "recount" /\ j \in Counting /\ j # KB!Idle
      /\ UNCHANGED <<cards, index, calls, kills, quiet, created, fresh>>
      BY BusyIs DEF KB!Recount, KBInv
<1>2. author' = [author EXCEPT ![a] = v]
      BY DEF KB!Recount
<1>3. j.counts \in Counts /\ index # Absent /\ index \in Page \cup {Absent, Garbled}
      BY <1>1 DEF Counting, Ensured, KBTyped
<1>4. p \in Page \cup {Absent, Garbled}
      BY <1>3, RecountedIsPage
<1>5. quiet => index # Garbled /\ index \in Page /\ Exact(j.counts, {})
      BY <1>1, OnlyOne DEF Knows
<1>6. quiet => p \in Page /\ Fits(p)
      BY <1>1, <1>3, <1>5, RecountedIsPage, RecountedFits
<1> HIDE DEF p
<1>7. v \in Counting /\ v.at = "clear" /\ v.page = p
      BY <1>1, <1>4 DEF Counting
<1> HIDE DEF v
<1>8. author'[a] = v
      BY <1>1, <1>2 DEF KBTyped
<1>9. ASSUME quiet PROVE index' # Garbled /\ Knows(a)' /\ IndexFits'
  <2>1. author'[a].at = "clear" /\ author'[a].page = p
        BY <1>7, <1>8
  <2>2. PICK q : q = p
        OBVIOUS
  <2>3. q \in Page /\ Fits(q)
        BY <1>6, <1>9, <2>2
  <2>4. Fits(q)' /\ author'[a].page = q
        BY <1>1, <2>1, <2>2, <2>3, SameCards
  <2>5. Knows(a)'
        BY <2>1, <2>3, <2>4 DEF Knows, Page, Counts
  <2>6. Recounting(a)'
        BY <2>1 DEF Recounting
  <2> QED BY <1>1, <1>5, <1>9, <2>5, <2>6 DEF IndexFits
<1>10. index' \in Page \cup {Absent, Garbled}
      BY <1>1, <1>3
<1> QED BY <1>1, <1>2, <1>7, <1>9, <1>10, RebuildKeeps

LEMMA ClearKB ==
    ASSUME KnowledgeAssumption, KBInv, NEW a \in Author, KB!Clear(a)
    PROVE  KBInv'
<1> DEFINE j == author[a]
           v == [j EXCEPT !.at = "store"]
<1>1. /\ KBTyped /\ j.at = "clear" /\ j \in Counting /\ j # KB!Idle
      /\ UNCHANGED <<cards, calls, kills, quiet, created, fresh>> /\ index' = KB!blankIndex
      BY BusyIs DEF KB!Clear, KBInv
<1>2. author' = [author EXCEPT ![a] = v]
      BY DEF KB!Clear, KB!goto
<1>3. v \in Counting /\ v.at = "store" /\ v.page = j.page
      BY <1>1 DEF Counting
<1> HIDE DEF v
<1>4. author'[a] = v
      BY <1>1, <1>2 DEF KBTyped
<1>5. KB!blankIndex \in Page /\ KB!blankIndex # Garbled
      BY EmptyCounts DEF Page, KB!blankIndex, KnowledgeAssumption
<1>6. ASSUME quiet PROVE index' # Garbled /\ Knows(a)' /\ IndexFits'
  <2>1. PICK q : q = j.page
        OBVIOUS
  <2>2. q \in Page /\ Fits(q)
        BY <1>1, <1>6, <2>1, OnlyOne DEF Knows
  <2>3. Fits(q)'
        BY <1>1, <2>2, SameCards
  <2>4. author'[a].at = "store" /\ author'[a].page = q
        BY <1>3, <1>4, <2>1
  <2>5. index' = KB!blankIndex'
        BY <1>1 DEF KB!blankIndex, KB!NoTotal
  <2>6. Knows(a)'
        BY <2>2, <2>3, <2>4, <2>5 DEF Knows, Page, Counts
  <2>7. Recounting(a)'
        BY <2>4 DEF Recounting
  <2> QED BY <1>1, <1>5, <2>6, <2>7 DEF IndexFits
<1> QED BY <1>1, <1>2, <1>3, <1>5, <1>6, RebuildKeeps

LEMMA StoreKB ==
    ASSUME KnowledgeAssumption, KBInv, NEW a \in Author, KB!Store(a)
    PROVE  KBInv'
<1> DEFINE j == author[a]
<1>1. /\ KBTyped /\ j.at = "store" /\ j \in Counting /\ j # KB!Idle
      /\ UNCHANGED <<cards, calls, kills, quiet, created, fresh>>
      /\ index' = IF index = KB!blankIndex THEN j.page ELSE Garbled
      BY BusyIs DEF KB!Store, KBInv
<1>2. author' = [author EXCEPT ![a] = KB!Idle]
      BY DEF KB!Store, KB!finish
<1>3. j.page \in Page \cup {Absent, Garbled}
      BY <1>1 DEF Counting
<1>4. author'[a] = KB!Idle
      BY <1>1, <1>2 DEF KBTyped
<1>5. ASSUME quiet PROVE index' # Garbled /\ Knows(a)' /\ IndexFits'
  <2>1. PICK q : q = j.page
        OBVIOUS
  <2>2. q \in Page /\ Fits(q) /\ index = KB!blankIndex
        BY <1>1, <1>5, <2>1, OnlyOne DEF Knows
  <2>3. Fits(q)' /\ index' = q
        BY <1>1, <2>1, <2>2, SameCards
  <2>4. \A t : <<q, t>> = <<q, t>> /\ q # Garbled
        BY <2>2 DEF Page, KnowledgeAssumption
  <2>5. author'[a].at = "idle"
        BY <1>4 DEF KB!Idle
  <2>6. Knows(a)'
        BY <2>5 DEF Knows
  <2>7. index' \in Page /\ Fits(index)'
    <3>1. \A r : r = q => (Fits(r)' <=> Fits(q)')
          OBVIOUS
    <3> QED BY <2>2, <2>3 DEF Fits
  <2> QED BY <2>3, <2>4, <2>6, <2>7 DEF IndexFits, Page, Counts
<1>6. index' \in Page \cup {Absent, Garbled}
      BY <1>1, <1>3
<1> QED BY <1>1, <1>2, <1>5, <1>6, RebuildKeeps

LEMMA KillKB ==
    ASSUME KnowledgeAssumption, KBInv, NEW a \in Author, KB!Kill(a)
    PROVE  KBInv'
<1>1. /\ KBTyped /\ author[a] # KB!Idle /\ kills' = kills + 1 /\ fresh' = FALSE
      /\ UNCHANGED <<cards, index, calls, quiet, created>>
      /\ author' = [author EXCEPT ![a] = KB!Idle]
      BY DEF KB!Kill, KB!finish, KBInv
<1>2. kills' # 0 /\ kills' \in Nat
      BY <1>1 DEF KBTyped
<1>3. /\ author' \in [Author -> {KB!Idle} \cup Creating \cup Counting]
      /\ author'[a] = KB!Idle /\ \A b \in Author : b # a => author'[b] = author[b]
      BY <1>1, UpdateIs
<1>4. author'[a].at = "idle"
      BY <1>3 DEF KB!Idle
<1>5. KBTyped'
      BY <1>1, <1>2, <1>3, <1>4 DEF KBTyped, Page, Counts
<1>6. Knows(a)'
      BY <1>4 DEF Knows
<1>7. CreatedStay' /\ IndexFits'
      BY <1>1, <1>2 DEF CreatedStay, IndexFits
<1>8. quiet => AllDistinct' /\ index' # Garbled
      BY <1>1, SameCards DEF KBInv
<1> QED BY <1>1, <1>3, <1>5, <1>6, <1>7, <1>8, StepKeeps

LEMMA StutterKB ==
    ASSUME KBInv, UNCHANGED KB!kbVars
    PROVE  KBInv'
BY DEF KBInv, KB!kbVars, KBTyped, Alone, Knows, AllDistinct, CreatedStay, IndexFits,
       Recounting, Exact, Fits, KB!Scan

LEMMA NextKB ==
    ASSUME KnowledgeAssumption, KBInv, Ensured, KB!Next
    PROVE  KBInv'
BY BeginKB, NumberKB, LookKB, ReadKB, TruncateKB, WriteKB, EnsureKB, WalkKB, RecountKB,
   ClearKB, StoreKB, KillKB DEF KB!Next

LEMMA EnsuredKeeps ==
    ASSUME KnowledgeAssumption, KBTyped, Ensured, KB!Next
    PROVE  Ensured'
<1>1. index # Absent => index' # Absent
  <2>1. KB!emptyIndex # Absent /\ KB!blankIndex # Absent /\ Garbled # Absent
        BY DEF KB!emptyIndex, KB!blankIndex, KnowledgeAssumption
  <2>2. ASSUME NEW a \in Author, KB!Store(a) PROVE index' # Absent
        BY <2>1, <2>2 DEF KB!Store, Ensured
  <2> QED BY <2>1, <2>2 DEF KB!Next, KB!Begin, KB!Number, KB!Look, KB!Read, KB!Truncate,
             KB!Write, KB!Ensure, KB!Walk, KB!Recount, KB!Clear, KB!Kill
<1>2. PICK a \in Author :
        \/ KB!Begin(a) \/ KB!Number(a) \/ KB!Look(a) \/ KB!Read(a) \/ KB!Truncate(a) \/ KB!Write(a)
        \/ KB!Ensure(a) \/ KB!Walk(a) \/ KB!Recount(a) \/ KB!Clear(a) \/ KB!Store(a) \/ KB!Kill(a)
      BY DEF KB!Next
<1> DEFINE j == author[a]
<1>3. SUFFICES /\ \A b \in Author : b # a => author'[b] = author[b]
               /\ author'[a].at \in {"walk", "recount"} => index' # Absent
               /\ author'[a].at \in {"clear", "store"} => author'[a].page # Absent
      BY <1>1 DEF Ensured
<1>4. author \in [Author -> {KB!Idle} \cup Creating \cup Counting] /\ KB!Idle.at = "idle"
      BY DEF KBTyped, KB!Idle
<1>5. CASE KB!Begin(a) \/ KB!Write(a) \/ KB!Store(a) \/ KB!Kill(a)
  <2>1. CASE KB!Write(a) \/ KB!Store(a) \/ KB!Kill(a)
    <3>1. author' = [author EXCEPT ![a] = KB!Idle]
          BY <2>1 DEF KB!Write, KB!Store, KB!Kill, KB!finish
    <3> QED BY <1>4, <3>1
  <2>2. CASE KB!Begin(a)
    <3>1. \E v : /\ author' = [author EXCEPT ![a] = v]
                 /\ v.at = "number" \/ v.at = "ensure"
      <4>1. CASE \E f \in CardFile :
            author' = [author EXCEPT ![a] = [at |-> "number", file |-> f,
                          card |-> [prefix |-> Prefix[f], number |-> 0, call |-> calls + 1],
                          base |-> <<>>]]
        <5>1. PICK f \in CardFile :
            author' = [author EXCEPT ![a] = [at |-> "number", file |-> f,
                          card |-> [prefix |-> Prefix[f], number |-> 0, call |-> calls + 1],
                          base |-> <<>>]]
              BY <4>1
        <5> DEFINE v == [at |-> "number", file |-> f,
                          card |-> [prefix |-> Prefix[f], number |-> 0, call |-> calls + 1],
                          base |-> <<>>]
        <5>2. author' = [author EXCEPT ![a] = v] /\ v.at = "number"
              BY <5>1
        <5> QED BY <5>2
      <4>2. CASE author' = [author EXCEPT ![a] = [at |-> "ensure", counts |-> <<>>,
                          todo |-> CardFile, page |-> Absent]]
        <5> DEFINE v == [at |-> "ensure", counts |-> <<>>, todo |-> CardFile, page |-> Absent]
        <5>1. author' = [author EXCEPT ![a] = v] /\ v.at = "ensure"
              BY <4>2
        <5> QED BY <5>1
      <4> QED BY <2>2, <4>1, <4>2 DEF KB!Begin
    <3> QED BY <1>4, <3>1
  <2> QED BY <1>5, <2>1, <2>2
<1>6. CASE KB!Number(a) \/ KB!Look(a) \/ KB!Read(a) \/ KB!Truncate(a)
  <2>1. j \in Creating
        BY <1>4, <1>6, BusyIs DEF KB!Number, KB!Look, KB!Read, KB!Truncate
  <2>2. \E v : author' = [author EXCEPT ![a] = v] /\ v.at \in {"look", "truncate", "read", "write"}
    <3>1. CASE KB!Number(a)
      <4> DEFINE v == [j EXCEPT !.at = "look", !.card.number = KB!nextNumber(j.file, j.card.prefix)]
      <4>1. author' = [author EXCEPT ![a] = v] /\ v.at = "look"
            BY <2>1, <3>1 DEF KB!Number, Creating
      <4> QED BY <4>1
    <3>2. CASE KB!Look(a)
      <4> DEFINE l == IF cards[j.file] = Absent THEN "truncate" ELSE "read"
                 v == [j EXCEPT !.at = l]
      <4>1. author' = [author EXCEPT ![a] = v] /\ v.at = l /\ l \in {"truncate", "read"}
            BY <2>1, <3>2 DEF KB!Look, KB!goto, Creating
      <4>2. v.at \in {"look", "truncate", "read", "write"}
            BY <4>1
      <4> HIDE DEF v
      <4> QED BY <4>1, <4>2
    <3>3. CASE KB!Read(a)
      <4> DEFINE v == [j EXCEPT !.at = "truncate", !.base = KB!Scan(j.file)]
      <4>1. author' = [author EXCEPT ![a] = v] /\ v.at = "truncate"
            BY <2>1, <3>3 DEF KB!Read, Creating
      <4> QED BY <4>1
    <3>4. CASE KB!Truncate(a)
      <4> DEFINE v == [j EXCEPT !.at = "write"]
      <4>1. author' = [author EXCEPT ![a] = v] /\ v.at = "write"
            BY <2>1, <3>4 DEF KB!Truncate, KB!goto, Creating
      <4> QED BY <4>1
    <3> QED BY <1>6, <3>1, <3>2, <3>3, <3>4
  <2> QED BY <1>4, <2>2
<1>7. CASE KB!Ensure(a) \/ KB!Walk(a) \/ KB!Recount(a) \/ KB!Clear(a)
  <2>1. j \in Counting
        BY <1>4, <1>7, BusyIs DEF KB!Ensure, KB!Walk, KB!Recount, KB!Clear
  <2>2. KB!emptyIndex # Absent /\ Garbled # Absent
        BY DEF KB!emptyIndex, KnowledgeAssumption
  <2>3. CASE KB!Ensure(a)
    <3> DEFINE v == [j EXCEPT !.at = "walk"]
    <3>1. author' = [author EXCEPT ![a] = v] /\ v.at = "walk" /\ index' # Absent
          BY <2>1, <2>2, <2>3 DEF KB!Ensure, KB!goto, Counting
    <3> QED BY <1>4, <3>1
  <2>4. CASE KB!Clear(a)
    <3> DEFINE v == [j EXCEPT !.at = "store"]
    <3>1. author' = [author EXCEPT ![a] = v] /\ v.at = "store" /\ v.page = j.page /\ j.page # Absent
          BY <2>1, <2>4 DEF KB!Clear, KB!goto, Counting, Ensured
    <3> QED BY <1>4, <3>1
  <2>5. CASE KB!Recount(a)
    <3> DEFINE p == IF index = Garbled THEN Garbled ELSE KB!recounted(index, j.counts)
               v == [j EXCEPT !.at = "clear", !.page = p]
    <3>1. author' = [author EXCEPT ![a] = v] /\ v.at = "clear" /\ v.page = p
          BY <2>1, <2>5 DEF KB!Recount, Counting
    <3>2. p # Absent
          BY <2>2 DEF KB!recounted, KnowledgeAssumption
    <3> QED BY <1>4, <3>1, <3>2
  <2>6. CASE KB!Walk(a)
    <3>1. j.at = "walk" /\ index' = index
          BY <2>6 DEF KB!Walk
    <3>2. index' # Absent
          BY <3>1 DEF Ensured
    <3>3. \E v : author' = [author EXCEPT ![a] = v] /\ v.at \in {"walk", "recount"}
      <4>0. PICK f \in j.todo : \E c :
              author' = [author EXCEPT ![a].todo = j.todo \ {f},
                  ![a].at = IF j.todo = {f} THEN "recount" ELSE "walk",
                  ![a].counts = c]
            BY <2>6 DEF KB!Walk
      <4>1. PICK c :
              author' = [author EXCEPT ![a].todo = j.todo \ {f},
                  ![a].at = IF j.todo = {f} THEN "recount" ELSE "walk",
                  ![a].counts = c]
            BY <4>0
      <4> DEFINE l == IF j.todo = {f} THEN "recount" ELSE "walk"
                 v == [j EXCEPT !.todo = j.todo \ {f}, !.at = l, !.counts = c]
      <4>2. author' = [author EXCEPT ![a] = v]
            BY <4>1
      <4>3. v.at = l /\ l \in {"walk", "recount"}
            BY <2>1 DEF Counting
      <4> QED BY <4>2, <4>3
    <3> QED BY <1>4, <3>2, <3>3
  <2> QED BY <1>7, <2>3, <2>4, <2>5, <2>6
<1> QED BY <1>2, <1>5, <1>6, <1>7

\* Three of the four parts of KnowledgeKept, for every number of processes and
\* files: run one after another, commands give no identifier twice, and
\* unless one is killed every card answered as created stays; after a rebuild
\* INDEX.md has the count of every file.
THEOREM KnowledgeStays ==
    KnowledgeAssumption => (KB!Spec => [](KB!NumbersDistinct /\ KB!CardsStay /\ KB!IndexFresh))
<1> DEFINE Inv == KBInv /\ Ensured
<1>1. KnowledgeAssumption /\ KB!Init => KnowledgeAssumption /\ Inv
  <2>1. KB!Init => Ensured
        BY DEF KB!Init, KB!Idle, Ensured
  <2> QED BY <2>1, InitKB
<1>2. KnowledgeAssumption /\ Inv /\ [KB!Next]_(KB!kbVars) => KnowledgeAssumption' /\ Inv'
  <2> SUFFICES ASSUME KnowledgeAssumption, Inv, [KB!Next]_(KB!kbVars)
               PROVE  KnowledgeAssumption' /\ Inv'
      OBVIOUS
  <2>1. KnowledgeAssumption'
        BY DEF KnowledgeAssumption, KB!KBAssumption, KB!Card
  <2>2. CASE KB!Next
        BY <2>2, NextKB, EnsuredKeeps DEF KBInv
  <2>3. CASE UNCHANGED KB!kbVars
    <3>1. Ensured'
          BY <2>3 DEF Ensured, KB!kbVars
    <3> QED BY <2>3, <3>1, StutterKB
  <2> QED BY <2>1, <2>2, <2>3
<1>3. Inv => KB!NumbersDistinct /\ KB!CardsStay /\ KB!IndexFresh
      BY KBInvGives
<1> QED BY <1>1, <1>2, <1>3, PTL DEF KB!Spec

-----------------------------------------------------------------------------
(* The gate log. *)

Held == {lines[i].id : i \in {k \in 1..Len(lines) : lines[k] # GL!Damaged}}
Lost == answered \ Held

GateInv ==
    /\ GL!TypeOK
    /\ IsFiniteSet(answered)
    /\ cut => Len(lines) > 0 /\ lines[Len(lines)] = GL!Damaged
    /\ Cardinality(Lost) + (IF cut THEN 1 ELSE 0) <= tears
    /\ tears = 0 /\ ~odd =>
         /\ ~cut /\ ~labelCut
         /\ \A i \in 1..Len(lines) : lines[i] # GL!Damaged
         /\ \A i, j \in 1..Len(lines) : i # j => lines[i].id # lines[j].id
         /\ rows = {lines[i] : i \in 1..Len(lines)}
         /\ \A k \in 1..Len(labels) : labels[k] # GL!Damaged
         /\ \A k, m \in 1..Len(labels) : k # m => labels[k] # labels[m]
         /\ marks = {labels[k] : k \in 1..Len(labels)}

LEMMA SameCount == \A S : GL!Cardinality(S) = Cardinality(S)
BY DEF GL!Cardinality, Cardinality

LEMMA SameFinite == \A S : GL!IsFiniteSet(S) = IsFiniteSet(S)
BY Zenon DEF GL!IsFiniteSet, IsFiniteSet

LEMMA IdsAreNumbers ==
    ASSUME GL!GateAssumption
    PROVE  /\ GL!RecordIds \in SUBSET (Nat \ {0}) /\ GivenId \in SUBSET GL!RecordIds
           /\ \A a \in 0..(MaxAppends - 1) : Cardinality(GivenId) + 1 + a \in GL!RecordIds
<1>1. PICK n \in Nat : GivenId = 1..n
  <2>1. IsFiniteSet(GivenId) /\ GivenId = 1..Cardinality(GivenId)
        BY SameCount, SameFinite DEF GL!GateAssumption
  <2> QED BY <2>1, FS_CardinalityType
<1>2. Cardinality(GivenId) = n
      BY <1>1, FS_Interval
<1>3. GL!Cardinality(GivenId) = n
      BY <1>2, SameCount
<1> QED BY <1>1, <1>2, <1>3 DEF GL!RecordIds, GL!GateAssumption

\* A line that parses has an id; the damaged one has none.
LEMMA LinesParse ==
    ASSUME GL!GateAssumption
    PROVE  /\ \A r \in GL!Judgement : r # GL!Damaged
           /\ \A l \in GL!Label : l # GL!Damaged
<1>1. \A r \in GL!Judgement : r.id \in Nat \ {0}
      BY IdsAreNumbers DEF GL!Judgement
<1>2. GL!Damaged.id = 0
      BY DEF GL!Damaged
<1>3. \A l \in GL!Label : DOMAIN l = {"record", "at"}
      BY DEF GL!Label
<1>4. DOMAIN GL!Damaged = {"id"}
      BY DEF GL!Damaged
<1>5. {"record", "at"} # {"id"}
      OBVIOUS
<1>6. \A l \in GL!Label : l # GL!Damaged
      BY <1>3, <1>4, <1>5
<1>7. \A r \in GL!Judgement : r # GL!Damaged
      BY <1>1, <1>2
<1> QED BY <1>6, <1>7

\* Sets that correspond one to one have as many members.
LEMMA CountAlike ==
    ASSUME NEW S, NEW T, IsFiniteSet(S), NEW f \in [S -> T],
           \A x, y \in S : f[x] = f[y] => x = y, \A y \in T : \E x \in S : f[x] = y
    PROVE  Cardinality(S) = Cardinality(T)
<1>1. f \in Bijection(S, T)
      BY DEF Bijection, Injection, Surjection, IsInjective
<1>2. ExistsBijection(S, T)
      BY <1>1 DEF ExistsBijection
<1> QED BY <1>2, FS_Bijection

LEMMA InitGate ==
    ASSUME GL!GateAssumption, GL!Init
    PROVE  GateInv
<1>1. GL!TypeOK
  <2>1. \A S : <<>> \in Seq(S)
        OBVIOUS
  <2>2. 0 \in 0..MaxSecond /\ 0 \in 0..MaxAppends /\ 0 \in 0..MaxTears
        BY DEF GL!GateAssumption
  <2> QED BY <2>1, <2>2 DEF GL!Init, GL!TypeOK
<1>2. Lost = {} /\ Cardinality({}) = 0 /\ IsFiniteSet({})
      BY FS_EmptySet DEF GL!Init, Lost
<1>3. Len(<<>>) = 0 /\ 1..0 = {}
      OBVIOUS
<1>4. answered = {} /\ cut = FALSE /\ labelCut = FALSE /\ lines = <<>> /\ labels = <<>>
      /\ rows = {} /\ marks = {} /\ tears = 0
      BY DEF GL!Init
<1>5. rows = {lines[i] : i \in 1..Len(lines)} /\ marks = {labels[k] : k \in 1..Len(labels)}
      BY <1>3, <1>4
<1>6. Cardinality(Lost) + (IF cut THEN 1 ELSE 0) <= tears
      BY <1>2, <1>4
<1> QED BY <1>1, <1>2, <1>3, <1>4, <1>5, <1>6 DEF GateInv

\* appendJSONLine adds a line, or spoils the one that was cut.
LEMMA AppendedIs ==
    ASSUME NEW S, NEW file \in Seq(S \cup {GL!Damaged}), NEW c \in BOOLEAN, NEW entry \in S,
           c => Len(file) > 0
    PROVE  /\ GL!appended(file, c, entry) \in Seq(S \cup {GL!Damaged})
           /\ ~c => GL!appended(file, c, entry) = Append(file, entry)
           /\ c /\ file[Len(file)] = GL!Damaged => GL!appended(file, c, entry) = file
<1>1. CASE c
  <2>1. GL!appended(file, c, entry) = [file EXCEPT ![Len(file)] = GL!Damaged]
        BY <1>1 DEF GL!appended
  <2>2. Len(file) \in Nat /\ file \in [1..Len(file) -> S \cup {GL!Damaged}]
        OBVIOUS
  <2>3. [file EXCEPT ![Len(file)] = GL!Damaged] \in [1..Len(file) -> S \cup {GL!Damaged}]
        BY <2>2
  <2>4. [file EXCEPT ![Len(file)] = GL!Damaged] \in Seq(S \cup {GL!Damaged})
        BY <2>2, <2>3
  <2>5. file[Len(file)] = GL!Damaged => [file EXCEPT ![Len(file)] = GL!Damaged] = file
        BY <2>2
  <2> QED BY <1>1, <2>1, <2>4, <2>5
<1>2. CASE ~c
  <2>1. GL!appended(file, c, entry) = Append(file, entry)
        BY <1>2 DEF GL!appended
  <2> QED BY <1>2, <2>1
<1> QED BY <1>1, <1>2

LEMMA AppendIs ==
    ASSUME NEW S, NEW s \in Seq(S), NEW x \in S
    PROVE  /\ Append(s, x) \in Seq(S) /\ Len(s) \in Nat /\ Len(Append(s, x)) = Len(s) + 1
           /\ \A i \in 1..Len(s) : Append(s, x)[i] = s[i]
           /\ Append(s, x)[Len(s) + 1] = x
           /\ \A i \in 1..Len(Append(s, x)) : i \in 1..Len(s) \/ i = Len(s) + 1
           /\ \A i \in 1..Len(s) : i \in 1..Len(Append(s, x))
           /\ Len(s) + 1 \in 1..Len(Append(s, x))
OBVIOUS

LEMMA AppendHolds ==
    ASSUME NEW S, NEW s \in Seq(S), NEW x \in S
    PROVE  {Append(s, x)[i] : i \in 1..Len(Append(s, x))} = {s[i] : i \in 1..Len(s)} \cup {x}
<1> DEFINE r == Append(s, x)
<1>1. /\ Len(s) \in Nat
      /\ \A i \in 1..Len(s) : r[i] = s[i] /\ i \in 1..Len(r)
      /\ r[Len(s) + 1] = x /\ Len(s) + 1 \in 1..Len(r)
      /\ \A i \in 1..Len(r) : i \in 1..Len(s) \/ i = Len(s) + 1
      BY AppendIs
<1> HIDE DEF r
<1>2. ASSUME NEW y \in {r[i] : i \in 1..Len(r)} PROVE y \in {s[i] : i \in 1..Len(s)} \cup {x}
      BY <1>1
<1>3. ASSUME NEW y \in {s[i] : i \in 1..Len(s)} \cup {x} PROVE y \in {r[i] : i \in 1..Len(r)}
  <2>1. CASE y = x
        BY <1>1, <2>1
  <2>2. CASE \E i \in 1..Len(s) : y = s[i]
        BY <1>1, <2>2
  <2> QED BY <1>3, <2>1, <2>2
<1> QED BY <1>2, <1>3 DEF r

\* The ids in the file after a line more.
LEMMA HeldAppend ==
    ASSUME GL!TypeOK, NEW x \in GL!Judgement \cup {GL!Damaged}, lines' = Append(lines, x)
    PROVE  /\ Held \in SUBSET Held'
           /\ x # GL!Damaged => x.id \in Held'
           /\ Len(lines') > 0 /\ lines'[Len(lines')] = x
<1>1. lines \in Seq(GL!Judgement \cup {GL!Damaged})
      BY DEF GL!TypeOK
<1>2. /\ Len(lines) \in Nat /\ Len(lines') = Len(lines) + 1
      /\ \A i \in 1..Len(lines) : lines'[i] = lines[i] /\ i \in 1..Len(lines')
      /\ lines'[Len(lines) + 1] = x /\ Len(lines) + 1 \in 1..Len(lines')
      BY <1>1, AppendIs
<1>3. GL!Damaged' = GL!Damaged
      BY DEF GL!Damaged
<1>4. ASSUME NEW h \in Held PROVE h \in Held'
  <2>1. PICK i \in {k \in 1..Len(lines) : lines[k] # GL!Damaged} : h = lines[i].id
        BY <1>4 DEF Held
  <2>2. i \in {k \in 1..Len(lines') : lines'[k] # GL!Damaged'} /\ h = lines'[i].id
        BY <1>2, <1>3, <2>1
  <2> QED BY <2>2 DEF Held
<1>5. ASSUME x # GL!Damaged PROVE x.id \in Held'
  <2> DEFINE n == Len(lines) + 1
  <2>1. n \in {k \in 1..Len(lines') : lines'[k] # GL!Damaged'} /\ x.id = lines'[n].id
        BY <1>2, <1>3, <1>5
  <2> HIDE DEF n
  <2> QED BY <2>1 DEF Held
<1> QED BY <1>2, <1>4, <1>5

LEMMA FewerLost ==
    ASSUME IsFiniteSet(answered), NEW id, answered' = answered \cup {id}, Held \in SUBSET Held'
    PROVE  /\ IsFiniteSet(answered') /\ Cardinality(Lost) \in Nat
           /\ Cardinality(Lost') \in Nat /\ Cardinality(Lost') <= Cardinality(Lost) + 1
           /\ id \in Held' => Cardinality(Lost') <= Cardinality(Lost)
<1>1. IsFiniteSet(answered')
      BY FS_AddElement
<1>2. IsFiniteSet(Lost) /\ Cardinality(Lost) \in Nat
  <2>1. IsFiniteSet(Lost)
        BY FS_Difference DEF Lost
  <2> QED BY <2>1, FS_CardinalityType
<1>3. IsFiniteSet(Lost \cup {id}) /\ Cardinality(Lost \cup {id}) <= Cardinality(Lost) + 1
      /\ Cardinality(Lost \cup {id}) \in Nat
  <2>1. IsFiniteSet(Lost \cup {id}) /\ Cardinality(Lost \cup {id}) =
            IF id \in Lost THEN Cardinality(Lost) ELSE Cardinality(Lost) + 1
        BY <1>2, FS_AddElement
  <2> QED BY <1>2, <2>1
<1>4. Lost' \in SUBSET (Lost \cup {id}) /\ (id \in Held' => Lost' \in SUBSET Lost)
      BY DEF Lost
<1>5. IsFiniteSet(Lost') /\ Cardinality(Lost') <= Cardinality(Lost \cup {id})
      BY <1>3, <1>4, FS_Subset
<1>6. id \in Held' => Cardinality(Lost') <= Cardinality(Lost)
      BY <1>2, <1>4, FS_Subset
<1>7. Cardinality(Lost') \in Nat
      BY <1>5, FS_CardinalityType
<1> QED BY <1>1, <1>2, <1>3, <1>5, <1>6, <1>7

\* The two stores hold the same.
Mirrored ==
    /\ ~cut /\ ~labelCut
    /\ \A i \in 1..Len(lines) : lines[i] # GL!Damaged
    /\ \A i, j \in 1..Len(lines) : i # j => lines[i].id # lines[j].id
    /\ rows = {lines[i] : i \in 1..Len(lines)}
    /\ \A k \in 1..Len(labels) : labels[k] # GL!Damaged
    /\ \A k, m \in 1..Len(labels) : k # m => labels[k] # labels[m]
    /\ marks = {labels[k] : k \in 1..Len(labels)}

LEMMA GateInvIs ==
    GateInv <=> /\ GL!TypeOK
                /\ IsFiniteSet(answered)
                /\ cut => Len(lines) > 0 /\ lines[Len(lines)] = GL!Damaged
                /\ Cardinality(Lost) + (IF cut THEN 1 ELSE 0) <= tears
                /\ tears = 0 /\ ~odd => Mirrored
BY DEF GateInv, Mirrored

Rules == GateRule \cup {""}

LEMMA JudgementIs ==
    GL!Judgement = [id : GL!RecordIds, at : 0..MaxSecond, verdict : Verdict, rule : Rules]
BY Zenon DEF GL!Judgement, Rules

LEMMA Bounds ==
    ASSUME GL!GateAssumption, GateInv
    PROVE  /\ MaxAppends \in Nat /\ MaxTears \in Nat /\ MaxSecond \in Nat
           /\ tears \in Nat /\ appends \in Nat /\ appends <= MaxAppends /\ second \in 0..MaxSecond
           /\ lines \in Seq(GL!Judgement \cup {GL!Damaged})
           /\ labels \in Seq(GL!Label \cup {GL!Damaged})
<1>1. MaxAppends \in Nat /\ MaxTears \in Nat /\ MaxSecond \in Nat
      BY DEF GL!GateAssumption
<1>2. GL!TypeOK
      BY DEF GateInv
<1>3. tears \in 0..MaxTears /\ appends \in 0..MaxAppends
      BY <1>2 DEF GL!TypeOK
<1>4. tears \in Nat /\ appends \in Nat /\ appends <= MaxAppends
      BY <1>1, <1>3
<1> QED BY <1>1, <1>2, <1>4 DEF GL!TypeOK

LEMMA RecordGate ==
    ASSUME GL!GateAssumption, GateInv, NEW id \in GL!RecordIds, NEW v \in Verdict,
           NEW r \in Rules, GL!Record(id, v, r)
    PROVE  GateInv'
<1>1. PICK e : e = [id |-> id, at |-> second, verdict |-> v, rule |-> r]
      OBVIOUS
<1>2. /\ appends < MaxAppends /\ lines' = GL!appended(lines, cut, e)
      /\ rows' = IF \E x \in rows : x.id = id THEN rows ELSE rows \cup {e}
      /\ answered' = answered \cup {id} /\ cut' = FALSE
      /\ odd' = (odd \/ \E x \in rows : x.id = id)
      /\ appends' = appends + 1 /\ UNCHANGED <<labels, labelCut, marks, second, tears>>
      BY <1>1 DEF GL!Record
<1>20. appends < MaxAppends /\ appends' = appends + 1 /\ tears' = tears
       /\ answered' = answered \cup {id}
       BY <1>2
<1>21. lines \in Seq(GL!Judgement \cup {GL!Damaged})
       BY Bounds
<1>22. Cardinality(Lost) + (IF cut THEN 1 ELSE 0) <= tears /\ tears \in Nat
       BY Bounds DEF GateInv
<1>3. /\ GL!TypeOK /\ IsFiniteSet(answered) /\ second \in 0..MaxSecond
      /\ cut \in BOOLEAN /\ lines \in Seq(GL!Judgement \cup {GL!Damaged})
      /\ cut => Len(lines) > 0 /\ lines[Len(lines)] = GL!Damaged
      /\ Cardinality(Lost) + (IF cut THEN 1 ELSE 0) <= tears /\ tears \in Nat
      BY Bounds DEF GateInv, GL!TypeOK
<1>4. e \in GL!Judgement /\ e.id = id
      BY <1>1, <1>3, JudgementIs
<1>5. e # GL!Damaged
      BY <1>4, LinesParse
<1>6. GL!Damaged' = GL!Damaged /\ GL!Judgement' = GL!Judgement /\ GL!Label' = GL!Label
      BY DEF GL!Damaged, GL!Judgement, GL!Label, GL!RecordIds
<1>7. /\ lines' \in Seq(GL!Judgement \cup {GL!Damaged})
      /\ ~cut => lines' = Append(lines, e)
      /\ cut => lines' = lines
      BY <1>2, <1>3, <1>4, AppendedIs
<1>8. GL!TypeOK'
  <2>1. rows' \in SUBSET GL!Judgement
        BY <1>2, <1>3, <1>4 DEF GL!TypeOK
  <2>2. appends' \in 0..MaxAppends
        BY <1>20, Bounds
  <2> QED BY <1>2, <1>3, <1>6, <1>7, <2>1, <2>2 DEF GL!TypeOK
<1>9. Held \in SUBSET Held' /\ (~cut => id \in Held')
  <2>1. CASE ~cut
        BY <1>3, <1>4, <1>5, <1>7, <2>1, HeldAppend
  <2>2. CASE cut
    <3>1. Held' = Held
          BY <1>6, <1>7, <2>2 DEF Held
    <3> QED BY <2>2, <3>1
  <2> QED BY <2>1, <2>2
<1>10. /\ IsFiniteSet(answered')
       /\ Cardinality(Lost') + (IF cut' THEN 1 ELSE 0) <= tears'
  <2>1. /\ IsFiniteSet(answered') /\ Cardinality(Lost) \in Nat
        /\ Cardinality(Lost') \in Nat /\ Cardinality(Lost') <= Cardinality(Lost) + 1
        /\ id \in Held' => Cardinality(Lost') <= Cardinality(Lost)
        BY <1>2, <1>3, <1>9, FewerLost
  <2>2. CASE cut
    <3>1. Cardinality(Lost) + 1 <= tears
          BY <1>22, <2>2
    <3>2. Cardinality(Lost') <= tears'
          BY <1>20, <1>22, <2>1, <3>1
    <3> QED BY <1>2, <1>20, <2>1, <3>2
  <2>3. CASE ~cut
    <3>1. Cardinality(Lost) + 0 <= tears
          BY <1>22, <2>3
    <3>2. Cardinality(Lost') <= tears'
          BY <1>9, <1>20, <1>22, <2>1, <2>3, <3>1
    <3> QED BY <1>2, <1>20, <2>1, <3>2
  <2> QED BY <2>2, <2>3
<1>11. ASSUME tears' = 0, ~odd' PROVE Mirrored'
  <2>1. Mirrored /\ ~(\E x \in rows : x.id = id)
    <3>1. ~odd /\ ~(\E x \in rows : x.id = id)
          BY <1>2, <1>11, Zenon
    <3> QED BY <1>2, <1>11, <3>1, GateInvIs
  <2>2. ~cut /\ rows' = rows \cup {e} /\ lines' = Append(lines, e)
        BY <1>2, <1>7, <2>1 DEF Mirrored
  <2>20. lines' = Append(lines, e) /\ e \in GL!Judgement \cup {GL!Damaged}
         BY <1>4, <2>2
  <2>3. {lines'[i] : i \in 1..Len(lines')} = {lines[i] : i \in 1..Len(lines)} \cup {e}
        BY <1>21, <2>20, AppendHolds
  <2>4. rows' = {lines'[i] : i \in 1..Len(lines')}
        BY <2>1, <2>2, <2>3 DEF Mirrored
  <2>5. /\ \A i \in 1..Len(lines) : lines'[i] = lines[i]
        /\ lines'[Len(lines) + 1] = e
        /\ \A i \in 1..Len(lines') : i \in 1..Len(lines) \/ i = Len(lines) + 1
        BY <1>21, <2>20, AppendIs
  <2>6. \A i \in 1..Len(lines') : lines'[i] # GL!Damaged'
        BY <1>5, <1>6, <2>1, <2>5 DEF Mirrored
  <2>7. ASSUME NEW i \in 1..Len(lines'), NEW j \in 1..Len(lines'), i # j
        PROVE  lines'[i].id # lines'[j].id
    <3>1. \A k \in 1..Len(lines) : lines[k].id # id
          BY <2>1 DEF Mirrored
    <3>2. CASE i \in 1..Len(lines) /\ j \in 1..Len(lines)
          BY <2>1, <2>5, <2>7, <3>2 DEF Mirrored
    <3>3. CASE i \in 1..Len(lines) /\ j = Len(lines) + 1
          BY <1>4, <2>5, <3>1, <3>3
    <3>4. CASE i = Len(lines) + 1 /\ j \in 1..Len(lines)
          BY <1>4, <2>5, <3>1, <3>4
    <3> QED BY <2>5, <2>7, <3>2, <3>3, <3>4
  <2>8. ~cut' /\ ~labelCut'
        BY <1>2, <2>1 DEF Mirrored
  <2>9. labels' = labels /\ marks' = marks
        BY <1>2
  <2>10. Mirrored
         BY <2>1
  <2> QED BY <1>6, <2>4, <2>6, <2>7, <2>8, <2>9, <2>10 DEF Mirrored
<1>12. cut' = FALSE
      BY <1>2
<1> QED BY <1>8, <1>10, <1>11, <1>12 DEF GateInv, Mirrored

LEMMA RecordTornGate ==
    ASSUME GL!GateAssumption, GateInv, GL!RecordTorn
    PROVE  GateInv'
<1>1. /\ GL!TypeOK /\ IsFiniteSet(answered)
      /\ cut \in BOOLEAN /\ lines \in Seq(GL!Judgement \cup {GL!Damaged})
      /\ cut => Len(lines) > 0 /\ lines[Len(lines)] = GL!Damaged
      /\ Cardinality(Lost) + (IF cut THEN 1 ELSE 0) <= tears /\ tears \in Nat
      BY Bounds DEF GateInv, GL!TypeOK
<1>2. /\ lines' = IF cut THEN lines ELSE Append(lines, GL!Damaged)
      /\ cut' = TRUE /\ tears' = tears + 1 /\ appends' = appends + 1
      /\ appends < MaxAppends /\ tears < MaxTears
      /\ UNCHANGED <<labels, labelCut, rows, marks, second, answered, odd>>
      BY DEF GL!RecordTorn
<1>3. GL!Damaged' = GL!Damaged /\ GL!Judgement' = GL!Judgement /\ GL!Label' = GL!Label
      BY DEF GL!Damaged, GL!Judgement, GL!Label, GL!RecordIds
<1>4. lines' \in Seq(GL!Judgement \cup {GL!Damaged})
      BY <1>1, <1>2
<1>5. GL!TypeOK'
  <2>1. appends' \in 0..MaxAppends /\ tears' \in 0..MaxTears
        BY <1>2, Bounds
  <2> QED BY <1>1, <1>2, <1>3, <1>4, <2>1 DEF GL!TypeOK
<1>6. /\ Held \in SUBSET Held'
      /\ Len(lines') > 0 /\ lines'[Len(lines')] = GL!Damaged'
  <2>1. CASE ~cut
        BY <1>1, <1>2, <1>3, <2>1, HeldAppend
  <2>2. CASE cut
    <3>1. Held' = Held
          BY <1>2, <1>3, <2>2 DEF Held
    <3> QED BY <1>1, <1>2, <1>3, <2>2, <3>1
  <2> QED BY <1>1, <2>1, <2>2
<1>7. Cardinality(Lost') \in Nat /\ Cardinality(Lost) \in Nat
      /\ Cardinality(Lost') <= Cardinality(Lost)
  <2>1. IsFiniteSet(Lost) /\ Lost' \in SUBSET Lost
        BY <1>1, <1>2, <1>6, FS_Difference DEF Lost
  <2> QED BY <2>1, FS_Subset, FS_CardinalityType
<1>8. Cardinality(Lost') + (IF cut' THEN 1 ELSE 0) <= tears'
      BY <1>1, <1>2, <1>7
<1>9. tears' # 0 /\ IsFiniteSet(answered')
      BY <1>1, <1>2
<1> QED BY <1>5, <1>6, <1>8, <1>9 DEF GateInv

\* Steps that leave the record file alone.
LEMMA FileSame ==
    ASSUME GateInv, UNCHANGED <<lines, cut, answered>>, GL!TypeOK', tears' >= tears,
           tears' = 0 /\ ~odd' => Mirrored'
    PROVE  GateInv'
<1>1. GL!Damaged' = GL!Damaged
      BY DEF GL!Damaged
<1>2. Lost' = Lost
      BY <1>1 DEF Lost, Held
<1>3. Cardinality(Lost) \in Nat /\ tears \in Nat /\ tears' \in Nat
  <2>1. IsFiniteSet(Lost)
        BY FS_Difference DEF GateInv, Lost
  <2> QED BY <2>1, FS_CardinalityType DEF GateInv, GL!TypeOK
<1>4. Cardinality(Lost') + (IF cut' THEN 1 ELSE 0) <= tears'
      BY <1>2, <1>3 DEF GateInv
<1> QED BY <1>1, <1>4 DEF GateInv, Mirrored

LEMMA MarkGate ==
    ASSUME GL!GateAssumption, GateInv, NEW id \in GL!RecordIds, GL!MarkFalsePositive(id)
    PROVE  GateInv'
<1>1. PICK e : e = [record |-> id, at |-> second]
      OBVIOUS
<1>2. /\ appends < MaxAppends /\ labels' = GL!appended(labels, labelCut, e)
      /\ marks' = marks \cup {e} /\ labelCut' = FALSE
      /\ odd' = (odd \/ e \in marks)
      /\ appends' = appends + 1 /\ UNCHANGED <<lines, cut, rows, second, tears, answered>>
      BY <1>1 DEF GL!MarkFalsePositive
<1>3. /\ GL!TypeOK /\ second \in 0..MaxSecond /\ tears \in Nat
      /\ labelCut \in BOOLEAN /\ labels \in Seq(GL!Label \cup {GL!Damaged})
      BY Bounds DEF GateInv, GL!TypeOK
<1>4. e \in GL!Label /\ e # GL!Damaged
  <2>1. e \in GL!Label
        BY <1>1, <1>3 DEF GL!Label
  <2> QED BY <2>1, LinesParse
<1>5. GL!Damaged' = GL!Damaged /\ GL!Judgement' = GL!Judgement /\ GL!Label' = GL!Label
      BY DEF GL!Damaged, GL!Judgement, GL!Label, GL!RecordIds
<1>6. labels' \in Seq(GL!Label \cup {GL!Damaged})
  <2>1. CASE labelCut /\ Len(labels) = 0
    <3>1. labels' = [labels EXCEPT ![Len(labels)] = GL!Damaged]
          BY <1>2, <2>1 DEF GL!appended
    <3>2. labels = <<>> /\ Len(labels) = 0
          BY <1>3, <2>1
    <3>3. labels' = <<>>
          BY <3>1, <3>2
    <3> QED BY <3>3
  <2>2. CASE ~(labelCut /\ Len(labels) = 0)
    <3>1. labelCut => Len(labels) > 0
          BY <1>3, <2>2
    <3> QED BY <1>2, <1>3, <1>4, <3>1, AppendedIs
  <2> QED BY <2>1, <2>2
<1>7. GL!TypeOK'
  <2>1. marks' \in SUBSET GL!Label
        BY <1>2, <1>3, <1>4 DEF GL!TypeOK
  <2>2. appends' \in 0..MaxAppends
        BY <1>2, Bounds
  <2> QED BY <1>2, <1>3, <1>5, <1>6, <2>1, <2>2 DEF GL!TypeOK
<1>8. ASSUME tears' = 0, ~odd' PROVE Mirrored'
  <2>1. Mirrored /\ e \notin marks
    <3>1. ~odd /\ e \notin marks
          BY <1>2, <1>8, Zenon
    <3> QED BY <1>2, <1>8, <3>1, GateInvIs
  <2>2. labels' = Append(labels, e)
        BY <1>2, <2>1 DEF Mirrored, GL!appended
  <2>3. {labels'[i] : i \in 1..Len(labels')} = {labels[i] : i \in 1..Len(labels)} \cup {e}
        BY <1>3, <1>4, <2>2, AppendHolds
  <2>4. marks' = {labels'[i] : i \in 1..Len(labels')}
        BY <1>2, <2>1, <2>3 DEF Mirrored
  <2>5. /\ \A i \in 1..Len(labels) : labels'[i] = labels[i]
        /\ labels'[Len(labels) + 1] = e
        /\ \A i \in 1..Len(labels') : i \in 1..Len(labels) \/ i = Len(labels) + 1
        BY <1>3, <1>4, <2>2, AppendIs
  <2>6. \A i \in 1..Len(labels') : labels'[i] # GL!Damaged'
        BY <1>4, <1>5, <2>1, <2>5 DEF Mirrored
  <2>7. ASSUME NEW k \in 1..Len(labels'), NEW m \in 1..Len(labels'), k # m
        PROVE  labels'[k] # labels'[m]
    <3>1. \A i \in 1..Len(labels) : labels[i] # e
          BY <2>1 DEF Mirrored
    <3>2. CASE k \in 1..Len(labels) /\ m \in 1..Len(labels)
          BY <2>1, <2>5, <2>7, <3>2 DEF Mirrored
    <3>3. CASE k \in 1..Len(labels) /\ m = Len(labels) + 1
          BY <2>5, <3>1, <3>3
    <3>4. CASE k = Len(labels) + 1 /\ m \in 1..Len(labels)
          BY <2>5, <3>1, <3>4
    <3> QED BY <2>5, <2>7, <3>2, <3>3, <3>4
  <2> QED BY <1>2, <1>5, <2>1, <2>4, <2>6, <2>7 DEF Mirrored
<1> QED BY <1>2, <1>3, <1>7, <1>8, FileSame

LEMMA MarkTornGate ==
    ASSUME GL!GateAssumption, GateInv, GL!MarkTorn
    PROVE  GateInv'
<1>1. /\ GL!TypeOK /\ tears \in Nat /\ labels \in Seq(GL!Label \cup {GL!Damaged})
      BY Bounds DEF GateInv
<1>2. /\ labels' = IF labelCut THEN labels ELSE Append(labels, GL!Damaged)
      /\ labelCut' = TRUE /\ tears' = tears + 1 /\ appends' = appends + 1
      /\ appends < MaxAppends /\ tears < MaxTears
      /\ UNCHANGED <<lines, cut, rows, marks, second, answered, odd>>
      BY DEF GL!MarkTorn
<1>3. GL!Damaged' = GL!Damaged /\ GL!Judgement' = GL!Judgement /\ GL!Label' = GL!Label
      BY DEF GL!Damaged, GL!Judgement, GL!Label, GL!RecordIds
<1>4. labels' \in Seq(GL!Label \cup {GL!Damaged})
      BY <1>1, <1>2
<1>5. GL!TypeOK'
  <2>1. appends' \in 0..MaxAppends /\ tears' \in 0..MaxTears
        BY <1>2, Bounds
  <2> QED BY <1>1, <1>2, <1>3, <1>4, <2>1 DEF GL!TypeOK
<1>6. tears' # 0 /\ tears' >= tears
      BY <1>1, <1>2
<1> QED BY <1>2, <1>5, <1>6, FileSame

LEMMA TickGate ==
    ASSUME GL!GateAssumption, GateInv, GL!Tick \/ UNCHANGED GL!gateVars
    PROVE  GateInv'
<1>1. /\ GL!TypeOK /\ tears \in Nat /\ second \in 0..MaxSecond
      BY Bounds DEF GateInv
<1>2. /\ second' \in 0..MaxSecond
      /\ UNCHANGED <<lines, cut, labels, labelCut, rows, marks, appends, tears, answered, odd>>
      BY <1>1, Bounds DEF GL!Tick, GL!gateVars
<1>3. GL!Damaged' = GL!Damaged /\ GL!Judgement' = GL!Judgement /\ GL!Label' = GL!Label
      BY DEF GL!Damaged, GL!Judgement, GL!Label, GL!RecordIds
<1>4. GL!TypeOK'
      BY <1>1, <1>2, <1>3 DEF GL!TypeOK
<1>5. tears' = 0 /\ ~odd' => Mirrored'
      BY <1>2, <1>3, GateInvIs DEF Mirrored
<1> QED BY <1>1, <1>2, <1>4, <1>5, FileSame

LEMMA NextGate ==
    ASSUME GL!GateAssumption, GateInv, [GL!Next]_(GL!gateVars)
    PROVE  GateInv'
<1>1. appends \in Nat /\ MaxAppends \in Nat
      BY Bounds
<1>2. ASSUME NEW id \in GivenId \cup {GL!freshId}, NEW v \in Verdict,
             NEW r \in Rules, GL!Record(id, v, r)
      PROVE  GateInv'
  <2>0. appends < MaxAppends
        BY <1>2 DEF GL!Record
  <2>1. appends \in 0..(MaxAppends - 1)
        BY <1>1, <2>0
  <2>2. GL!freshId = Cardinality(GivenId) + 1 + appends
        BY SameCount DEF GL!freshId
  <2>3. id \in GL!RecordIds
        BY <2>1, <2>2, IdsAreNumbers
  <2> QED BY <1>2, <2>3, RecordGate
<1>3. ASSUME NEW id \in GL!RecordIds, GL!MarkFalsePositive(id) PROVE GateInv'
      BY <1>3, MarkGate
<1>4. ASSUME GL!RecordTorn \/ GL!MarkTorn \/ GL!Tick \/ UNCHANGED GL!gateVars PROVE GateInv'
      BY <1>4, RecordTornGate, MarkTornGate, TickGate
<1> QED BY <1>2, <1>3, <1>4 DEF GL!Next, Rules

LEMMA ReadAllIs ==
    ASSUME Mirrored, GL!TypeOK
    PROVE  GL!readAll(lines) = lines /\ GL!readAll(labels) = labels
           /\ DOMAIN lines = 1..Len(lines) /\ DOMAIN labels = 1..Len(labels)
<1>1. lines \in Seq(GL!Judgement \cup {GL!Damaged}) /\ labels \in Seq(GL!Label \cup {GL!Damaged})
      BY DEF GL!TypeOK
<1>2. /\ lines = [i \in 1..Len(lines) |-> lines[i]] /\ labels = [i \in 1..Len(labels) |-> labels[i]]
      /\ DOMAIN lines = 1..Len(lines) /\ DOMAIN labels = 1..Len(labels)
      BY <1>1
<1>3. /\ {i \in 1..Len(lines) : lines[i] # GL!Damaged} = 1..Len(lines)
      /\ {i \in 1..Len(labels) : labels[i] # GL!Damaged} = 1..Len(labels)
      BY DEF Mirrored
<1> QED BY <1>2, <1>3 DEF GL!readAll

LEMMA LinesAndRows ==
    ASSUME Mirrored, GL!TypeOK, NEW W \in SUBSET rows
    PROVE  Cardinality({i \in 1..Len(lines) : lines[i] \in W}) = Cardinality(W)
<1> DEFINE S == {i \in 1..Len(lines) : lines[i] \in W}
           g == [i \in S |-> lines[i]]
<1>1. Len(lines) \in Nat
      BY DEF GL!TypeOK
<1>2. IsFiniteSet(1..Len(lines)) /\ S \in SUBSET (1..Len(lines))
      BY <1>1, FS_Interval
<1>3. IsFiniteSet(S)
      BY <1>2, FS_Subset
<1>4. g \in [S -> W] /\ \A x \in S : g[x] = lines[x]
      OBVIOUS
<1>5. \A x, y \in S : g[x] = g[y] => x = y
      BY <1>4 DEF Mirrored
<1>6. \A y \in W : \E x \in S : g[x] = y
  <2>1. ASSUME NEW y \in W PROVE \E x \in S : g[x] = y
    <3>1. PICK x \in 1..Len(lines) : y = lines[x]
          BY DEF Mirrored
    <3>2. x \in S
          BY <3>1
    <3> QED BY <1>4, <3>1, <3>2
  <2> QED BY <2>1
<1> HIDE DEF S, g
<1>7. Cardinality(S) = Cardinality(W)
      BY <1>3, <1>4, <1>5, <1>6, CountAlike
<1> QED BY <1>7 DEF S

LEMMA LabelsAndMarks ==
    ASSUME Mirrored, GL!TypeOK, NEW W \in SUBSET rows
    PROVE  Cardinality({k \in 1..Len(labels) : \E r \in W : r.id = labels[k].record})
           = Cardinality({j \in marks \X W : j[2].id = j[1].record})
<1> DEFINE S == {k \in 1..Len(labels) : \E r \in W : r.id = labels[k].record}
           T == {j \in marks \X W : j[2].id = j[1].record}
           of(k) == CHOOSE r \in W : r.id = labels[k].record
           g == [k \in S |-> <<labels[k], of(k)>>]
<1>1. Len(labels) \in Nat
      BY DEF GL!TypeOK
<1>2. IsFiniteSet(1..Len(labels)) /\ S \in SUBSET (1..Len(labels))
      BY <1>1, FS_Interval
<1>3. IsFiniteSet(S)
      BY <1>2, FS_Subset
<1>4. \A k \in S : of(k) \in W /\ of(k).id = labels[k].record /\ labels[k] \in marks
      BY DEF Mirrored
<1>5. \A r, q \in W : r.id = q.id => r = q
  <2>1. ASSUME NEW r \in W, NEW q \in W, r.id = q.id PROVE r = q
    <3>1. PICK x \in 1..Len(lines) : r = lines[x]
          BY DEF Mirrored
    <3>2. PICK y \in 1..Len(lines) : q = lines[y]
          BY DEF Mirrored
    <3> QED BY <2>1, <3>1, <3>2 DEF Mirrored
  <2> QED BY <2>1
<1> HIDE DEF of
<1>6. \A k \in S : g[k] = <<labels[k], of(k)>>
      OBVIOUS
<1>7. g \in [S -> T]
  <2>1. \A k \in S : <<labels[k], of(k)>> \in T
        BY <1>4
  <2> HIDE DEF T, S
  <2> QED BY <2>1
<1>8. \A x, y \in S : g[x] = g[y] => x = y
  <2>1. ASSUME NEW x \in S, NEW y \in S, g[x] = g[y] PROVE x = y
    <3>1. labels[x] = labels[y]
          BY <1>6, <2>1
    <3> QED BY <3>1 DEF Mirrored
  <2> QED BY <2>1
<1>9. \A y \in T : \E x \in S : g[x] = y
  <2>1. ASSUME NEW y \in T PROVE \E x \in S : g[x] = y
    <3>1. y = <<y[1], y[2]>> /\ y[1] \in marks /\ y[2] \in W /\ y[2].id = y[1].record
          OBVIOUS
    <3>2. PICK k \in 1..Len(labels) : y[1] = labels[k]
          BY <3>1 DEF Mirrored
    <3>3. k \in S
          BY <3>1, <3>2
    <3>4. of(k) = y[2]
          BY <1>4, <1>5, <3>1, <3>2, <3>3
    <3> QED BY <1>6, <3>1, <3>2, <3>3, <3>4
  <2> QED BY <2>1
<1> HIDE DEF S, T, g
<1>10. Cardinality(S) = Cardinality(T)
       BY <1>3, <1>7, <1>8, <1>9, CountAlike
<1> QED BY <1>10 DEF S, T

LEMMA StatsAlike ==
    ASSUME Mirrored, GL!TypeOK, NEW f
    PROVE  GL!fileStats(f) = GL!tableStats(f)
<1> DEFINE N == 1..Len(lines)
           K == 1..Len(labels)
           in == {i \in N : GL!matchFilter(lines[i], f)}
           on == {k \in K : \E i \in in : lines[i].id = labels[k].record}
           W == {r \in rows : GL!matchFilter(r, f)}
           P == {j \in marks \X W : j[2].id = j[1].record}
<1>1. \A i \in N : lines[i] \in rows
      BY DEF Mirrored
<1>2. \A r \in rows : \E i \in N : r = lines[i]
      BY DEF Mirrored
<1>3. Cardinality(in) = Cardinality(W)
  <2>1. in = {i \in N : lines[i] \in W}
        BY <1>1
  <2> QED BY <2>1, LinesAndRows
<1>4. Cardinality(on) = Cardinality(P)
  <2>1. on = {k \in K : \E r \in W : r.id = labels[k].record}
        BY <1>1, <1>2
  <2> QED BY <2>1, LabelsAndMarks
<1>5. ASSUME NEW v
      PROVE  Cardinality({i \in in : lines[i].verdict = v}) = Cardinality({r \in W : r.verdict = v})
  <2> DEFINE V == {r \in W : r.verdict = v}
  <2>1. {i \in in : lines[i].verdict = v} = {i \in N : lines[i] \in V}
        BY <1>1
  <2>2. V \in SUBSET rows
        OBVIOUS
  <2> HIDE DEF V
  <2>3. Cardinality({i \in N : lines[i] \in V}) = Cardinality(V)
        BY <2>2, LinesAndRows
  <2> QED BY <2>1, <2>3 DEF V
<1>6. ASSUME NEW r
      PROVE  Cardinality({k \in on : \E i \in in : lines[i].id = labels[k].record /\ lines[i].rule = r})
             = Cardinality({j \in P : j[2].rule = r})
  <2> DEFINE V == {q \in W : q.rule = r}
             A == {k \in on : \E i \in in : lines[i].id = labels[k].record /\ lines[i].rule = r}
             B == {j \in P : j[2].rule = r}
  <2>1. A = {k \in K : \E q \in V : q.id = labels[k].record}
        BY <1>1, <1>2
  <2>2. B = {j \in marks \X V : j[2].id = j[1].record}
    <3>1. ASSUME NEW j \in B PROVE j \in {i \in marks \X V : i[2].id = i[1].record}
          OBVIOUS
    <3>2. ASSUME NEW j \in {i \in marks \X V : i[2].id = i[1].record} PROVE j \in B
          OBVIOUS
    <3> QED BY <3>1, <3>2
  <2>3. V \in SUBSET rows
        OBVIOUS
  <2> HIDE DEF V, A, B
  <2> QED BY <2>1, <2>2, <2>3, LabelsAndMarks DEF A, B
<1>7. GL!fileMatches(f) = in
      BY ReadAllIs DEF GL!fileMatches
<1> DEFINE fv == [v \in Verdict |-> Cardinality({i \in in : lines[i].verdict = v})]
           fr == [r \in GateRule |-> Cardinality({k \in on : \E i \in in :
                     lines[i].id = labels[k].record /\ lines[i].rule = r})]
           tv == [v \in Verdict |-> Cardinality({r \in W : r.verdict = v})]
           tr == [r \in GateRule |-> Cardinality({j \in P : j[2].rule = r})]
<1>8. fv = tv /\ fr = tr
      BY <1>5, <1>6
<1>9. GL!fileStats(f) = [total |-> Cardinality(in), fp |-> Cardinality(on),
                         verdicts |-> fv, byRule |-> fr]
      BY <1>7, ReadAllIs, SameCount DEF GL!fileStats
<1>10. GL!tableStats(f) = [total |-> Cardinality(W), fp |-> Cardinality(P),
                           verdicts |-> tv, byRule |-> tr]
      BY SameCount DEF GL!tableStats
<1> HIDE DEF in, on, W, P, fv, fr, tv, tr
<1> QED BY <1>3, <1>4, <1>8, <1>9, <1>10

LEMMA GateInvGives ==
    ASSUME GateInv
    PROVE  GL!StoresAgree /\ GL!TearLosesOne
<1>1. tears = 0 /\ ~odd => Mirrored
      BY GateInvIs
<1>2. GL!StoresAgree
      BY <1>1, StatsAlike DEF GL!StoresAgree, GateInv
<1>3. Cardinality(Lost) <= tears
  <2>1. Cardinality(Lost) \in Nat
        BY FS_Difference, FS_CardinalityType DEF GateInv, Lost
  <2>2. Cardinality(Lost) + (IF cut THEN 1 ELSE 0) <= tears
        BY DEF GateInv
  <2>3. tears \in Nat
        BY DEF GateInv, GL!TypeOK
  <2>4. CASE cut
        BY <2>1, <2>2, <2>3, <2>4
  <2>5. CASE ~cut
        BY <2>1, <2>2, <2>3, <2>5
  <2> QED BY <2>4, <2>5
<1>4. Held = {GL!readAll(lines)[i].id : i \in DOMAIN GL!readAll(lines)}
      BY DEF Held, GL!readAll
<1>5. GL!TearLosesOne
      BY <1>3, <1>4, SameCount DEF Lost, GL!TearLosesOne
<1> QED BY <1>2, <1>5

\* The gate log, whatever the ids, verdicts, rules and bounds: a process
\* killed while it appends costs at most one acknowledged record, and the two
\* stores answer `stats` alike under every filter unless the calls themselves
\* differ by their keys or were cut short.
THEOREM JudgementsStay ==
    GL!GateAssumption => (GL!Spec => []GL!JudgementsKept)
<1>1. GL!GateAssumption /\ GL!Init => GL!GateAssumption /\ GateInv
      BY InitGate
<1>2. GL!GateAssumption /\ GateInv /\ [GL!Next]_(GL!gateVars) => GL!GateAssumption' /\ GateInv'
      BY NextGate DEF GL!GateAssumption
<1>3. GateInv => GL!JudgementsKept
      BY GateInvGives DEF GL!JudgementsKept
<1> QED BY <1>1, <1>2, <1>3, PTL DEF GL!Spec

-----------------------------------------------------------------------------
(* The check of a Task's files against git: ResultInv says of each token   *)
(* that is still missing at which query it was looked for, and what of the *)
(* repository no later query could have shown.                             *)

CommitType == [files : SUBSET File, at : Nat]

\* A token that git has shown to be no invention.
Shown(t) == t.form # "outside" /\ \E f \in RC!Existing : RC!sameName(f, t.path)

\* More commits since the check began than the last query looks back.
TooMany == Len(commits) > begun.commits + Depth

\* None of the commits there were when the check began, of a day after the Task
\* was created, has the file.
Unheard(t) ==
    \A c \in 1..begun.commits :
        commits[c].at >= 2 * (task.created + 1) => t.path \notin commits[c].files

StillToAsk(qs) ==
    \/ qs = <<"diff", "diff --cached", "log">> \/ qs = <<"diff --cached", "log">>
    \/ qs = <<"log">> \/ qs = <<>>

ResultTypes ==
    /\ commits \in Seq(CommitType)
    /\ Depth \in Nat /\ clock \in Nat /\ task.created \in Nat
    /\ unstaged \subseteq File /\ staged \subseteq File /\ untracked \subseteq File
    /\ begun.commits \in Nat /\ begun.commits <= Len(commits)
    /\ pc = "idle" => changed = {}
    /\ pc = "git" => StillToAsk(queries)
    /\ pc \in {"idle", "git", "history"} => verdict = "none"
    /\ changed \subseteq RC!Existing

\* Where a file that was dirty is, by the queries that are still to come.
Followed(f) ==
    \/ TooMany
    \/ queries = <<"diff", "diff --cached", "log">>
       /\ f \in RC!Dirty \cup RC!Committed(begun.commits + 1)
    \/ queries = <<"diff --cached", "log">>
       /\ f \in changed \cup staged \cup RC!Committed(begun.commits + 1)
    \/ queries = <<"log">> /\ f \in changed \cup RC!Committed(begun.commits + 1)
    \/ queries = <<>> /\ f \in changed

Dirtied == pc = "git" /\ ~disturbed => \A f \in begun.dirty : Followed(f)

Judged(t) ==
    t.form # "outside" =>
        /\ ~disturbed => t.path \notin begun.dirty \/ TooMany
        /\ t \in left \/ Unheard(t)

Searched ==
    /\ pc = "history" \/ verdict = "unverified" => \A t \in missing : Judged(t)
    /\ verdict = "unverified" => left = {}

Passed ==
    /\ pc = "history" => \A t \in checked : Shown(t) \/ t \in missing
    /\ verdict = "done" /\ task.policy = "strict" /\ changed # {} =>
          \A t \in checked : Shown(t)

ResultInv == ResultTypes /\ Dirtied /\ Searched /\ Passed

-----------------------------------------------------------------------------

LEMMA CommittedSet ==
    ASSUME ResultTypes, NEW n \in Int, NEW f
    PROVE  f \in RC!Committed(n) <=> \E i \in n..Len(commits) : f \in commits[i].files
BY DEF RC!Committed

LEMMA ResultInitially == RC!ResultAssumption /\ RC!Init => ResultInv
<1> SUFFICES ASSUME RC!ResultAssumption, RC!Init
             PROVE  ResultInv
  OBVIOUS
<1>1. ResultTypes
  <2>1. commits \in Seq(CommitType) /\ clock \in Nat /\ task.created \in Nat
    BY DEF RC!Init, RC!ResultAssumption, CommitType
  <2>2. Len(commits) \in Nat
    BY <2>1
  <2> QED
    BY <2>1, <2>2 DEF RC!Init, ResultTypes, RC!ResultAssumption
<1> QED
  BY <1>1 DEF RC!Init, ResultInv, Dirtied, Searched, Passed

\* What the repository knows it does not forget, until it is reset.
Forward ==
    /\ RC!Existing \subseteq RC!Existing'
    /\ commits' \in Seq(CommitType) /\ clock' \in Nat
    /\ unstaged' \subseteq File /\ staged' \subseteq File /\ untracked' \subseteq File
    /\ Len(commits) <= Len(commits')
    /\ \A i \in 1..Len(commits) : commits'[i] = commits[i]

Around ==
    /\ UNCHANGED <<task, pc, queries, changed, checked, missing, left, verdict, judged, begun>>
    /\ Forward
    /\ disturbed => disturbed'
    /\ ~disturbed' =>
          /\ \A f \in unstaged : f \in unstaged' \/ f \in staged'
          /\ \A f \in staged : \/ f \in staged'
                               \/ /\ Len(commits') = Len(commits) + 1
                                  /\ f \in commits'[Len(commits')].files

LEMMA AroundKeeps == ResultInv /\ Around => ResultInv'
<1> SUFFICES ASSUME ResultInv, Around
             PROVE  ResultInv'
  OBVIOUS
<1>0. ResultTypes /\ Len(commits) \in Nat /\ Len(commits') \in Nat
  BY DEF ResultInv, ResultTypes, Around, Forward
<1>1. ResultTypes'
  BY <1>0 DEF ResultTypes, Around, Forward
<1>2. ASSUME NEW n \in 1..(Len(commits) + 1)
      PROVE  RC!Committed(n) \subseteq RC!Committed(n)'
  <2> SUFFICES ASSUME NEW f \in RC!Committed(n)
               PROVE  f \in RC!Committed(n)'
    OBVIOUS
  <2>1. PICK i \in n..Len(commits) : f \in commits[i].files
    BY <1>0, CommittedSet
  <2>2. i \in n..Len(commits') /\ commits'[i] = commits[i]
    BY <2>1, <1>0 DEF Around, Forward
  <2>3. f \in commits'[i].files
    BY <2>1, <2>2
  <2> QED
    BY <2>2, <2>3 DEF RC!Committed
<1>3. TooMany => TooMany'
  <2>1. begun.commits \in Nat /\ begun' = begun /\ Len(commits) <= Len(commits') /\ Depth \in Nat
    BY <1>0 DEF ResultTypes, Around, Forward
  <2> QED
    BY <2>1, <1>0 DEF TooMany
<1>4. Dirtied'
  <2> SUFFICES ASSUME pc' = "git", ~disturbed', NEW f \in begun'.dirty
               PROVE  Followed(f)'
    BY DEF Dirtied
  <2>1. pc = "git" /\ ~disturbed /\ f \in begun.dirty /\ Followed(f)
    BY DEF Around, ResultInv, Dirtied
  <2>2. begun' = begun /\ changed' = changed /\ queries' = queries
    BY DEF Around
  <2>3. PICK k \in 1..(Len(commits) + 1) : k = begun.commits + 1
    BY <1>0 DEF ResultTypes
  <2>4. RC!Committed(k) \subseteq RC!Committed(k)'
    BY <1>2
  <2>5. RC!Committed(begun.commits + 1)' = RC!Committed(k)'
    BY <2>2, <2>3 DEF RC!Committed
  <2>6. f \in staged => f \in staged' \/ f \in RC!Committed(k)'
    <3> SUFFICES ASSUME f \in staged, f \notin staged'
                 PROVE  f \in RC!Committed(k)'
      OBVIOUS
    <3>1. Len(commits') = Len(commits) + 1 /\ f \in commits'[Len(commits')].files
      BY DEF Around
    <3>2. Len(commits') \in k..Len(commits')
      BY <3>1, <2>3, <1>0
    <3>3. PICK i \in k..Len(commits') : i = Len(commits')
      BY <3>2
    <3>4. f \in commits'[i].files
      BY <3>1, <3>3
    <3> QED
      BY <3>4 DEF RC!Committed
  <2>7. f \in unstaged => f \in unstaged' \/ f \in staged'
    BY DEF Around
  <2>8. CASE TooMany
    BY <2>8, <1>3 DEF Followed
  <2>9. CASE /\ queries = <<"diff", "diff --cached", "log">>
             /\ f \in RC!Dirty \cup RC!Committed(begun.commits + 1)
    <3>1. f \in unstaged \/ f \in staged \/ f \in RC!Committed(k)
      BY <2>3, <2>9 DEF RC!Dirty
    <3>2. f \in RC!Dirty' \cup RC!Committed(begun.commits + 1)'
      BY <3>1, <2>4, <2>5, <2>6, <2>7 DEF RC!Dirty
    <3> QED
      BY <3>2, <2>2, <2>9 DEF Followed
  <2>10. CASE /\ queries = <<"diff --cached", "log">>
              /\ f \in changed \cup staged \cup RC!Committed(begun.commits + 1)
    <3>1. f \in changed \/ f \in staged \/ f \in RC!Committed(k)
      BY <2>3, <2>10
    <3>2. f \in changed' \cup staged' \cup RC!Committed(begun.commits + 1)'
      BY <3>1, <2>2, <2>4, <2>5, <2>6
    <3> QED
      BY <3>2, <2>2, <2>10 DEF Followed
  <2>11. CASE queries = <<"log">> /\ f \in changed \cup RC!Committed(begun.commits + 1)
    <3>1. f \in changed' \cup RC!Committed(begun.commits + 1)'
      BY <2>11, <2>2, <2>3, <2>4, <2>5
    <3> QED
      BY <3>1, <2>2, <2>11 DEF Followed
  <2>12. CASE queries = <<>> /\ f \in changed
    BY <2>12, <2>2 DEF Followed
  <2> QED
    BY <2>1, <2>8, <2>9, <2>10, <2>11, <2>12 DEF Followed
<1>5. ASSUME NEW t
      PROVE  Unheard(t) => Unheard(t)'
  <2> SUFFICES ASSUME Unheard(t), NEW c \in 1..begun'.commits,
                      commits'[c].at >= 2 * (task'.created + 1)
               PROVE  t.path \notin commits'[c].files
    BY DEF Unheard
  <2>1. c \in 1..begun.commits /\ commits'[c] = commits[c] /\ task' = task
    BY <1>0 DEF ResultTypes, Around, Forward
  <2> QED
    BY <2>1 DEF Unheard
<1>6. Searched'
  <2>1. ASSUME NEW t, Judged(t) PROVE Judged(t)'
    BY <2>1, <1>3, <1>5 DEF Judged, Around
  <2> QED
    BY <2>1 DEF Searched, ResultInv, Around
<1>7. Passed'
  <2>1. ASSUME NEW t PROVE Shown(t) => Shown(t)'
    BY DEF Shown, Around, Forward, RC!sameName
  <2> QED
    BY <2>1 DEF Passed, ResultInv, Around
<1> QED
  BY <1>1, <1>4, <1>6, <1>7 DEF ResultInv

LEMMA ExistingIs ==
    ASSUME ResultTypes, NEW f
    PROVE  f \in RC!Existing <=>
             \/ f \in unstaged \/ f \in staged \/ f \in untracked
             \/ \E i \in 1..Len(commits) : f \in commits[i].files
BY CommittedSet DEF RC!Existing, RC!Tracked, RC!Dirty

\* Where no file leaves the work tree and commits stay, none is forgotten.
LEMMA StaysKnown ==
    ASSUME ResultTypes, UNCHANGED commits,
           \A f : f \in unstaged \/ f \in staged \/ f \in untracked =>
                    f \in unstaged' \/ f \in staged' \/ f \in untracked' \/ f \in RC!Tracked
    PROVE  RC!Existing \subseteq RC!Existing'
<1>1. RC!Tracked' = RC!Tracked
  BY DEF RC!Tracked, RC!Committed
<1> QED
  BY <1>1 DEF RC!Existing, RC!Dirty

LEMMA WriteIs == ASSUME ResultInv, NEW f \in File, RC!Write(f) PROVE Around
<1>0. ResultTypes
  BY DEF ResultInv
<1>1. RC!Existing \subseteq RC!Existing'
  BY <1>0, StaysKnown DEF RC!Write
<1> QED
  BY <1>0, <1>1 DEF RC!Write, RC!Edits, Around, Forward, ResultTypes

LEMMA StageIs == ASSUME ResultInv, NEW f \in File, RC!Stage(f) PROVE Around
<1>0. ResultTypes
  BY DEF ResultInv
<1>1. RC!Existing \subseteq RC!Existing'
  BY <1>0, StaysKnown DEF RC!Stage
<1> QED
  BY <1>0, <1>1 DEF RC!Stage, RC!Edits, Around, Forward, ResultTypes

LEMMA ResetIs == ASSUME ResultInv, RC!Reset PROVE Around
<1>0. ResultTypes
  BY DEF ResultInv
<1>1. RC!Existing \subseteq RC!Existing'
  BY <1>0, StaysKnown DEF RC!Reset
<1> QED
  BY <1>0, <1>1 DEF RC!Reset, RC!Edits, Around, Forward, ResultTypes

LEMMA TickIs == ASSUME ResultInv, RC!Tick PROVE Around
<1>0. ResultTypes
  BY DEF ResultInv
<1>1. RC!Existing \subseteq RC!Existing'
  BY <1>0, StaysKnown DEF RC!Tick
<1> QED
  BY <1>0, <1>1 DEF RC!Tick, RC!Edits, Around, Forward, ResultTypes

LEMMA CommitIs == ASSUME ResultInv, RC!Commit PROVE Around
<1>0. ResultTypes
  BY DEF ResultInv
<1> DEFINE c == [files |-> staged, at |-> clock]
<1>1. c \in CommitType /\ commits \in Seq(CommitType) /\ commits' = Append(commits, c)
  BY <1>0 DEF ResultTypes, CommitType, RC!Commit
<1>2. c.files = staged
  OBVIOUS
<1> HIDE DEF c
<1>3. /\ commits' \in Seq(CommitType) /\ Len(commits) \in Nat
      /\ Len(commits') = Len(commits) + 1
      /\ \A i \in 1..Len(commits) : commits'[i] = commits[i]
      /\ commits'[Len(commits) + 1] = c
  BY <1>1
<1>4. RC!Existing \subseteq RC!Existing'
  <2> SUFFICES ASSUME NEW f \in RC!Existing PROVE f \in RC!Existing'
    OBVIOUS
  <2>1. \/ f \in unstaged' \/ f \in untracked' \/ f \in c.files
        \/ \E i \in 1..Len(commits) : f \in commits'[i].files
    BY <1>0, <1>2, <1>3, ExistingIs DEF RC!Commit
  <2>2. \/ f \in unstaged' \/ f \in untracked'
        \/ \E i \in 1..Len(commits') : f \in commits'[i].files
    BY <2>1, <1>3
  <2> QED
    BY <2>2 DEF RC!Existing, RC!Tracked, RC!Dirty, RC!Committed
<1> QED
  BY <1>0, <1>1, <1>2, <1>3, <1>4 DEF RC!Commit, RC!Edits, Around, Forward, ResultTypes

-----------------------------------------------------------------------------
(* The steps of the check. *)

LEMMA BeginKeeps == ResultInv /\ RC!Begin => ResultInv'
<1> SUFFICES ASSUME ResultInv, RC!Begin
             PROVE  ResultInv'
  OBVIOUS
<1>0. ResultTypes /\ Len(commits) \in Nat
  BY DEF ResultInv, ResultTypes
<1>1. /\ pc = "idle" /\ changed = {} /\ verdict = "none"
      /\ begun' = [dirty |-> RC!Dirty, commits |-> Len(commits)]
      /\ UNCHANGED <<commits, clock, task, unstaged, staged, untracked, changed, missing,
                     left, disturbed>>
  BY <1>0 DEF RC!Begin, ResultTypes, RC!repository
<1>2. \/ pc' = "git" /\ queries' = <<"diff", "diff --cached", "log">> /\ verdict' = "none"
      \/ pc' = "end" /\ verdict' \in {"no_rollback", "done"}
  BY <1>1, Zenon DEF RC!Begin, RC!Blocks, RC!Passes, RC!gitQueries
<1>3. ResultTypes'
  <2>1. RC!Existing' = RC!Existing
    BY <1>1 DEF RC!Existing, RC!Tracked, RC!Dirty, RC!Committed
  <2>2. begun'.commits = Len(commits') /\ begun'.commits \in Nat
    BY <1>0, <1>1
  <2>3. /\ pc' # "idle"
        /\ pc' = "git" => StillToAsk(queries')
        /\ pc' \in {"idle", "git", "history"} => verdict' = "none"
    BY <1>2 DEF StillToAsk
  <2> QED
    BY <1>0, <1>1, <2>1, <2>2, <2>3 DEF ResultTypes
<1>4. Dirtied'
  <2> SUFFICES ASSUME pc' = "git", NEW f \in begun'.dirty
               PROVE  Followed(f)'
    BY DEF Dirtied
  <2>1. f \in RC!Dirty'
    BY <1>1 DEF RC!Dirty
  <2> QED
    BY <1>2, <2>1 DEF Followed
<1>5. Searched' /\ Passed'
  BY <1>1, <1>2 DEF Searched, Passed
<1> QED
  BY <1>3, <1>4, <1>5 DEF ResultInv

LEMMA FirstOfThree == ASSUME NEW a, NEW b, NEW c
                      PROVE  Head(<<a, b, c>>) = a /\ Tail(<<a, b, c>>) = <<b, c>>
OBVIOUS

LEMMA FirstOfTwo == ASSUME NEW a, NEW b
                    PROVE  Head(<<a, b>>) = a /\ Tail(<<a, b>>) = <<b>>
OBVIOUS

LEMMA FirstOfOne == ASSUME NEW a PROVE Head(<<a>>) = a /\ Tail(<<a>>) = <<>>
OBVIOUS

LEMMA LastOfCommits ==
    ASSUME NEW a \in Int
    PROVE  RC!Max({1, a}) \in {1, a} /\ RC!Max({1, a}) >= 1
<1>1. \E x \in {1, a} : \A y \in {1, a} : x >= y
  OBVIOUS
<1> QED
  BY <1>1 DEF RC!Max

LEMMA GitKeeps == ResultInv /\ RC!GetGitChangedFiles => ResultInv'
<1> SUFFICES ASSUME ResultInv, RC!GetGitChangedFiles
             PROVE  ResultInv'
  OBVIOUS
<1>0. ResultTypes /\ Len(commits) \in Nat
  BY DEF ResultInv, ResultTypes
<1>1. /\ pc = "git" /\ queries # <<>> /\ queries' = Tail(queries)
      /\ changed' = changed \cup RC!runGit(Head(queries))
      /\ UNCHANGED <<commits, clock, task, unstaged, staged, untracked, pc, missing,
                     checked, left, verdict, begun, disturbed>>
  BY DEF RC!GetGitChangedFiles, RC!repository
<1>2. RC!Existing' = RC!Existing
  BY <1>1 DEF RC!Existing, RC!Tracked, RC!Dirty, RC!Committed
<1>3. \A n \in Int, m \in Int : n <= m => RC!Committed(m) \subseteq RC!Committed(n)
  <2> SUFFICES ASSUME NEW n \in Int, NEW m \in Int, n <= m, NEW f \in RC!Committed(m)
               PROVE  f \in RC!Committed(n)
    OBVIOUS
  <2>1. PICK i \in m..Len(commits) : f \in commits[i].files
    BY <1>0, CommittedSet
  <2>2. i \in n..Len(commits)
    BY <1>0
  <2> QED
    BY <1>0, <2>1, <2>2, CommittedSet
<1>4. PICK n \in Nat \ {0} : /\ RC!runGit("log") = RC!Committed(n)
                             /\ Len(commits) <= begun.commits + Depth => n <= begun.commits + 1
  <2> DEFINE n == RC!Max({1, Len(commits) - Depth + 1})
  <2>1. n \in {1, Len(commits) - Depth + 1} /\ n >= 1
    BY <1>0, LastOfCommits DEF ResultTypes
  <2>2. RC!runGit("log") = RC!Committed(n)
    BY DEF RC!runGit
  <2>3. Depth \in Nat /\ begun.commits \in Nat
    BY <1>0 DEF ResultTypes
  <2> HIDE DEF n
  <2>4. n \in Nat \ {0} /\ (Len(commits) <= begun.commits + Depth => n <= begun.commits + 1)
    BY <1>0, <2>1, <2>3
  <2> QED
    BY <2>2, <2>4
<1>5. /\ RC!runGit(Head(queries)) \subseteq RC!Existing
      /\ StillToAsk(queries')
  <2>1. RC!Committed(n) \subseteq RC!Existing
    <3>1. RC!Committed(n) \subseteq RC!Committed(1)
      BY <1>3
    <3> QED
      BY <3>1 DEF RC!Existing, RC!Tracked
  <2>2. CASE queries = <<"diff", "diff --cached", "log">>
    <3>1. Head(queries) = "diff" /\ queries' = <<"diff --cached", "log">>
      BY <1>1, <2>2, FirstOfThree, Zenon
    <3>2. StillToAsk(queries')
      BY <3>1 DEF StillToAsk
    <3> QED
      BY <3>1, <3>2 DEF RC!runGit, RC!Existing, RC!Dirty
  <2>3. CASE queries = <<"diff --cached", "log">>
    <3>1. Head(queries) = "diff --cached" /\ queries' = <<"log">>
      BY <1>1, <2>3, FirstOfTwo, Zenon
    <3>2. StillToAsk(queries')
      BY <3>1 DEF StillToAsk
    <3> QED
      BY <3>1, <3>2 DEF RC!runGit, RC!Existing, RC!Dirty
  <2>4. CASE queries = <<"log">>
    <3>1. Head(queries) = "log" /\ queries' = <<>>
      BY <1>1, <2>4, FirstOfOne, Zenon
    <3>2. StillToAsk(queries')
      BY <3>1 DEF StillToAsk
    <3> QED
      BY <1>4, <2>1, <3>1, <3>2
  <2> QED
    <3>1. StillToAsk(queries)
      BY <1>0, <1>1 DEF ResultTypes
    <3> QED
      BY <1>1, <2>2, <2>3, <2>4, <3>1 DEF StillToAsk
<1>6. ResultTypes'
  BY <1>0, <1>1, <1>2, <1>5 DEF ResultTypes
<1>7. Dirtied'
  <2> SUFFICES ASSUME ~disturbed, NEW f \in begun.dirty
               PROVE  Followed(f)'
    BY <1>1 DEF Dirtied
  <2>1. Followed(f)
    BY <1>1 DEF ResultInv, Dirtied
  <2>2. (RC!Committed(begun.commits + 1))' = RC!Committed(begun.commits + 1)
    BY <1>1 DEF RC!Committed
  <2>3. CASE TooMany
    BY <2>3, <1>1 DEF Followed, TooMany
  <2>4. CASE /\ queries = <<"diff", "diff --cached", "log">>
             /\ f \in RC!Dirty \cup RC!Committed(begun.commits + 1)
    <3>1. Head(queries) = "diff" /\ queries' = <<"diff --cached", "log">>
      BY <1>1, <2>4, FirstOfThree, Zenon
    <3>2. changed' = changed \cup unstaged
      BY <1>1, <3>1 DEF RC!runGit
    <3>3. f \in changed' \cup staged' \cup RC!Committed(begun.commits + 1)'
      BY <1>1, <2>2, <2>4, <3>2 DEF RC!Dirty
    <3> QED
      BY <3>1, <3>3 DEF Followed
  <2>5. CASE /\ queries = <<"diff --cached", "log">>
             /\ f \in changed \cup staged \cup RC!Committed(begun.commits + 1)
    <3>1. Head(queries) = "diff --cached" /\ queries' = <<"log">>
      BY <1>1, <2>5, FirstOfTwo, Zenon
    <3>2. changed' = changed \cup staged
      BY <1>1, <3>1 DEF RC!runGit
    <3>3. f \in changed' \cup RC!Committed(begun.commits + 1)'
      BY <2>2, <2>5, <3>2
    <3> QED
      BY <3>1, <3>3 DEF Followed
  <2>6. CASE queries = <<"log">> /\ f \in changed \cup RC!Committed(begun.commits + 1) /\ ~TooMany
    <3>1. Head(queries) = "log" /\ queries' = <<>>
      BY <1>1, <2>6, FirstOfOne, Zenon
    <3>2. Depth \in Nat /\ begun.commits \in Nat
      BY <1>0 DEF ResultTypes
    <3>3. n <= begun.commits + 1
      BY <1>0, <1>4, <2>6, <3>2 DEF TooMany
    <3>4. RC!Committed(begun.commits + 1) \subseteq RC!Committed(n)
      BY <1>3, <3>2, <3>3
    <3>5. f \in changed'
      BY <1>1, <1>4, <2>6, <3>1, <3>4
    <3> QED
      BY <3>1, <3>5 DEF Followed
  <2> QED
    BY <1>1, <2>1, <2>3, <2>4, <2>5, <2>6 DEF Followed
<1>8. Searched' /\ Passed'
  BY <1>0, <1>1 DEF Searched, Passed, ResultTypes
<1> QED
  BY <1>6, <1>7, <1>8 DEF ResultInv

\* A file has its own name.
LEMMA NamesItself == \A f : RC!sameName(f, f)
BY DEF RC!sameName

\* What git or the layout of the repository names is shown; what it does not,
\* nobody has changed.
LEMMA NotAbsent ==
    ASSUME ResultTypes, NEW t, ~RC!absent(t)
    PROVE  Shown(t)
<1>1. t.form # "outside"
  BY DEF RC!absent
<1>2. CASE \E c \in changed : RC!sameName(c, t.path)
  BY <1>1, <1>2 DEF Shown, ResultTypes
<1>3. CASE RC!isDriftLessRegenerated(t.path)
  <2>1. t.path \in RC!Existing
    BY <1>3 DEF RC!isDriftLessRegenerated
  <2> QED
    BY <1>1, <2>1, NamesItself DEF Shown
<1> QED
  BY <1>2, <1>3, <1>1 DEF RC!absent

LEMMA VerifyKeeps == ResultInv /\ RC!VerifyTaskResults => ResultInv'
<1> SUFFICES ASSUME ResultInv, RC!VerifyTaskResults
             PROVE  ResultInv'
  OBVIOUS
<1>0. ResultTypes /\ Len(commits) \in Nat
  BY DEF ResultInv, ResultTypes
<1> DEFINE found == IF changed = {} THEN {} ELSE {t \in checked : RC!absent(t)}
<1>1. /\ pc = "git" /\ queries = <<>> /\ missing' = found
      /\ UNCHANGED <<commits, clock, task, unstaged, staged, untracked, queries, changed,
                     checked, begun, disturbed>>
  BY DEF RC!VerifyTaskResults, RC!repository
<1>2. \/ /\ found # {} /\ task.policy = "strict"
         /\ pc' = "history" /\ left' = found /\ verdict' = verdict
      \/ /\ found = {} \/ task.policy # "strict"
         /\ pc' = "end" /\ verdict' = "done" /\ left' = left
  BY Zenon DEF RC!VerifyTaskResults, RC!Passes
<1>3. RC!Existing' = RC!Existing
  BY <1>1 DEF RC!Existing, RC!Tracked, RC!Dirty, RC!Committed
<1>4. ResultTypes'
  BY <1>0, <1>1, <1>2, <1>3 DEF ResultTypes
<1>5. Dirtied'
  BY <1>2 DEF Dirtied
<1>6. ASSUME NEW t \in found, ~disturbed, t.form # "outside"
      PROVE  t.path \notin begun.dirty \/ TooMany
  <2>1. t.path \notin changed
    BY <1>6, NamesItself DEF RC!absent
  <2>2. t.path \in begun.dirty => Followed(t.path)
    BY <1>1, <1>6 DEF ResultInv, Dirtied
  <2> QED
    BY <1>1, <2>1, <2>2 DEF Followed
<1>7. Searched'
  <2>1. verdict' # "unverified"
    BY <1>0, <1>1, <1>2 DEF ResultTypes
  <2>2. ASSUME pc' = "history", NEW t \in found
        PROVE  Judged(t)'
    <3>1. t \in left'
      BY <1>2, <2>2
    <3> QED
      BY <1>1, <1>6, <3>1 DEF Judged, TooMany
  <2> QED
    BY <1>1, <2>1, <2>2 DEF Searched
<1>8. ASSUME changed # {}, NEW t \in checked
      PROVE  Shown(t) \/ t \in found
  BY <1>0, <1>8, NotAbsent
<1>9. Passed'
  <2>1. \A t : Shown(t)' <=> Shown(t)
    BY <1>3 DEF Shown, RC!sameName
  <2>2. CASE pc' = "history"
    <3>1. changed # {} /\ verdict' = "none"
      BY <1>0, <1>1, <1>2, <2>2 DEF ResultTypes
    <3> QED
      BY <1>1, <1>8, <2>1, <3>1 DEF Passed
  <2>3. CASE pc' = "end"
    <3>1. found = {} \/ task.policy # "strict"
      BY <1>2, <2>3
    <3> QED
      BY <1>1, <1>8, <2>1, <2>3, <3>1 DEF Passed
  <2> QED
    BY <1>2, <2>2, <2>3
<1> QED
  BY <1>4, <1>5, <1>7, <1>9 DEF ResultInv

LEMMA FallbackKeeps ==
    ASSUME ResultInv, NEW token \in left, RC!ApplyGitLogFallback(token)
    PROVE  ResultInv'
<1>0. ResultTypes /\ Len(commits) \in Nat
  BY DEF ResultInv, ResultTypes
<1>1. /\ pc = "history" /\ left' = left \ {token}
      /\ missing' = IF RC!pathInGitLogSince(token) THEN missing \ {token} ELSE missing
      /\ UNCHANGED <<commits, clock, task, unstaged, staged, untracked, pc, queries, changed,
                     checked, verdict, begun, disturbed>>
  BY DEF RC!ApplyGitLogFallback, RC!repository
<1>2. RC!Existing' = RC!Existing
  BY <1>1 DEF RC!Existing, RC!Tracked, RC!Dirty, RC!Committed
<1>3. verdict = "none"
  BY <1>0, <1>1 DEF ResultTypes
<1>4. ResultTypes' /\ Dirtied'
  BY <1>0, <1>1, <1>2 DEF ResultTypes, Dirtied
<1>5. ASSUME ~RC!pathInGitLogSince(token), token.form # "outside"
      PROVE  Unheard(token)
  <2> SUFFICES ASSUME NEW c \in 1..begun.commits,
                      commits[c].at >= 2 * (task.created + 1)
               PROVE  token.path \notin commits[c].files
    BY DEF Unheard
  <2>1. c \in 1..Len(commits) /\ commits[c] \in CommitType
    BY <1>0 DEF ResultTypes
  <2>2. clock \in Nat /\ task.created \in Nat /\ commits[c].at \in Nat
    BY <1>0, <2>1 DEF ResultTypes, CommitType
  <2>3. commits[c].at >= RC!normalizeSince(task.created)
    BY <2>2 DEF RC!normalizeSince
  <2>4. c \in DOMAIN commits
    BY <1>0, <2>1 DEF ResultTypes
  <2> QED
    BY <1>5, <2>3, <2>4 DEF RC!pathInGitLogSince
<1>6. Searched'
  <2> SUFFICES ASSUME NEW t \in missing'
               PROVE  Judged(t)'
    BY <1>1, <1>3 DEF Searched
  <2>1. t \in missing /\ Judged(t)
    BY <1>1 DEF ResultInv, Searched
  <2>2. t = token => ~RC!pathInGitLogSince(token)
    BY <1>1
  <2>3. t.form # "outside" => t \in left' \/ Unheard(t)
    BY <1>1, <1>5, <2>1, <2>2 DEF Judged
  <2> QED
    BY <1>1, <2>1, <2>3 DEF Judged, TooMany, Unheard
<1>7. RC!pathInGitLogSince(token) => Shown(token)
  <2> SUFFICES ASSUME RC!pathInGitLogSince(token)
               PROVE  Shown(token)
    OBVIOUS
  <2>1. PICK i \in DOMAIN commits : token.path \in commits[i].files
    BY DEF RC!pathInGitLogSince
  <2>2. i \in 1..Len(commits)
    BY <1>0 DEF ResultTypes
  <2>3. token.path \in RC!Existing
    BY <1>0, <2>1, <2>2, ExistingIs
  <2>4. token.form # "outside"
    BY DEF RC!pathInGitLogSince
  <2> QED
    BY <2>3, <2>4, NamesItself DEF Shown
<1>8. Passed'
  <2>1. \A t : Shown(t)' <=> Shown(t)
    BY <1>2 DEF Shown, RC!sameName
  <2>2. ASSUME NEW t \in checked PROVE Shown(t) \/ t \in missing'
    BY <1>1, <1>7 DEF ResultInv, Passed
  <2> QED
    BY <1>1, <1>3, <2>1, <2>2 DEF Passed
<1> QED
  BY <1>4, <1>6, <1>8 DEF ResultInv

LEMMA ConcludeKeeps == ResultInv /\ RC!Conclude => ResultInv'
<1> SUFFICES ASSUME ResultInv, RC!Conclude
             PROVE  ResultInv'
  OBVIOUS
<1>0. ResultTypes
  BY DEF ResultInv
<1>1. /\ pc = "history" /\ left = {} /\ pc' = "end"
      /\ UNCHANGED <<commits, clock, task, unstaged, staged, untracked, queries, changed,
                     checked, missing, left, begun, disturbed>>
  BY DEF RC!Conclude, RC!repository, RC!Passes, RC!Blocks
<1>2. \/ missing = {} /\ verdict' = "done"
      \/ missing # {} /\ verdict' = "unverified"
  BY Zenon DEF RC!Conclude, RC!Passes, RC!Blocks
<1>3. RC!Existing' = RC!Existing
  BY <1>1 DEF RC!Existing, RC!Tracked, RC!Dirty, RC!Committed
<1>4. ResultTypes' /\ Dirtied'
  BY <1>0, <1>1, <1>3 DEF ResultTypes, Dirtied
<1>5. Searched'
  <2>1. \A t \in missing : Judged(t)'
    BY <1>1 DEF ResultInv, Searched, Judged, TooMany, Unheard
  <2> QED
    BY <1>1, <2>1 DEF Searched
<1>6. Passed'
  <2>1. \A t : Shown(t)' <=> Shown(t)
    BY <1>3 DEF Shown, RC!sameName
  <2> QED
    BY <1>1, <1>2, <2>1 DEF Passed, ResultInv
<1> QED
  BY <1>4, <1>5, <1>6 DEF ResultInv

LEMMA ResultStep == ResultInv /\ [RC!Next]_(RC!resultVars) => ResultInv'
<1> SUFFICES ASSUME ResultInv, [RC!Next]_(RC!resultVars)
             PROVE  ResultInv'
  OBVIOUS
<1>1. CASE RC!Begin
  BY <1>1, BeginKeeps
<1>2. CASE RC!GetGitChangedFiles
  BY <1>2, GitKeeps
<1>3. CASE RC!VerifyTaskResults
  BY <1>3, VerifyKeeps
<1>4. CASE \E t \in left : RC!ApplyGitLogFallback(t)
  BY <1>4, FallbackKeeps
<1>5. CASE RC!Conclude
  BY <1>5, ConcludeKeeps
<1>6. CASE \E f \in File : RC!Write(f) \/ RC!Stage(f)
  BY <1>6, WriteIs, StageIs, AroundKeeps
<1>7. CASE RC!Commit \/ RC!Reset \/ RC!Tick
  BY <1>7, CommitIs, ResetIs, TickIs, AroundKeeps
<1>8. CASE UNCHANGED RC!resultVars
  BY <1>8 DEF RC!resultVars, ResultInv, ResultTypes, Dirtied, Followed, TooMany, Searched,
              Judged, Unheard, Passed, Shown, RC!Existing, RC!Tracked, RC!Dirty,
              RC!Committed, RC!sameName
<1> QED
  BY <1>1, <1>2, <1>3, <1>4, <1>5, <1>6, <1>7, <1>8 DEF RC!Next

\* `task complete` is not blocked by a file that was changed when its check began,
\* or committed on a later day than the Task was created, whatever the user stages
\* and commits between its queries of git; and what it lets pass strictly, git
\* knows of.
THEOREM CheckIsFair ==
    RC!ResultAssumption /\ RC!Spec => [](RC!ChangedNeverBlocks /\ RC!PassedWasChanged)
<1>1. RC!ResultAssumption /\ RC!Init => ResultInv
  BY ResultInitially
<1>2. ResultInv /\ [RC!Next]_(RC!resultVars) => ResultInv'
  BY ResultStep
<1>3. ResultInv => RC!ChangedNeverBlocks
  <2> SUFFICES ASSUME ResultInv, verdict = "unverified", ~disturbed,
                      Len(commits) - begun.commits <= Depth,
                      NEW t \in missing, t.form # "outside"
               PROVE  /\ t.path \notin begun.dirty
                      /\ \A c \in 1..begun.commits :
                            commits[c].at >= 2 * (task.created + 1)
                              => t.path \notin commits[c].files
    BY DEF RC!ChangedNeverBlocks
  <2>1. Judged(t) /\ left = {}
    BY DEF ResultInv, Searched
  <2>2. ~TooMany
    <3>1. Len(commits) \in Nat /\ begun.commits \in Nat /\ Depth \in Nat
      BY DEF ResultInv, ResultTypes
    <3> QED
      BY <3>1 DEF TooMany
  <2> QED
    BY <2>1, <2>2 DEF Judged, Unheard
<1>4. ResultInv => RC!PassedWasChanged
  BY DEF ResultInv, Passed, Shown, RC!PassedWasChanged
<1> QED
  BY <1>1, <1>2, <1>3, <1>4, PTL DEF RC!Spec

-----------------------------------------------------------------------------
(* The two stores.  View is what the one holds as the other would hold it; *)
(* each call leaves the same under it, unless it answers differently or is *)
(* one whose difference is hidden.                                         *)

\* What the SQLite store holds as the double would hold it.
Twin(r) == IF r # NoTask /\ r.sprint = Null THEN [r EXCEPT !.sprint = ST!Blank] ELSE r
Look(ts) == [t \in TaskId |-> Twin(ts[t])]
View(d) ==
    [tasks |-> Look(d.tasks), sprints |-> d.sprints,
     counter |-> d.counter, items |-> d.items, tickets |-> d.tickets,
     acked |-> d.acked, secret |-> d.secret]

StoreTyped(d) ==
    /\ d = [tasks |-> d.tasks, sprints |-> d.sprints, counter |-> d.counter,
            items |-> d.items, tickets |-> d.tickets, acked |-> d.acked, secret |-> d.secret]
    /\ d.tasks \in [TaskId -> ST!TaskRow \cup {NoTask}]
    /\ d.counter \in Int
    /\ d.items = [t \in TaskId |-> d.items[t]]
    /\ d.tickets = [t \in TaskId |-> d.tickets[t]]
    /\ \A t \in TaskId : d.tasks[t] = NoTask => d.tickets[t] = ST!Blank
    /\ d.acked # NoTask => d.acked \in Int

StoresKnown ==
    /\ TaskId \subseteq Nat /\ IsFiniteSet(TaskId) /\ Priority \in Seq(ST!Range(Priority))
    /\ {Null, ST!Blank} \cap SprintId = {} /\ Null # ST!Blank /\ NoTask \notin ST!TaskRow

\* The two calls leave the same, if they answer the same.
Same(s, m) == s.ok = m.ok /\ s.value = m.value => StoreTyped(s.store) /\ m.store = View(s.store)

\* A row of a Task is not the lack of one, and is seen as a row.
LEMMA TwinRow ==
    ASSUME StoresKnown, NEW r \in ST!TaskRow
    PROVE  /\ r # NoTask /\ Twin(r) # NoTask /\ Twin(r) \in ST!TaskRow
           /\ Twin(r).status = r.status /\ Twin(r).path = r.path /\ Twin(r).priority = r.priority
           /\ Twin(r).sprint = IF r.sprint = Null THEN ST!Blank ELSE r.sprint
BY DEF StoresKnown, Twin, ST!TaskRow

LEMMA TasksSet ==
    ASSUME NEW d, StoreTyped(d), StoresKnown,
           NEW F \in [TaskId -> ST!TaskRow \cup {NoTask}],
           \A t \in TaskId : F[t] = NoTask => d.tickets[t] = ST!Blank
    PROVE  /\ StoreTyped([d EXCEPT !.tasks = F])
           /\ View([d EXCEPT !.tasks = F]) = [View(d) EXCEPT !.tasks = Look(F)]
<1> DEFINE e == [tasks |-> F, sprints |-> d.sprints, counter |-> d.counter, items |-> d.items,
                 tickets |-> d.tickets, acked |-> d.acked, secret |-> d.secret]
<1>1. [d EXCEPT !.tasks = F] = e
  BY DEF StoreTyped
<1>2. StoreTyped(e)
  BY DEF StoreTyped
<1>3. View(e) = [View(d) EXCEPT !.tasks = Look(F)]
  BY DEF View
<1> HIDE DEF e
<1> QED
  BY <1>1, <1>2, <1>3

LEMMA RowSet ==
    ASSUME NEW d, StoreTyped(d), StoresKnown, NEW t \in TaskId, NEW x \in ST!TaskRow
    PROVE  /\ StoreTyped([d EXCEPT !.tasks[t] = x])
           /\ View([d EXCEPT !.tasks[t] = x]) = [View(d) EXCEPT !.tasks[t] = Twin(x)]
<1> DEFINE F == [d.tasks EXCEPT ![t] = x]
<1>1. F \in [TaskId -> ST!TaskRow \cup {NoTask}] /\ x # NoTask
  BY DEF StoreTyped, StoresKnown
<1>2. \A u \in TaskId : F[u] = NoTask => d.tickets[u] = ST!Blank
  BY <1>1 DEF StoreTyped
<1>3. Look(F) = [Look(d.tasks) EXCEPT ![t] = Twin(x)]
  BY <1>1 DEF StoreTyped, Look
<1>4. [View(d) EXCEPT !.tasks = Look(F)] = [View(d) EXCEPT !.tasks[t] = Twin(x)]
  BY <1>3 DEF View
<1>5. [d EXCEPT !.tasks = F] = [d EXCEPT !.tasks[t] = x]
  OBVIOUS
<1> HIDE DEF F
<1> QED
  BY <1>1, <1>2, <1>4, <1>5, TasksSet

LEMMA CounterSet ==
    ASSUME NEW d, StoreTyped(d), NEW n \in Int
    PROVE  /\ StoreTyped([d EXCEPT !.counter = n])
           /\ View([d EXCEPT !.counter = n]) = [View(d) EXCEPT !.counter = n]
           /\ View(d).counter = d.counter
<1> DEFINE e == [tasks |-> d.tasks, sprints |-> d.sprints, counter |-> n, items |-> d.items,
                 tickets |-> d.tickets, acked |-> d.acked, secret |-> d.secret]
<1>1. [d EXCEPT !.counter = n] = e
  BY DEF StoreTyped
<1>2. StoreTyped(e)
  BY DEF StoreTyped
<1>3. View(e) = [View(d) EXCEPT !.counter = n] /\ View(d).counter = d.counter
  BY DEF View
<1> HIDE DEF e
<1> QED
  BY <1>1, <1>2, <1>3

\* A row is there in both or in neither.
LEMMA TwinThere ==
    ASSUME NEW d, StoreTyped(d), StoresKnown, NEW t \in TaskId
    PROVE  /\ View(d).tasks[t] = Twin(d.tasks[t])
           /\ ST!has(View(d), t) <=> ST!has(d, t)
           /\ ST!has(d, t) => d.tasks[t] \in ST!TaskRow /\ View(d).tasks[t].status = d.tasks[t].status
           /\ ~ST!has(d, t) => View(d).tasks[t] = NoTask
<1>1. View(d).tasks[t] = Twin(d.tasks[t])
  BY DEF View, Look
<1>2. CASE d.tasks[t] = NoTask
  BY <1>1, <1>2 DEF Twin, ST!has
<1>3. CASE d.tasks[t] # NoTask
  <2>1. d.tasks[t] \in ST!TaskRow
    BY <1>3 DEF StoreTyped
  <2> QED
    BY <1>1, <1>3, <2>1, TwinRow DEF ST!has
<1> QED
  BY <1>2, <1>3

\* What is set in a row of the one is seen in that of the other.
LEMMA FieldSet ==
    ASSUME StoresKnown, NEW r \in ST!TaskRow
    PROVE  /\ \A v \in ST!TaskStatus : /\ [r EXCEPT !.status = v] \in ST!TaskRow
                                       /\ Twin([r EXCEPT !.status = v]) = [Twin(r) EXCEPT !.status = v]
           /\ \A v \in ST!Path : /\ [r EXCEPT !.path = v] \in ST!TaskRow
                                 /\ Twin([r EXCEPT !.path = v]) = [Twin(r) EXCEPT !.path = v]
           /\ \A v \in ST!Range(Priority) :
                 /\ [r EXCEPT !.priority = v] \in ST!TaskRow
                 /\ Twin([r EXCEPT !.priority = v]) = [Twin(r) EXCEPT !.priority = v]
           /\ \A v \in SprintId \cup {ST!Blank, Null} :
                 /\ [r EXCEPT !.sprint = v] \in ST!TaskRow
                 /\ Twin([r EXCEPT !.sprint = v])
                      = [Twin(r) EXCEPT !.sprint = IF v = Null THEN ST!Blank ELSE v]
<1>1. \A v \in ST!TaskStatus : /\ [r EXCEPT !.status = v] \in ST!TaskRow
                               /\ Twin([r EXCEPT !.status = v]) = [Twin(r) EXCEPT !.status = v]
  BY DEF StoresKnown, Twin, ST!TaskRow
<1>2. \A v \in ST!Path : /\ [r EXCEPT !.path = v] \in ST!TaskRow
                         /\ Twin([r EXCEPT !.path = v]) = [Twin(r) EXCEPT !.path = v]
  BY DEF StoresKnown, Twin, ST!TaskRow
<1>3. \A v \in ST!Range(Priority) :
         /\ [r EXCEPT !.priority = v] \in ST!TaskRow
         /\ Twin([r EXCEPT !.priority = v]) = [Twin(r) EXCEPT !.priority = v]
  BY DEF StoresKnown, Twin, ST!TaskRow
<1>4. \A v \in SprintId \cup {ST!Blank, Null} :
         /\ [r EXCEPT !.sprint = v] \in ST!TaskRow
         /\ Twin([r EXCEPT !.sprint = v])
              = [Twin(r) EXCEPT !.sprint = IF v = Null THEN ST!Blank ELSE v]
  BY DEF StoresKnown, Twin, ST!TaskRow
<1> QED
  BY <1>1, <1>2, <1>3, <1>4

LEMMA SaveSprintSame ==
    ASSUME NEW d, StoreTyped(d), StoresKnown, NEW p, NEW r
    PROVE  Same(ST!sqlSaveSprint(d, p, r),
                 ST!memSaveSprint(View(d), p, r))
BY DEF Same, StoreTyped, View, ST!sqlSaveSprint, ST!memSaveSprint, ST!done, ST!refused,
   ST!valued

LEMMA UpsertSprintInsertSame ==
    ASSUME NEW d, StoreTyped(d), StoresKnown, NEW p, NEW r
    PROVE  Same(ST!sqlUpsertSprintInsert(d, p, r),
                 ST!memUpsertSprintInsert(View(d), p, r))
BY DEF Same, StoreTyped, View, ST!sqlUpsertSprintInsert, ST!memUpsertSprintInsert,
   ST!done, ST!refused, ST!valued, ST!memSaveSprint

LEMMA InsertSprintIfMissingSame ==
    ASSUME NEW d, StoreTyped(d), StoresKnown, NEW p, NEW r
    PROVE  Same(ST!sqlInsertSprintIfMissing(d, p, r),
                 ST!memInsertSprintIfMissing(View(d), p, r))
BY DEF Same, StoreTyped, View, ST!sqlInsertSprintIfMissing,
   ST!memInsertSprintIfMissing, ST!done, ST!refused, ST!valued

LEMMA UpdateSprintStatusSame ==
    ASSUME NEW d, StoreTyped(d), NEW p, NEW st, NEW path
    PROVE  Same(ST!sqlUpdateSprintStatus(d, p, st, path),
                 ST!memUpdateSprintStatus(View(d), p, st, path))
<1>1. d.sprints = View(d).sprints
  BY DEF View
<1>2. CASE d.sprints[p] = NoTask
  BY <1>1, <1>2 DEF Same, ST!sqlUpdateSprintStatus, ST!memUpdateSprintStatus, ST!done, ST!refused
<1>3. CASE d.sprints[p] # NoTask
  <2> DEFINE S == [d.sprints EXCEPT ![p].status = st, ![p].path = IF path = ST!Blank THEN @ ELSE path]
  <2>1. ST!sqlUpdateSprintStatus(d, p, st, path) = ST!done([d EXCEPT !.sprints = S])
    BY <1>3 DEF ST!sqlUpdateSprintStatus
  <2>2. ST!memUpdateSprintStatus(View(d), p, st, path) = ST!done([View(d) EXCEPT !.sprints = S])
    BY <1>1, <1>3 DEF ST!memUpdateSprintStatus
  <2> HIDE DEF S
  <2> QED
    BY <2>1, <2>2 DEF Same, StoreTyped, View, ST!done
<1> QED
  BY <1>2, <1>3

LEMMA UpdateSprintMetadataSame ==
    ASSUME NEW d, StoreTyped(d), NEW p, NEW title, NEW path, NEW st
    PROVE  Same(ST!sqlUpdateSprintMetadata(d, p, title, path, st),
                 ST!memUpdateSprintMetadata(View(d), p, title, path, st))
<1>1. d.sprints = View(d).sprints
  BY DEF View
<1>2. CASE d.sprints[p] = NoTask
  BY <1>1, <1>2 DEF Same, ST!sqlUpdateSprintMetadata, ST!memUpdateSprintMetadata, ST!done,
                    ST!refused
<1>3. CASE d.sprints[p] # NoTask
  <2> DEFINE S == [d.sprints EXCEPT ![p].status = IF st = ST!Blank THEN @ ELSE st,
                                    ![p].title = IF title = ST!Blank THEN @ ELSE title,
                                    ![p].path = IF path = ST!Blank THEN @ ELSE path]
  <2>1. ST!sqlUpdateSprintMetadata(d, p, title, path, st) = ST!done([d EXCEPT !.sprints = S])
    BY <1>3 DEF ST!sqlUpdateSprintMetadata
  <2>2. ST!memUpdateSprintMetadata(View(d), p, title, path, st)
          = ST!done([View(d) EXCEPT !.sprints = S])
    BY <1>1, <1>3 DEF ST!memUpdateSprintMetadata
  <2> HIDE DEF S
  <2> QED
    BY <2>1, <2>2 DEF Same, StoreTyped, View, ST!done
<1> QED
  BY <1>2, <1>3

LEMMA UpdateTaskPathsForSprintSame ==
    ASSUME NEW d, StoreTyped(d), StoresKnown, NEW p \in SprintId,
           NEW from \in ST!Path, NEW to \in ST!Path
    PROVE  Same(ST!sqlUpdateTaskPathsForSprint(d, p, from, to),
                 ST!memUpdateTaskPathsForSprint(View(d), p, from, to))
<1> DEFINE F(ts) == [t \in TaskId |->
                        IF ts[t] # NoTask /\ ts[t].sprint = p
                        THEN [ts[t] EXCEPT !.path = ST!moved(ts[t].path, from, to)] ELSE ts[t]]
           G == F(d.tasks)
<1>1. /\ ST!sqlUpdateTaskPathsForSprint(d, p, from, to) = ST!done([d EXCEPT !.tasks = G])
      /\ ST!memUpdateTaskPathsForSprint(View(d), p, from, to)
           = ST!done([View(d) EXCEPT !.tasks = F(View(d).tasks)])
  BY DEF ST!sqlUpdateTaskPathsForSprint, ST!memUpdateTaskPathsForSprint, ST!has
<1>2. ASSUME NEW t \in TaskId
      PROVE  /\ G[t] \in ST!TaskRow \cup {NoTask}
             /\ G[t] = NoTask <=> d.tasks[t] = NoTask
             /\ Twin(G[t]) = F(View(d).tasks)[t]
  <2>1. CASE d.tasks[t] = NoTask
    <3>1. View(d).tasks[t] = NoTask /\ G[t] = NoTask
      BY <2>1, TwinThere DEF ST!has
    <3> QED
      BY <2>1, <3>1 DEF Twin
  <2>2. CASE d.tasks[t] # NoTask
    <3>1. d.tasks[t] \in ST!TaskRow /\ View(d).tasks[t] = Twin(d.tasks[t])
      BY <2>2, TwinThere DEF ST!has
    <3>2. ST!moved(d.tasks[t].path, from, to) \in ST!Path
      BY <3>1 DEF ST!moved, ST!TaskRow
    <3>3. /\ Twin(d.tasks[t]) # NoTask /\ Twin(d.tasks[t]).path = d.tasks[t].path
          /\ Twin(d.tasks[t]).sprint = p <=> d.tasks[t].sprint = p
      BY <3>1, TwinRow DEF StoresKnown
    <3> DEFINE x == [d.tasks[t] EXCEPT !.path = ST!moved(d.tasks[t].path, from, to)]
    <3>4. /\ x \in ST!TaskRow
          /\ Twin(x) = [Twin(d.tasks[t]) EXCEPT !.path = ST!moved(d.tasks[t].path, from, to)]
      BY <3>1, <3>2, FieldSet
    <3>5. G[t] = IF d.tasks[t].sprint = p THEN x ELSE d.tasks[t]
      BY <2>2
    <3>6. x # NoTask
      BY <3>4 DEF StoresKnown
    <3>7. F(View(d).tasks)[t] = IF d.tasks[t].sprint = p THEN Twin(x) ELSE Twin(d.tasks[t])
      BY <3>1, <3>3, <3>4
    <3> HIDE DEF x, G, F
    <3> QED
      BY <2>2, <3>1, <3>4, <3>5, <3>6, <3>7
  <2> QED
    BY <2>1, <2>2
<1>3. G \in [TaskId -> ST!TaskRow \cup {NoTask}]
  BY <1>2
<1>4. \A t \in TaskId : G[t] = NoTask => d.tickets[t] = ST!Blank
  BY <1>2 DEF StoreTyped
<1>5. Look(G) = F(View(d).tasks)
  BY <1>2 DEF Look
<1> HIDE DEF F, G
<1> QED
  BY <1>1, <1>3, <1>4, <1>5, TasksSet DEF Same, ST!done


\* What is written into one row, and what is refused by both.
LEMMA RowSame ==
    ASSUME NEW d, StoreTyped(d), StoresKnown, NEW t \in TaskId, NEW x \in ST!TaskRow
    PROVE  Same(ST!done([d EXCEPT !.tasks[t] = x]), ST!done([View(d) EXCEPT !.tasks[t] = Twin(x)]))
BY RowSet DEF Same, ST!done

LEMMA NoneSame == ASSUME NEW d, StoreTyped(d) PROVE Same(ST!refused(d), ST!refused(View(d)))
BY DEF Same, ST!refused

LEMMA OddSame == ASSUME NEW d, NEW e PROVE Same(ST!done(d), ST!refused(e))
BY DEF Same, ST!done, ST!refused

LEMMA LargerType == \A a, b \in Int : ST!Larger(a, b) \in Int
BY DEF ST!Larger

LEMMA CounterSame ==
    ASSUME NEW d, StoreTyped(d), NEW n \in Int, NEW v
    PROVE  /\ Same(ST!done([d EXCEPT !.counter = n]), ST!done([View(d) EXCEPT !.counter = n]))
           /\ Same(ST!valued([d EXCEPT !.counter = n], v), ST!valued([View(d) EXCEPT !.counter = n], v))
BY CounterSet DEF Same, ST!done, ST!valued

\* A Task that is inserted comes to be there in both.
LEMMA InsertedRow ==
    ASSUME StoresKnown, NEW r \in ST!NewTask
    PROVE  /\ r \in ST!TaskRow /\ Twin(r) = r
           /\ [r EXCEPT !.sprint = ST!orNull(r.sprint)] \in ST!TaskRow
           /\ Twin([r EXCEPT !.sprint = ST!orNull(r.sprint)]) = r
<1>1. /\ r = [status |-> r.status, sprint |-> r.sprint, path |-> r.path, priority |-> r.priority]
      /\ r.sprint \in SprintId \cup {ST!Blank} /\ r.priority \in ST!Range(Priority)
      /\ r.status \in ST!TaskStatus /\ r.path \in ST!Path
  BY DEF ST!NewTask, ST!TaskStatus, ST!Path
<1>2. r \in ST!TaskRow /\ r.sprint # Null
  BY <1>1 DEF ST!TaskRow, StoresKnown
<1>3. ST!orNull(r.sprint) = IF r.sprint = ST!Blank THEN Null ELSE r.sprint
  BY DEF ST!orNull
<1>4. ST!orNull(r.sprint) \in SprintId \cup {ST!Blank, Null}
  BY <1>1, <1>3
<1> DEFINE x == [r EXCEPT !.sprint = ST!orNull(r.sprint)]
<1>5. x \in ST!TaskRow /\ Twin(x) = [Twin(r) EXCEPT !.sprint = IF ST!orNull(r.sprint) = Null
                                                                THEN ST!Blank ELSE ST!orNull(r.sprint)]
  BY <1>2, <1>4, FieldSet
<1>6. Twin(r) = r
  BY <1>2 DEF Twin
<1>7. (IF ST!orNull(r.sprint) = Null THEN ST!Blank ELSE ST!orNull(r.sprint)) = r.sprint
  BY <1>1, <1>3 DEF StoresKnown
<1>8. Twin(x) = [r EXCEPT !.sprint = r.sprint]
  BY <1>5, <1>6, <1>7
<1>9. [r EXCEPT !.sprint = r.sprint] = r
  BY <1>1
<1> HIDE DEF x
<1> QED
  BY <1>2, <1>5, <1>6, <1>8, <1>9 DEF x

LEMMA InsertedIs ==
    ASSUME NEW d, StoreTyped(d), StoresKnown, NEW t \in TaskId, NEW r \in ST!NewTask,
           d.tasks[t] = NoTask
    PROVE  /\ StoreTyped(ST!sqlInserted(d, t, r, ST!Blank))
           /\ View(ST!sqlInserted(d, t, r, ST!Blank)) = [View(d) EXCEPT !.tasks[t] = r]
<1> DEFINE x == [r EXCEPT !.sprint = ST!orNull(r.sprint)]
<1>1. x \in ST!TaskRow /\ Twin(x) = r
  BY InsertedRow
<1>2. ST!sqlInserted(d, t, r, ST!Blank) = [d EXCEPT !.tasks[t] = x, !.tickets[t] = ST!Blank]
  BY DEF ST!sqlInserted, ST!has
<1>3. d.tickets = [d.tickets EXCEPT ![t] = ST!Blank]
  BY DEF StoreTyped
<1>4. [d EXCEPT !.tasks[t] = x, !.tickets[t] = ST!Blank] = [d EXCEPT !.tasks[t] = x]
  BY <1>3 DEF StoreTyped
<1> HIDE DEF x
<1> QED
  BY <1>1, <1>2, <1>4, RowSet

LEMMA CreateTaskSame ==
    ASSUME NEW d, StoreTyped(d), StoresKnown, NEW t \in TaskId, NEW r \in ST!NewTask, NEW k,
           k = ST!Blank \/ ST!has(d, t)
    PROVE  Same(ST!sqlCreateTask(d, t, r, k), ST!memCreateTask(View(d), t, r))
<1>1. CASE ST!has(d, t)
  BY <1>1, TwinThere, NoneSame DEF ST!sqlCreateTask, ST!memCreateTask
<1>2. CASE ~ST!has(d, t)
  <2>1. ST!sqlCreateTask(d, t, r, k) = ST!done(ST!sqlInserted(d, t, r, ST!Blank))
    BY <1>2 DEF ST!sqlCreateTask
  <2>2. ST!memCreateTask(View(d), t, r) = ST!done([View(d) EXCEPT !.tasks[t] = r])
    BY <1>2, TwinThere DEF ST!memCreateTask
  <2> QED
    BY <1>2, <2>1, <2>2, InsertedIs DEF Same, ST!done, ST!has
<1> QED
  BY <1>1, <1>2

\* Where a row is already, inserting it where there is none leaves all as it is.
LEMMA NotInserted ==
    ASSUME NEW d, StoreTyped(d), NEW t \in TaskId
    PROVE  [View(d) EXCEPT !.tasks[t] = View(d).tasks[t]] = View(d)
<1>1. [Look(d.tasks) EXCEPT ![t] = Look(d.tasks)[t]] = Look(d.tasks)
  BY DEF Look
<1> QED
  BY <1>1 DEF View

LEMMA UpsertTaskInsertSame ==
    ASSUME NEW d, StoreTyped(d), StoresKnown, NEW t \in TaskId, NEW r \in ST!NewTask, NEW k,
           k = ST!Blank \/ ST!has(d, t)
    PROVE  Same(ST!sqlUpsertTaskInsert(d, t, r, k), ST!memUpsertTaskInsert(View(d), t, r))
<1> DEFINE e == ST!sqlInserted(d, t, r, k)
           n == ST!Larger(d.counter, t)
<1>1. StoreTyped(e) /\ e.counter = d.counter
  <2>1. CASE ST!has(d, t)
    BY <2>1 DEF ST!sqlInserted
  <2>2. CASE ~ST!has(d, t)
    <3>1. StoreTyped(e) /\ View(e) = [View(d) EXCEPT !.tasks[t] = r]
      BY <2>2, InsertedIs DEF ST!has
    <3>2. View(e).counter = View(d).counter
      BY <3>1 DEF View
    <3> HIDE DEF e
    <3> QED
      BY <3>1, <3>2 DEF View
  <2> QED
    BY <2>1, <2>2
<1>2. ST!sqlUpsertTaskInsert(d, t, r, k) = ST!done([e EXCEPT !.counter = n])
  BY <1>1 DEF ST!sqlUpsertTaskInsert
<1>3. ST!memUpsertTaskInsert(View(d), t, r) = ST!done([View(e) EXCEPT !.counter = n])
  <2>1. View(d).counter = d.counter
    BY DEF View
  <2>2. CASE ST!has(d, t)
    <3>1. e = d /\ View(d).tasks[t] # NoTask
      BY <2>2, TwinThere DEF ST!sqlInserted, ST!has
    <3>2. ST!memUpsertTaskInsert(View(d), t, r)
            = ST!done([[View(d) EXCEPT !.tasks[t] = View(d).tasks[t]] EXCEPT !.counter = n])
      BY <3>1, <2>1 DEF ST!memUpsertTaskInsert
    <3> QED
      BY <3>1, <3>2, NotInserted
  <2>3. CASE ~ST!has(d, t)
    <3>1. View(e) = [View(d) EXCEPT !.tasks[t] = r] /\ View(d).tasks[t] = NoTask
      BY <2>3, TwinThere, InsertedIs DEF ST!has
    <3>2. ST!memUpsertTaskInsert(View(d), t, r)
            = ST!done([[View(d) EXCEPT !.tasks[t] = r] EXCEPT !.counter = n])
      BY <3>1, <2>1 DEF ST!memUpsertTaskInsert
    <3> QED
      BY <3>1, <3>2
  <2> QED
    BY <2>2, <2>3
<1>4. n \in Int
  BY LargerType DEF StoreTyped, StoresKnown
<1> HIDE DEF e, n
<1> QED
  BY <1>1, <1>2, <1>3, <1>4, CounterSame

LEMMA InsertTaskAndSyncCounterSame ==
    ASSUME NEW d, StoreTyped(d), StoresKnown, NEW t \in TaskId, NEW r \in ST!NewTask
    PROVE  Same(ST!sqlInsertTaskAndSyncCounter(d, t, r),
                 ST!memInsertTaskAndSyncCounter(View(d), t, r))
<1>1. CASE ST!has(d, t)
  BY <1>1, TwinThere, OddSame DEF ST!sqlInsertTaskAndSyncCounter, ST!memInsertTaskAndSyncCounter
<1>2. CASE ~ST!has(d, t)
  <2> DEFINE e == [d EXCEPT !.tasks[t] = r]
  <2>1. StoreTyped(e) /\ View(e) = [View(d) EXCEPT !.tasks[t] = r]
    <3>1. r \in ST!TaskRow /\ Twin(r) = r
      BY InsertedRow
    <3> QED
      BY <3>1, RowSet
  <2>2. ST!sqlInsertTaskAndSyncCounter(d, t, r)
          = ST!done([e EXCEPT !.counter = ST!Larger(d.counter, t)])
    BY <1>2 DEF ST!sqlInsertTaskAndSyncCounter, ST!has, StoreTyped
  <2>3. ST!memInsertTaskAndSyncCounter(View(d), t, r)
          = ST!done([[View(d) EXCEPT !.tasks[t] = r] EXCEPT !.counter = ST!Larger(d.counter, t)])
    BY <1>2, TwinThere DEF ST!memInsertTaskAndSyncCounter, View
  <2> HIDE DEF e
  <2>4. Same(ST!done([e EXCEPT !.counter = ST!Larger(d.counter, t)]),
              ST!done([View(e) EXCEPT !.counter = ST!Larger(d.counter, t)]))
    <3>1. ST!Larger(d.counter, t) \in Int
      BY LargerType DEF StoreTyped, StoresKnown
    <3> QED
      BY <2>1, <3>1, CounterSame
  <2> QED
    BY <2>1, <2>2, <2>3, <2>4
<1> QED
  BY <1>1, <1>2

-----------------------------------------------------------------------------

LEMMA StatusSame ==
    ASSUME NEW d, StoreTyped(d), StoresKnown, NEW t \in TaskId, NEW v \in ST!TaskStatus
    PROVE  Same(ST!sqlSet(d, t, "status", v), ST!memSet(View(d), t, "status", v))
<1>1. CASE ~ST!has(d, t)
  BY <1>1, TwinThere, OddSame DEF ST!sqlSet, ST!memSet
<1>2. CASE ST!has(d, t)
  <2> DEFINE x == [d.tasks[t] EXCEPT !.status = v]
  <2>1. d.tasks[t] \in ST!TaskRow /\ View(d).tasks[t] = Twin(d.tasks[t])
    BY <1>2, TwinThere
  <2>2. x \in ST!TaskRow /\ Twin(x) = [Twin(d.tasks[t]) EXCEPT !.status = v]
    BY <2>1, FieldSet
  <2>3. ST!sqlSet(d, t, "status", v) = ST!done([d EXCEPT !.tasks[t] = x])
    BY <1>2 DEF ST!sqlSet
  <2>4. ST!memSet(View(d), t, "status", v)
          = ST!done([View(d) EXCEPT !.tasks[t] = [Twin(d.tasks[t]) EXCEPT !.status = v]])
    BY <1>2, <2>1, TwinThere DEF ST!memSet
  <2> HIDE DEF x
  <2> QED
    BY <2>2, <2>3, <2>4, RowSame
<1> QED
  BY <1>1, <1>2

LEMMA PathSame ==
    ASSUME NEW d, StoreTyped(d), StoresKnown, NEW t \in TaskId, NEW v \in ST!Path
    PROVE  Same(ST!sqlSet(d, t, "path", v), ST!memSet(View(d), t, "path", v))
<1>1. CASE ~ST!has(d, t)
  BY <1>1, TwinThere, OddSame DEF ST!sqlSet, ST!memSet
<1>2. CASE ST!has(d, t)
  <2> DEFINE x == [d.tasks[t] EXCEPT !.path = v]
  <2>1. d.tasks[t] \in ST!TaskRow /\ View(d).tasks[t] = Twin(d.tasks[t])
    BY <1>2, TwinThere
  <2>2. x \in ST!TaskRow /\ Twin(x) = [Twin(d.tasks[t]) EXCEPT !.path = v]
    BY <2>1, FieldSet
  <2>3. ST!sqlSet(d, t, "path", v) = ST!done([d EXCEPT !.tasks[t] = x])
    BY <1>2 DEF ST!sqlSet
  <2>4. ST!memSet(View(d), t, "path", v)
          = ST!done([View(d) EXCEPT !.tasks[t] = [Twin(d.tasks[t]) EXCEPT !.path = v]])
    BY <1>2, <2>1, TwinThere DEF ST!memSet
  <2> HIDE DEF x
  <2> QED
    BY <2>2, <2>3, <2>4, RowSame
<1> QED
  BY <1>1, <1>2

LEMMA PrioritySame ==
    ASSUME NEW d, StoreTyped(d), StoresKnown, NEW t \in TaskId, NEW v \in ST!Range(Priority)
    PROVE  Same(ST!sqlSet(d, t, "priority", v), ST!memSet(View(d), t, "priority", v))
<1>1. CASE ~ST!has(d, t)
  BY <1>1, TwinThere, OddSame DEF ST!sqlSet, ST!memSet
<1>2. CASE ST!has(d, t)
  <2> DEFINE x == [d.tasks[t] EXCEPT !.priority = v]
  <2>1. d.tasks[t] \in ST!TaskRow /\ View(d).tasks[t] = Twin(d.tasks[t])
    BY <1>2, TwinThere
  <2>2. x \in ST!TaskRow /\ Twin(x) = [Twin(d.tasks[t]) EXCEPT !.priority = v]
    BY <2>1, FieldSet
  <2>3. ST!sqlSet(d, t, "priority", v) = ST!done([d EXCEPT !.tasks[t] = x])
    BY <1>2 DEF ST!sqlSet
  <2>4. ST!memSet(View(d), t, "priority", v)
          = ST!done([View(d) EXCEPT !.tasks[t] = [Twin(d.tasks[t]) EXCEPT !.priority = v]])
    BY <1>2, <2>1, TwinThere DEF ST!memSet
  <2> HIDE DEF x
  <2> QED
    BY <2>2, <2>3, <2>4, RowSame
<1> QED
  BY <1>1, <1>2

\* A Sprint is set as NULL or empty in the one, and as empty in the other.
LEMMA SprintSame ==
    ASSUME NEW d, StoreTyped(d), StoresKnown, NEW t \in TaskId,
           NEW v \in SprintId \cup {ST!Blank, Null}, NEW w, w = IF v = Null THEN ST!Blank ELSE v
    PROVE  Same(ST!sqlSet(d, t, "sprint", v), ST!memSet(View(d), t, "sprint", w))
<1>1. CASE ~ST!has(d, t)
  BY <1>1, TwinThere, OddSame DEF ST!sqlSet, ST!memSet
<1>2. CASE ST!has(d, t)
  <2> DEFINE x == [d.tasks[t] EXCEPT !.sprint = v]
  <2>1. d.tasks[t] \in ST!TaskRow /\ View(d).tasks[t] = Twin(d.tasks[t])
    BY <1>2, TwinThere
  <2>2. x \in ST!TaskRow /\ Twin(x) = [Twin(d.tasks[t]) EXCEPT !.sprint = w]
    BY <2>1, FieldSet
  <2>3. ST!sqlSet(d, t, "sprint", v) = ST!done([d EXCEPT !.tasks[t] = x])
    BY <1>2 DEF ST!sqlSet
  <2>4. ST!memSet(View(d), t, "sprint", w)
          = ST!done([View(d) EXCEPT !.tasks[t] = [Twin(d.tasks[t]) EXCEPT !.sprint = w]])
    BY <1>2, <2>1, TwinThere DEF ST!memSet
  <2> HIDE DEF x
  <2> QED
    BY <2>2, <2>3, <2>4, RowSame
<1> QED
  BY <1>1, <1>2

LEMMA TransitionTaskStatusSame ==
    ASSUME NEW d, StoreTyped(d), StoresKnown, NEW t \in TaskId, NEW was, NEW v \in ST!TaskStatus
    PROVE  Same(ST!sqlTransitionTaskStatus(d, t, was, v),
                 ST!memTransitionTaskStatus(View(d), t, was, v))
<1>1. ST!has(View(d), t) /\ View(d).tasks[t].status = was
        <=> ST!has(d, t) /\ d.tasks[t].status = was
  BY TwinThere
<1> QED
  BY <1>1, StatusSame, NoneSame DEF ST!sqlTransitionTaskStatus, ST!memTransitionTaskStatus

LEMMA TransitionTaskAtomicSame ==
    ASSUME NEW d, StoreTyped(d), StoresKnown, NEW t \in TaskId, NEW was, NEW v \in ST!TaskStatus,
           NEW fileOp \in ST!Path \cup {"fails"}
    PROVE  Same(ST!sqlTransitionTaskAtomic(d, t, was, v, fileOp),
                 ST!memTransitionTaskAtomic(View(d), t, was, v, fileOp))
<1>1. ~ST!has(View(d), t) \/ View(d).tasks[t].status # was \/ fileOp = "fails"
        <=> ~ST!has(d, t) \/ d.tasks[t].status # was \/ fileOp = "fails"
  BY TwinThere
<1>2. CASE ~ST!has(d, t) \/ d.tasks[t].status # was \/ fileOp = "fails"
  BY <1>1, <1>2, NoneSame DEF ST!sqlTransitionTaskAtomic, ST!memTransitionTaskAtomic
<1>3. CASE ~(~ST!has(d, t) \/ d.tasks[t].status # was \/ fileOp = "fails")
  <2> DEFINE r == d.tasks[t]
             q == IF fileOp = ST!Blank THEN r.path ELSE fileOp
             y == [r EXCEPT !.status = v]
             x == [y EXCEPT !.path = q]
  <2>1. r \in ST!TaskRow /\ View(d).tasks[t] = Twin(r) /\ Twin(r).path = r.path
    BY <1>3, TwinThere, TwinRow
  <2>2. q \in ST!Path
    BY <1>3, <2>1 DEF ST!TaskRow
  <2>3. y \in ST!TaskRow /\ Twin(y) = [Twin(r) EXCEPT !.status = v]
    BY <2>1, FieldSet
  <2>4. x \in ST!TaskRow /\ Twin(x) = [[Twin(r) EXCEPT !.status = v] EXCEPT !.path = q]
    <3> HIDE DEF y, q
    <3>1. x \in ST!TaskRow /\ Twin(x) = [Twin(y) EXCEPT !.path = q]
      BY <2>2, <2>3, FieldSet
    <3> QED
      BY <2>3, <3>1
  <2>5. ST!sqlTransitionTaskAtomic(d, t, was, v, fileOp) = ST!done([d EXCEPT !.tasks[t] = x])
    BY <1>3 DEF ST!sqlTransitionTaskAtomic
  <2>6. ST!memTransitionTaskAtomic(View(d), t, was, v, fileOp)
          = ST!done([View(d) EXCEPT !.tasks[t] = [[Twin(r) EXCEPT !.status = v] EXCEPT !.path = q]])
    BY <1>1, <1>3, <2>1 DEF ST!memTransitionTaskAtomic
  <2> HIDE DEF x, q, r
  <2> QED
    BY <2>4, <2>5, <2>6, RowSame
<1> QED
  BY <1>2, <1>3

LEMMA DeleteTaskSame ==
    ASSUME NEW d, StoreTyped(d), StoresKnown, NEW t \in TaskId, d.items[t] = ST!noItems
    PROVE  Same(ST!sqlDeleteTask(d, t), ST!memDeleteTask(View(d), t))
<1> DEFINE F == [d.tasks EXCEPT ![t] = NoTask]
           K == [d.tickets EXCEPT ![t] = ST!Blank]
           d1 == [d EXCEPT !.tasks = F]
           y == View(d)
           y1 == [y EXCEPT !.tasks = Look(F)]
           y2 == [y1 EXCEPT !.items = d.items]
           e == [tasks |-> F, sprints |-> d.sprints, counter |-> d.counter, items |-> d.items,
                 tickets |-> K, acked |-> d.acked, secret |-> d.secret]
<1>1. /\ F \in [TaskId -> ST!TaskRow \cup {NoTask}]
      /\ K = [u \in TaskId |-> K[u]]
      /\ \A u \in TaskId : F[u] = NoTask => K[u] = ST!Blank
  BY DEF StoreTyped
<1>2. Look(F) = [Look(d.tasks) EXCEPT ![t] = NoTask]
  <2>1. Twin(NoTask) = NoTask
    BY DEF Twin
  <2> QED
    BY <2>1 DEF Look, StoreTyped
<1>3. [d.items EXCEPT ![t] = ST!noItems] = d.items
  BY DEF StoreTyped
<1>4. ST!sqlDeleteTask(d, t) = ST!done([d1 EXCEPT !.tickets = K])
  BY DEF ST!sqlDeleteTask
<1>5. /\ y.tasks = Look(d.tasks) /\ y.items = d.items /\ y.tickets = d.tickets
      /\ y = [tasks |-> y.tasks, sprints |-> d.sprints, counter |-> d.counter,
              items |-> d.items, tickets |-> d.tickets, acked |-> d.acked, secret |-> d.secret]
  BY DEF View
<1>6. ST!memDeleteTask(View(d), t) = ST!done([y2 EXCEPT !.tickets = K])
  <2>1. [y.tasks EXCEPT ![t] = NoTask] = Look(F)
    BY <1>2, <1>5
  <2>2. [y.items EXCEPT ![t] = ST!noItems] = d.items
    BY <1>3, <1>5
  <2>3. [y.tickets EXCEPT ![t] = ST!Blank] = K
    BY <1>5
  <2> HIDE DEF F, K
  <2> QED
    BY <2>1, <2>2, <2>3 DEF ST!memDeleteTask
<1> HIDE DEF F, K, y
<1>7. [d1 EXCEPT !.tickets = K] = e
  <2>1. d1 = [tasks |-> F, sprints |-> d.sprints, counter |-> d.counter, items |-> d.items,
              tickets |-> d.tickets, acked |-> d.acked, secret |-> d.secret]
    BY DEF StoreTyped
  <2> HIDE DEF d1
  <2> QED
    BY <2>1
<1>8. [y2 EXCEPT !.tickets = K] = View(e)
  <2>1. y1 = [tasks |-> Look(F), sprints |-> d.sprints, counter |-> d.counter,
              items |-> d.items, tickets |-> d.tickets, acked |-> d.acked, secret |-> d.secret]
    BY <1>5
  <2> HIDE DEF y1
  <2>2. y2 = [tasks |-> Look(F), sprints |-> d.sprints, counter |-> d.counter,
              items |-> d.items, tickets |-> d.tickets, acked |-> d.acked, secret |-> d.secret]
    BY <2>1
  <2>3. View(e) = [tasks |-> Look(F), sprints |-> d.sprints, counter |-> d.counter,
                   items |-> d.items, tickets |-> K, acked |-> d.acked, secret |-> d.secret]
    BY DEF View
  <2> HIDE DEF y2, e
  <2> QED
    BY <2>2, <2>3
<1>9. StoreTyped(e)
  BY <1>1 DEF StoreTyped
<1> HIDE DEF e, d1, y2
<1> QED
  BY <1>4, <1>6, <1>7, <1>8, <1>9 DEF Same, ST!done

LEMMA ArchiveTasksSame ==
    ASSUME NEW d, StoreTyped(d), StoresKnown, NEW s
    PROVE  Same(ST!sqlArchiveTasks(d, s), ST!memArchiveTasks(View(d), s))
<1> DEFINE F(ts) == [t \in TaskId |-> IF t \in s /\ ts[t] # NoTask
                                      THEN [ts[t] EXCEPT !.status = "archived"] ELSE ts[t]]
           G == F(d.tasks)
<1>1. /\ ST!sqlArchiveTasks(d, s) = ST!done([d EXCEPT !.tasks = G])
      /\ ST!memArchiveTasks(View(d), s) = ST!done([View(d) EXCEPT !.tasks = F(View(d).tasks)])
  BY DEF ST!sqlArchiveTasks, ST!memArchiveTasks, ST!has
<1>2. ASSUME NEW t \in TaskId
      PROVE  /\ G[t] \in ST!TaskRow \cup {NoTask}
             /\ G[t] = NoTask <=> d.tasks[t] = NoTask
             /\ Twin(G[t]) = F(View(d).tasks)[t]
  <2>1. CASE d.tasks[t] = NoTask
    <3>1. View(d).tasks[t] = NoTask /\ G[t] = NoTask
      BY <2>1, TwinThere DEF ST!has
    <3> QED
      BY <2>1, <3>1 DEF Twin
  <2>2. CASE d.tasks[t] # NoTask
    <3> DEFINE x == [d.tasks[t] EXCEPT !.status = "archived"]
    <3>1. d.tasks[t] \in ST!TaskRow /\ View(d).tasks[t] = Twin(d.tasks[t])
      BY <2>2, TwinThere DEF ST!has
    <3>2. /\ x \in ST!TaskRow
          /\ Twin(x) = [Twin(d.tasks[t]) EXCEPT !.status = "archived"]
      BY <3>1, FieldSet DEF ST!TaskStatus
    <3>3. Twin(d.tasks[t]) # NoTask /\ x # NoTask
      BY <3>1, <3>2, TwinRow DEF StoresKnown
    <3>4. G[t] = IF t \in s THEN x ELSE d.tasks[t]
      BY <2>2
    <3>5. F(View(d).tasks)[t] = IF t \in s THEN Twin(x) ELSE Twin(d.tasks[t])
      BY <3>1, <3>2, <3>3
    <3> HIDE DEF x, G, F
    <3> QED
      BY <2>2, <3>1, <3>2, <3>3, <3>4, <3>5
  <2> QED
    BY <2>1, <2>2
<1>3. G \in [TaskId -> ST!TaskRow \cup {NoTask}]
  BY <1>2
<1>4. \A t \in TaskId : G[t] = NoTask => d.tickets[t] = ST!Blank
  BY <1>2 DEF StoreTyped
<1>5. Look(G) = F(View(d).tasks)
  BY <1>2 DEF Look
<1> HIDE DEF F, G
<1> QED
  BY <1>1, <1>3, <1>4, <1>5, TasksSet DEF Same, ST!done

\* The numbers, the items, the tickets and what the project has one of.
LEMMA SameHighest ==
    ASSUME NEW d, StoreTyped(d), StoresKnown
    PROVE  ST!highest(View(d)) = ST!highest(d)
<1>1. {t \in TaskId : ST!has(View(d), t)} = {t \in TaskId : ST!has(d, t)}
  BY TwinThere
<1> QED
  BY <1>1 DEF ST!highest

LEMMA HighestType ==
    ASSUME NEW d, StoresKnown
    PROVE  ST!highest(d) \in Int
<1> DEFINE S == {0} \cup {t \in TaskId : ST!has(d, t)}
<1>1. S \in SUBSET Int /\ S # {}
  <2>1. \A t \in TaskId : t \in Int
    BY DEF StoresKnown
  <2>2. \A t \in S : t = 0 \/ t \in TaskId
    OBVIOUS
  <2>3. 0 \in S
    OBVIOUS
  <2> HIDE DEF S
  <2> QED
    BY <2>1, <2>2, <2>3
<1>2. IsFiniteSet(S)
  <2>1. IsFiniteSet({t \in TaskId : ST!has(d, t)})
    BY FS_Subset DEF StoresKnown
  <2> QED
    BY <2>1, FS_Singleton, FS_Union
<1>3. \E m \in S : \A y \in S : m >= y
  <2> HIDE DEF S
  <2> QED
    BY <1>1, <1>2, LargestExists DEF Largest
<1>4. ST!highest(d) = ST!Max(S)
  BY DEF ST!highest
<1>5. ST!Max(S) \in S
  <2> HIDE DEF S
  <2> QED
    BY <1>3 DEF ST!Max
<1> QED
  BY <1>1, <1>4, <1>5

LEMMA CountersSame ==
    ASSUME NEW d, StoreTyped(d), StoresKnown, NEW n \in Int
    PROVE  /\ Same(ST!sqlHealAndGetNextTaskID(d), ST!memHealAndGetNextTaskID(View(d)))
           /\ Same(ST!sqlNextCounter(d), ST!memNextCounter(View(d)))
           /\ Same(ST!sqlBumpTaskCounter(d, n), ST!memBumpTaskCounter(View(d), n))
           /\ Same(ST!sqlSetCounterMax(d, n), ST!memSetCounterMax(View(d), n))
<1>1. View(d).counter = d.counter /\ d.counter \in Int
  BY DEF View, StoreTyped
<1> DEFINE h == ST!Larger(d.counter, ST!highest(d)) + 1
           k == d.counter + 1
           l == ST!Larger(d.counter, n)
<1>2. Same(ST!sqlHealAndGetNextTaskID(d), ST!memHealAndGetNextTaskID(View(d)))
  <2>1. /\ ST!sqlHealAndGetNextTaskID(d) = ST!valued([d EXCEPT !.counter = h], h)
        /\ ST!memHealAndGetNextTaskID(View(d)) = ST!valued([View(d) EXCEPT !.counter = h], h)
    BY <1>1, SameHighest DEF ST!sqlHealAndGetNextTaskID, ST!memHealAndGetNextTaskID
  <2>2. h \in Int
    <3>1. ST!Larger(d.counter, ST!highest(d)) \in Int
      BY <1>1, HighestType, LargerType
    <3> QED
      BY <3>1
  <2> HIDE DEF h
  <2> QED
    BY <2>1, <2>2, CounterSame
<1>3. Same(ST!sqlNextCounter(d), ST!memNextCounter(View(d)))
  <2>1. /\ ST!sqlNextCounter(d) = ST!valued([d EXCEPT !.counter = k], k)
        /\ ST!memNextCounter(View(d)) = ST!valued([View(d) EXCEPT !.counter = k], k)
    BY <1>1 DEF ST!sqlNextCounter, ST!memNextCounter
  <2>2. k \in Int
    BY <1>1
  <2> HIDE DEF k
  <2> QED
    BY <2>1, <2>2, CounterSame
<1>4. /\ Same(ST!sqlBumpTaskCounter(d, n), ST!memBumpTaskCounter(View(d), n))
      /\ Same(ST!sqlSetCounterMax(d, n), ST!memSetCounterMax(View(d), n))
  <2>1. /\ (IF d.counter < n THEN n ELSE d.counter) = l
        /\ (IF n > d.counter THEN n ELSE d.counter) = l
    BY <1>1 DEF ST!Larger
  <2>2. /\ ST!sqlBumpTaskCounter(d, n) = ST!done([d EXCEPT !.counter = l])
        /\ ST!sqlSetCounterMax(d, n) = ST!done([d EXCEPT !.counter = l])
    BY DEF ST!sqlBumpTaskCounter, ST!sqlSetCounterMax
  <2>3. /\ ST!memBumpTaskCounter(View(d), n) = ST!done([View(d) EXCEPT !.counter = l])
        /\ ST!memSetCounterMax(View(d), n) = ST!done([View(d) EXCEPT !.counter = l])
    BY <1>1, <2>1 DEF ST!memBumpTaskCounter, ST!memSetCounterMax
  <2>4. l \in Int
    BY <1>1, LargerType
  <2> HIDE DEF l
  <2> QED
    BY <2>2, <2>3, <2>4, CounterSame
<1> QED
  BY <1>2, <1>3, <1>4

LEMMA ItemsSame ==
    ASSUME NEW d, StoreTyped(d), NEW I, I = [t \in TaskId |-> I[t]]
    PROVE  Same(ST!done([d EXCEPT !.items = I]), ST!done([View(d) EXCEPT !.items = I]))
<1> DEFINE e == [tasks |-> d.tasks, sprints |-> d.sprints, counter |-> d.counter, items |-> I,
                 tickets |-> d.tickets, acked |-> d.acked, secret |-> d.secret]
<1>1. [d EXCEPT !.items = I] = e
  BY DEF StoreTyped
<1>2. StoreTyped(e)
  BY DEF StoreTyped
<1>3. View(e) = [View(d) EXCEPT !.items = I]
  BY DEF View
<1> HIDE DEF e
<1> QED
  BY <1>1, <1>2, <1>3 DEF Same, ST!done

LEMMA HarnessSame ==
    ASSUME NEW d, StoreTyped(d), NEW t \in TaskId, NEW s, NEW i
    PROVE  /\ Same(ST!sqlEnsureHarnessItems(d, t, s), ST!memEnsureHarnessItems(View(d), t, s))
           /\ Same(ST!sqlCheckHarnessItem(d, t, i), ST!memCheckHarnessItem(View(d), t, i))
           /\ Same(ST!sqlResetTaskHarness(d, t), ST!memResetTaskHarness(View(d), t))
           /\ Same(ST!sqlDeleteHarnessItemsForEntity(d, t),
                    ST!memDeleteHarnessItemsForEntity(View(d), t))
<1>1. View(d).items = d.items /\ d.items = [u \in TaskId |-> d.items[u]]
  BY DEF View, StoreTyped
<1> DEFINE E == [d.items EXCEPT ![t] = [j \in ST!HarnessItem |->
                    IF j \in s /\ @[j] = "absent" THEN "open" ELSE @[j]]]
           C == [d.items EXCEPT ![t][i] = "done"]
           N == [d.items EXCEPT ![t] = ST!noItems]
<1>2. E = [u \in TaskId |-> E[u]] /\ C = [u \in TaskId |-> C[u]] /\ N = [u \in TaskId |-> N[u]]
  BY <1>1
<1>3. /\ ST!sqlEnsureHarnessItems(d, t, s) = ST!done([d EXCEPT !.items = E])
      /\ ST!memEnsureHarnessItems(View(d), t, s) = ST!done([View(d) EXCEPT !.items = E])
  BY <1>1 DEF ST!sqlEnsureHarnessItems, ST!memEnsureHarnessItems
<1>4. Same(ST!sqlCheckHarnessItem(d, t, i), ST!memCheckHarnessItem(View(d), t, i))
  <2>1. CASE d.items[t][i] = "absent"
    BY <1>1, <2>1, OddSame DEF ST!sqlCheckHarnessItem, ST!memCheckHarnessItem
  <2>2. CASE d.items[t][i] # "absent"
    <3>1. /\ ST!sqlCheckHarnessItem(d, t, i) = ST!done([d EXCEPT !.items = C])
          /\ ST!memCheckHarnessItem(View(d), t, i) = ST!done([View(d) EXCEPT !.items = C])
      BY <1>1, <2>2 DEF ST!sqlCheckHarnessItem, ST!memCheckHarnessItem
    <3> HIDE DEF C
    <3> QED
      BY <1>2, <3>1, ItemsSame
  <2> QED
    BY <2>1, <2>2
<1>5. /\ ST!sqlResetTaskHarness(d, t) = ST!done([d EXCEPT !.items = N])
      /\ ST!memResetTaskHarness(View(d), t) = ST!done([View(d) EXCEPT !.items = N])
      /\ ST!sqlDeleteHarnessItemsForEntity(d, t) = ST!done([d EXCEPT !.items = N])
      /\ ST!memDeleteHarnessItemsForEntity(View(d), t) = ST!done([View(d) EXCEPT !.items = N])
  BY <1>1 DEF ST!sqlResetTaskHarness, ST!memResetTaskHarness, ST!sqlDeleteHarnessItemsForEntity,
              ST!memDeleteHarnessItemsForEntity
<1> HIDE DEF E, N
<1> QED
  BY <1>2, <1>3, <1>4, <1>5, ItemsSame

LEMMA SetTaskWorkTicketSame ==
    ASSUME NEW d, StoreTyped(d), NEW t \in TaskId, NEW k, ST!has(d, t)
    PROVE  Same(ST!sqlSetTaskWorkTicket(d, t, k), ST!memSetTaskWorkTicket(View(d), t, k))
<1> DEFINE K == [d.tickets EXCEPT ![t] = k]
           e == [tasks |-> d.tasks, sprints |-> d.sprints, counter |-> d.counter,
                 items |-> d.items, tickets |-> K, acked |-> d.acked, secret |-> d.secret]
<1>1. /\ ST!sqlSetTaskWorkTicket(d, t, k) = ST!done([d EXCEPT !.tickets = K])
      /\ ST!memSetTaskWorkTicket(View(d), t, k) = ST!done([View(d) EXCEPT !.tickets = K])
  <2>1. View(d).tickets = d.tickets
    BY DEF View
  <2> QED
    BY <2>1 DEF ST!sqlSetTaskWorkTicket, ST!memSetTaskWorkTicket
<1>2. /\ K = [u \in TaskId |-> K[u]]
      /\ \A u \in TaskId : d.tasks[u] = NoTask => K[u] = ST!Blank
  BY DEF StoreTyped, ST!has
<1> HIDE DEF K
<1>3. [d EXCEPT !.tickets = K] = e
  BY DEF StoreTyped
<1>4. StoreTyped(e)
  BY <1>2 DEF StoreTyped
<1>5. View(e) = [View(d) EXCEPT !.tickets = K]
  BY DEF View
<1> HIDE DEF e
<1> QED
  BY <1>1, <1>3, <1>4, <1>5 DEF Same, ST!done

LEMMA ProjectSame ==
    ASSUME NEW d, StoreTyped(d), minute \in Int
    PROVE  /\ Same(ST!sqlInsertContextAck(d), ST!memInsertContextAck(View(d)))
           /\ Same(ST!sqlEnsureProjectSecret(d), ST!memEnsureProjectSecret(View(d)))
           /\ d.secret # NoTask => Same(ST!sqlRotateProjectSecret(d), ST!memRotateProjectSecret(View(d)))
<1>1. View(d).acked = d.acked /\ View(d).secret = d.secret
  BY DEF View
<1>2. ASSUME NEW v
      PROVE  /\ v \in Int \cup {NoTask} =>
                   Same(ST!done([d EXCEPT !.acked = v]), ST!done([View(d) EXCEPT !.acked = v]))
             /\ Same(ST!done([d EXCEPT !.secret = v]), ST!done([View(d) EXCEPT !.secret = v]))
  <2> DEFINE e == [tasks |-> d.tasks, sprints |-> d.sprints, counter |-> d.counter,
                   items |-> d.items, tickets |-> d.tickets, acked |-> v, secret |-> d.secret]
             f == [tasks |-> d.tasks, sprints |-> d.sprints, counter |-> d.counter,
                   items |-> d.items, tickets |-> d.tickets, acked |-> d.acked, secret |-> v]
  <2>1. [d EXCEPT !.acked = v] = e /\ [d EXCEPT !.secret = v] = f
    BY DEF StoreTyped
  <2>2. (v \in Int \cup {NoTask} => StoreTyped(e)) /\ StoreTyped(f)
    BY DEF StoreTyped
  <2>3. View(e) = [View(d) EXCEPT !.acked = v] /\ View(f) = [View(d) EXCEPT !.secret = v]
    BY DEF View
  <2> HIDE DEF e, f
  <2> QED
    BY <2>1, <2>2, <2>3 DEF Same, ST!done
<1> DEFINE a == IF d.acked = NoTask THEN minute ELSE d.acked
           b == IF d.secret = NoTask THEN "made" ELSE d.secret
<1>3. /\ ST!sqlInsertContextAck(d) = ST!done([d EXCEPT !.acked = a])
      /\ ST!memInsertContextAck(View(d)) = ST!done([View(d) EXCEPT !.acked = a])
      /\ ST!sqlEnsureProjectSecret(d) = ST!done([d EXCEPT !.secret = b])
      /\ ST!memEnsureProjectSecret(View(d)) = ST!done([View(d) EXCEPT !.secret = b])
  BY <1>1 DEF ST!sqlInsertContextAck, ST!memInsertContextAck, ST!sqlEnsureProjectSecret,
              ST!memEnsureProjectSecret
<1>4. ASSUME d.secret # NoTask
      PROVE  /\ ST!sqlRotateProjectSecret(d) = ST!done([d EXCEPT !.secret = "rotated"])
             /\ ST!memRotateProjectSecret(View(d)) = ST!done([View(d) EXCEPT !.secret = "rotated"])
  BY <1>4 DEF ST!sqlRotateProjectSecret, ST!memRotateProjectSecret
<1>5. a \in Int \cup {NoTask}
  BY DEF StoreTyped
<1> HIDE DEF a, b
<1> QED
  BY <1>2, <1>3, <1>4, <1>5

-----------------------------------------------------------------------------
(* Every call, and the theorem. *)

StoresInv == minute \in Int /\ (alike => StoreTyped(sql) /\ mem = View(sql))

LEMMA StoresStart ==
    ASSUME ST!StoresAssumption, ST!Init
    PROVE  StoresInv
<1>1. sql \in ST!Store /\ \A t \in TaskId : sql.tasks[t] = NoTask => sql.tickets[t] = ST!Blank
  BY DEF ST!StoresAssumption, ST!Init
<1>2. StoreTyped(sql)
  BY <1>1 DEF StoreTyped, ST!Store
<1>3. mem = View(sql)
  <2> DEFINE F == [t \in TaskId |->
                     IF ST!has(sql, t) /\ sql.tasks[t].sprint = Null
                     THEN [sql.tasks[t] EXCEPT !.sprint = ST!Blank] ELSE sql.tasks[t]]
  <2>1. mem = [sql EXCEPT !.tasks = F]
    BY DEF ST!Init
  <2>2. F = Look(sql.tasks)
    BY DEF Look, Twin, ST!has
  <2> HIDE DEF F
  <2> QED
    BY <1>2, <2>1, <2>2 DEF StoreTyped, View
<1>4. minute \in Int
  BY DEF ST!Init
<1> QED
  BY <1>2, <1>3, <1>4 DEF StoresInv

\* A call of both keeps them the same if it does so wherever nothing is hidden.
LEMMA CallKeeps ==
    ASSUME NEW s, NEW m, NEW h, StoresInv, ST!Call(s, m, h),
           alike /\ StoreTyped(sql) /\ mem = View(sql) /\ ~h => Same(s, m)
    PROVE  StoresInv'
<1>1. /\ sql' = s.store /\ mem' = m.store
      /\ alike' = (alike /\ s.ok = m.ok /\ s.value = m.value /\ ~h)
      /\ minute' = minute
  BY DEF ST!Call
<1>2. SUFFICES ASSUME alike'
               PROVE  StoreTyped(sql') /\ mem' = View(sql')
  BY <1>1 DEF StoresInv
<1>3. alike /\ s.ok = m.ok /\ s.value = m.value /\ ~h
  BY <1>1, <1>2, Zenon
<1>4. StoreTyped(s.store) /\ m.store = View(s.store)
  BY <1>3 DEF StoresInv, Same
<1> QED
  BY <1>1, <1>4

LEMMA WriteSprintKeeps ==
    ASSUME StoresKnown, StoresInv, NEW p \in SprintId, ST!WriteSprint(p)
    PROVE  StoresInv'
<1> DEFINE r(st) == [status |-> st, path |-> "backlog", title |-> "a"]
<1>1. ASSUME NEW st, ST!Call(ST!sqlSaveSprint(sql, p, r(st)), ST!memSaveSprint(mem, p, r(st)), FALSE)
      PROVE  StoresInv'
  BY <1>1, SaveSprintSame, CallKeeps
<1>2. ASSUME NEW st, ST!Call(ST!sqlUpsertSprintInsert(sql, p, r(st)),
                             ST!memUpsertSprintInsert(mem, p, r(st)), FALSE)
      PROVE  StoresInv'
  BY <1>2, UpsertSprintInsertSame, CallKeeps
<1>3. ASSUME NEW st, ST!Call(ST!sqlInsertSprintIfMissing(sql, p, r(st)),
                             ST!memInsertSprintIfMissing(mem, p, r(st)), FALSE)
      PROVE  StoresInv'
  BY <1>3, InsertSprintIfMissingSame, CallKeeps
<1>4. ASSUME NEW st, NEW path,
             ST!Call(ST!sqlUpdateSprintStatus(sql, p, st, path),
                     ST!memUpdateSprintStatus(mem, p, st, path), FALSE)
      PROVE  StoresInv'
  BY <1>4, UpdateSprintStatusSame, CallKeeps
<1>5. ASSUME NEW st, NEW path, NEW title,
             ST!Call(ST!sqlUpdateSprintMetadata(sql, p, title, path, st),
                     ST!memUpdateSprintMetadata(mem, p, title, path, st), FALSE)
      PROVE  StoresInv'
  BY <1>5, UpdateSprintMetadataSame, CallKeeps
<1>6. ASSUME ST!Call(ST!sqlUpdateTaskPathsForSprint(sql, p, "loose", "active"),
                     ST!memUpdateTaskPathsForSprint(mem, p, "loose", "active"), FALSE)
      PROVE  StoresInv'
  <2>1. "loose" \in ST!Path /\ "active" \in ST!Path
    BY DEF ST!Path
  <2> QED
    BY <1>6, <2>1, UpdateTaskPathsForSprintSame, CallKeeps
<1> QED
  BY <1>1, <1>2, <1>3, <1>4, <1>5, <1>6 DEF ST!WriteSprint

LEMMA InsertTaskKeeps ==
    ASSUME StoresKnown, StoresInv, NEW t \in TaskId, ST!InsertTask(t)
    PROVE  StoresInv'
<1> PICK r \in ST!NewTask :
        \/ \E k \in {ST!Blank, "WT"} :
             \/ ST!Call(ST!sqlCreateTask(sql, t, r, k), ST!memCreateTask(mem, t, r),
                        k # ST!Blank /\ ~ST!has(sql, t))
             \/ ST!Call(ST!sqlUpsertTaskInsert(sql, t, r, k), ST!memUpsertTaskInsert(mem, t, r),
                        k # ST!Blank /\ ~ST!has(sql, t))
        \/ ST!Call(ST!sqlInsertTaskAndSyncCounter(sql, t, r),
                   ST!memInsertTaskAndSyncCounter(mem, t, r), FALSE)
  BY DEF ST!InsertTask
<1>1. ASSUME NEW k, ST!Call(ST!sqlCreateTask(sql, t, r, k), ST!memCreateTask(mem, t, r),
                            k # ST!Blank /\ ~ST!has(sql, t))
      PROVE  StoresInv'
  BY <1>1, CreateTaskSame, CallKeeps
<1>2. ASSUME NEW k, ST!Call(ST!sqlUpsertTaskInsert(sql, t, r, k), ST!memUpsertTaskInsert(mem, t, r),
                            k # ST!Blank /\ ~ST!has(sql, t))
      PROVE  StoresInv'
  BY <1>2, UpsertTaskInsertSame, CallKeeps
<1>3. ASSUME ST!Call(ST!sqlInsertTaskAndSyncCounter(sql, t, r),
                     ST!memInsertTaskAndSyncCounter(mem, t, r), FALSE)
      PROVE  StoresInv'
  BY <1>3, InsertTaskAndSyncCounterSame, CallKeeps
<1> QED
  BY <1>1, <1>2, <1>3

LEMMA CallCounterKeeps ==
    ASSUME StoresKnown, StoresInv, ST!CallCounter
    PROVE  StoresInv'
<1>1. ASSUME ST!Call(ST!sqlHealAndGetNextTaskID(sql), ST!memHealAndGetNextTaskID(mem), FALSE)
      PROVE  StoresInv'
  <2>1. 0 \in Int
    OBVIOUS
  <2> QED
    BY <1>1, <2>1, CountersSame, CallKeeps
<1>2. ASSUME ST!Call(ST!sqlNextCounter(sql), ST!memNextCounter(mem), FALSE)
      PROVE  StoresInv'
  <2>1. 0 \in Int
    OBVIOUS
  <2> QED
    BY <1>2, <2>1, CountersSame, CallKeeps
<1>3. ASSUME NEW n \in TaskId, ST!Call(ST!sqlBumpTaskCounter(sql, n), ST!memBumpTaskCounter(mem, n), FALSE)
      PROVE  StoresInv'
  <2>1. n \in Int
    BY DEF StoresKnown
  <2> QED
    BY <1>3, <2>1, CountersSame, CallKeeps
<1>4. ASSUME NEW n \in TaskId, ST!Call(ST!sqlSetCounterMax(sql, n), ST!memSetCounterMax(mem, n), FALSE)
      PROVE  StoresInv'
  <2>1. n \in Int
    BY DEF StoresKnown
  <2> QED
    BY <1>4, <2>1, CountersSame, CallKeeps
<1> QED
  BY <1>1, <1>2, <1>3, <1>4 DEF ST!CallCounter

LEMMA CallHarnessKeeps ==
    ASSUME StoresInv, NEW t \in TaskId, ST!CallHarness(t)
    PROVE  StoresInv'
<1>1. ASSUME NEW s, ST!Call(ST!sqlEnsureHarnessItems(sql, t, s), ST!memEnsureHarnessItems(mem, t, s), FALSE)
      PROVE  StoresInv'
  BY <1>1, HarnessSame, CallKeeps
<1>2. ASSUME NEW i, ST!Call(ST!sqlCheckHarnessItem(sql, t, i), ST!memCheckHarnessItem(mem, t, i), FALSE)
      PROVE  StoresInv'
  BY <1>2, HarnessSame, CallKeeps
<1>3. ASSUME \/ ST!Call(ST!sqlResetTaskHarness(sql, t), ST!memResetTaskHarness(mem, t), FALSE)
             \/ ST!Call(ST!sqlDeleteHarnessItemsForEntity(sql, t),
                        ST!memDeleteHarnessItemsForEntity(mem, t), FALSE)
      PROVE  StoresInv'
  BY <1>3, HarnessSame, CallKeeps
<1>4. ASSUME ST!Call(ST!sqlSetTaskWorkTicket(sql, t, "WT"), ST!memSetTaskWorkTicket(mem, t, "WT"),
                     ~ST!has(sql, t))
      PROVE  StoresInv'
  BY <1>4, SetTaskWorkTicketSame, CallKeeps
<1> QED
  BY <1>1, <1>2, <1>3, <1>4 DEF ST!CallHarness

LEMMA CallProjectKeeps ==
    ASSUME StoresInv, ST!CallProject
    PROVE  StoresInv'
<1>1. ASSUME \/ ST!Call(ST!sqlInsertContextAck(sql), ST!memInsertContextAck(mem), FALSE)
             \/ ST!Call(ST!sqlEnsureProjectSecret(sql), ST!memEnsureProjectSecret(mem), FALSE)
      PROVE  StoresInv'
  BY <1>1, ProjectSame, CallKeeps DEF StoresInv
<1>2. ASSUME ST!Call(ST!sqlRotateProjectSecret(sql), ST!memRotateProjectSecret(mem),
                     sql.secret = NoTask)
      PROVE  StoresInv'
  BY <1>2, ProjectSame, CallKeeps DEF StoresInv
<1> QED
  BY <1>1, <1>2 DEF ST!CallProject

LEMMA UpdateTaskDirectSame ==
    ASSUME NEW d, StoreTyped(d), StoresKnown, NEW t \in TaskId, NEW f, NEW v,
           \/ f = "status" /\ v \in ST!TaskStatus
           \/ f = "path" /\ v \in ST!Path
           \/ f = "priority" /\ v \in ST!Range(Priority)
           \/ f = "sprint" /\ v \in SprintId \cup {ST!Blank}
    PROVE  Same(ST!sqlUpdateTaskDirect(d, t, f, v), ST!memUpdateTaskDirect(View(d), t, f, v))
<1>1. CASE f = "status" /\ v \in ST!TaskStatus
  BY <1>1, StatusSame DEF ST!sqlUpdateTaskDirect, ST!memUpdateTaskDirect
<1>2. CASE f = "path" /\ v \in ST!Path
  BY <1>2, PathSame DEF ST!sqlUpdateTaskDirect, ST!memUpdateTaskDirect
<1>3. CASE f = "priority" /\ v \in ST!Range(Priority)
  BY <1>3, PrioritySame DEF ST!sqlUpdateTaskDirect, ST!memUpdateTaskDirect
<1>4. CASE f = "sprint" /\ v \in SprintId \cup {ST!Blank}
  <2> DEFINE u == ST!orNull(v)
  <2>1. u \in SprintId \cup {ST!Blank, Null} /\ v = IF u = Null THEN ST!Blank ELSE u
    BY <1>4 DEF ST!orNull, StoresKnown
  <2>2. /\ ST!sqlUpdateTaskDirect(d, t, f, v) = ST!sqlSet(d, t, "sprint", u)
        /\ ST!memUpdateTaskDirect(View(d), t, f, v) = ST!memSet(View(d), t, "sprint", v)
    BY <1>4 DEF ST!sqlUpdateTaskDirect, ST!memUpdateTaskDirect
  <2> HIDE DEF u
  <2> QED
    BY <2>1, <2>2, SprintSame
<1> QED
  BY <1>1, <1>2, <1>3, <1>4

LEMMA ChangeTaskKeeps ==
    ASSUME StoresKnown, StoresInv, NEW t \in TaskId, ST!ChangeTask(t)
    PROVE  StoresInv'
<1>1. ASSUME ST!Call(ST!sqlUpdateTaskFilePath(sql, t, "active"),
                     ST!memUpdateTaskFilePath(mem, t, "active"), FALSE)
      PROVE  StoresInv'
  <2>1. "active" \in ST!Path
    BY DEF ST!Path
  <2> QED
    BY <1>1, <2>1, PathSame, CallKeeps DEF ST!sqlUpdateTaskFilePath, ST!memUpdateTaskFilePath
<1>2. ASSUME NEW p \in SprintId \cup {ST!Blank, Null},
             ST!Call(ST!sqlUpdateTaskSprint(sql, t, p), ST!memUpdateTaskSprint(mem, t, p), FALSE)
      PROVE  StoresInv'
  <2>1. PICK w : w = IF p = Null THEN ST!Blank ELSE p
    OBVIOUS
  <2>2. ST!Call(ST!sqlSet(sql, t, "sprint", p), ST!memSet(mem, t, "sprint", w), FALSE)
    BY <1>2, <2>1 DEF ST!sqlUpdateTaskSprint, ST!memUpdateTaskSprint
  <2> QED
    BY <2>1, <2>2, SprintSame, CallKeeps
<1>3. ASSUME NEW st \in {"in-progress", "done"},
             \/ ST!Call(ST!sqlUpdateTaskStatus(sql, t, st), ST!memUpdateTaskStatus(mem, t, st), FALSE)
             \/ ST!Call(ST!sqlUpdateTaskStatusDirect(sql, t, st),
                        ST!memUpdateTaskStatusDirect(mem, t, st), FALSE)
             \/ ST!Call(ST!sqlTransitionTaskStatus(sql, t, "todo", st),
                        ST!memTransitionTaskStatus(mem, t, "todo", st), FALSE)
      PROVE  StoresInv'
  <2>1. st \in ST!TaskStatus
    BY DEF ST!TaskStatus
  <2> QED
    BY <1>3, <2>1, StatusSame, TransitionTaskStatusSame, CallKeeps
       DEF ST!sqlUpdateTaskStatus, ST!memUpdateTaskStatus, ST!sqlUpdateTaskStatusDirect,
           ST!memUpdateTaskStatusDirect
<1>4. ASSUME NEW st \in {"in-progress", "done"}, NEW op \in {"fails", ST!Blank, "active"},
             ST!Call(ST!sqlTransitionTaskAtomic(sql, t, "todo", st, op),
                     ST!memTransitionTaskAtomic(mem, t, "todo", st, op), FALSE)
      PROVE  StoresInv'
  <2>1. st \in ST!TaskStatus /\ op \in ST!Path \cup {"fails"}
    BY DEF ST!TaskStatus, ST!Path
  <2> QED
    BY <1>4, <2>1, TransitionTaskAtomicSame, CallKeeps
<1>5. ASSUME NEW f, NEW v,
             \/ f = "status" /\ v \in ST!TaskStatus
             \/ f = "path" /\ v \in ST!Path
             \/ f = "priority" /\ v \in ST!Range(Priority)
             \/ f = "sprint" /\ v \in SprintId \cup {ST!Blank},
             ST!Call(ST!sqlUpdateTaskDirect(sql, t, f, v), ST!memUpdateTaskDirect(mem, t, f, v), FALSE)
      PROVE  StoresInv'
  BY <1>5, UpdateTaskDirectSame, CallKeeps
<1>6. ASSUME NEW fv \in {<<"status", "superseded">>, <<"path", "backlog">>, <<"sprint", ST!Blank>>}
                        \cup {<<"sprint", p>> : p \in SprintId}
                        \cup {<<"priority", v>> : v \in ST!Range(Priority)}
      PROVE  \/ fv[1] = "status" /\ fv[2] \in ST!TaskStatus
             \/ fv[1] = "path" /\ fv[2] \in ST!Path
             \/ fv[1] = "priority" /\ fv[2] \in ST!Range(Priority)
             \/ fv[1] = "sprint" /\ fv[2] \in SprintId \cup {ST!Blank}
  BY DEF ST!TaskStatus, ST!Path
<1>7. ASSUME ST!Call(ST!sqlDeleteTask(sql, t), ST!memDeleteTask(mem, t),
                     sql.items[t] # ST!noItems)
      PROVE  StoresInv'
  BY <1>7, DeleteTaskSame, CallKeeps
<1>8. ASSUME ST!Call(ST!sqlArchiveTasks(sql, {t}), ST!memArchiveTasks(mem, {t}), FALSE)
      PROVE  StoresInv'
  BY <1>8, ArchiveTasksSame, CallKeeps
<1> QED
  BY <1>1, <1>2, <1>3, <1>4, <1>5, <1>6, <1>7, <1>8 DEF ST!ChangeTask

LEMMA StoresStep ==
    ASSUME StoresKnown, StoresInv, [ST!Next]_ST!storeVars
    PROVE  StoresInv'
<1>1. CASE ST!Minute
  BY <1>1 DEF ST!Minute, StoresInv
<1>2. CASE UNCHANGED ST!storeVars
  BY <1>2 DEF ST!storeVars, StoresInv
<1> QED
  BY <1>1, <1>2, WriteSprintKeeps, InsertTaskKeeps, ChangeTaskKeeps, CallHarnessKeeps,
     CallCounterKeeps, CallProjectKeeps DEF ST!Next

LEMMA StoresGiven == ST!StoresAssumption => StoresKnown
BY DEF ST!StoresAssumption, StoresKnown, ST!IsFiniteSet, IsFiniteSet

LEMMA TablesHold ==
    ASSUME StoresInv
    PROVE  ST!TablesAgree
<1> DEFINE F == [t \in TaskId |->
                   IF ST!has(sql, t) /\ sql.tasks[t].sprint = Null
                   THEN [sql.tasks[t] EXCEPT !.sprint = ST!Blank] ELSE sql.tasks[t]]
<1>1. SUFFICES ASSUME alike
               PROVE  mem = [sql EXCEPT !.tasks = F]
  BY DEF ST!TablesAgree
<1>2. F = Look(sql.tasks)
  BY DEF Look, Twin, ST!has
<1>3. StoreTyped(sql) /\ mem = View(sql)
  BY <1>1 DEF StoresInv
<1> HIDE DEF F
<1> QED
  BY <1>2, <1>3 DEF StoreTyped, View

-----------------------------------------------------------------------------
(* Listing a set in an order. *)

\* R orders S.
Orders(R, S) ==
    /\ \A x \in S : <<x, x>> \notin R
    /\ \A x, y \in S : x # y => <<x, y>> \in R \/ <<y, x>> \in R
    /\ \A x, y, z \in S : <<x, y>> \in R /\ <<y, z>> \in R => <<x, z>> \in R

Ahead(S, R, x) == {y \in S : <<y, x>> \in R}

Sorted(S, R, list) ==
    /\ list \in [1..Cardinality(S) -> S]
    /\ \A i, j \in 1..Cardinality(S) : i < j => <<list[i], list[j]>> \in R

LEMMA AheadGrows ==
    ASSUME NEW S, IsFiniteSet(S), NEW R, Orders(R, S), NEW x \in S
    PROVE  /\ Cardinality(Ahead(S, R, x)) \in Nat /\ Cardinality(S) \in Nat
           /\ Cardinality(Ahead(S, R, x)) < Cardinality(S)
           /\ \A y \in S : <<y, x>> \in R => Cardinality(Ahead(S, R, y)) < Cardinality(Ahead(S, R, x))
<1>1. ASSUME NEW A \in SUBSET S, NEW B \in SUBSET S, NEW z \in B, z \notin A, A \subseteq B
      PROVE  Cardinality(A) < Cardinality(B) /\ Cardinality(A) \in Nat
  <2>1. IsFiniteSet(A) /\ IsFiniteSet(B)
    BY FS_Subset
  <2>2. Cardinality(A) <= Cardinality(B) /\ (Cardinality(A) = Cardinality(B) => A = B)
    BY <1>1, <2>1, FS_Subset
  <2>3. Cardinality(A) \in Nat /\ Cardinality(B) \in Nat
    BY <2>1, FS_CardinalityType
  <2> QED
    BY <1>1, <2>2, <2>3
<1>2. \A y \in S : Ahead(S, R, y) \in SUBSET S /\ y \notin Ahead(S, R, y)
  BY DEF Ahead, Orders
<1>3. ASSUME NEW y \in S, <<y, x>> \in R
      PROVE  Cardinality(Ahead(S, R, y)) < Cardinality(Ahead(S, R, x))
  <2>1. y \in Ahead(S, R, x) /\ Ahead(S, R, y) \subseteq Ahead(S, R, x)
    BY <1>3 DEF Ahead, Orders
  <2> QED
    BY <1>1, <1>2, <2>1
<1>4. Cardinality(Ahead(S, R, x)) \in Nat /\ Cardinality(Ahead(S, R, x)) < Cardinality(S)
  BY <1>1, <1>2
<1>5. Cardinality(S) \in Nat
  BY FS_CardinalityType
<1> QED
  BY <1>3, <1>4, <1>5

\* A finite set that is ordered can be listed in its order: each member stands
\* behind as many as are ahead of it.
LEMMA SortedExists ==
    ASSUME NEW S, IsFiniteSet(S), NEW R, Orders(R, S)
    PROVE  \E list : Sorted(S, R, list)
<1> DEFINE n == Cardinality(S)
           place == [x \in S |-> Cardinality(Ahead(S, R, x)) + 1]
<1>1. n \in Nat /\ \A x \in S : place[x] \in 1..n
  <2>1. n \in Nat
    BY FS_CardinalityType
  <2>2. ASSUME NEW x \in S
        PROVE  place[x] \in 1..n
    BY AheadGrows
  <2> QED
    BY <2>1, <2>2
<1>2. \A x, y \in S : <<x, y>> \in R => place[x] < place[y]
  BY AheadGrows
<1>3. \A x, y \in S : place[x] < place[y] => <<x, y>> \in R
  <2> SUFFICES ASSUME NEW x \in S, NEW y \in S, place[x] < place[y]
               PROVE  <<x, y>> \in R
    OBVIOUS
  <2>1. place[x] \in Int /\ place[y] \in Int
    BY <1>1
  <2>2. x # y /\ <<y, x>> \notin R
    BY <1>2, <2>1
  <2> QED
    BY <2>2 DEF Orders
<1> HIDE DEF place
<1>4. place \in Injection(S, 1..n)
  <2>1. place \in [S -> 1..n]
    BY <1>1 DEF place
  <2>2. ASSUME NEW x \in S, NEW y \in S, place[x] = place[y]
        PROVE  x = y
    <3>1. place[x] \in Int
      BY <1>1
    <3>2. ~(place[x] < place[y]) /\ ~(place[y] < place[x])
      BY <2>2, <3>1
    <3>3. <<x, y>> \notin R /\ <<y, x>> \notin R
      BY <1>2, <3>2
    <3> QED
      BY <3>3 DEF Orders
  <2> QED
    BY <2>1, <2>2 DEF Injection, IsInjective
<1>5. IsFiniteSet(1..n) /\ Cardinality(1..n) = n
  <2>1. 1 \in Int /\ n \in Int
    BY <1>1
  <2>2. IsFiniteSet(1..n) /\ Cardinality(1..n) = IF 1 > n THEN 0 ELSE n - 1 + 1
    BY <2>1, FS_Interval
  <2> QED
    BY <1>1, <2>2
<1>6. \A i \in 1..n : \E x \in S : place[x] = i
  <2>1. place \in Surjection(S, 1..n)
    BY <1>4, <1>5, FS_Injection
  <2> QED
    BY <2>1 DEF Surjection
<1> DEFINE list == [i \in 1..n |-> CHOOSE x \in S : place[x] = i]
<1>7. \A i \in 1..n : list[i] \in S /\ place[list[i]] = i
  BY <1>6
<1>8. Sorted(S, R, list)
  <2>1. list \in [1..n -> S]
    BY <1>7
  <2>2. \A i, j \in 1..n : i < j => <<list[i], list[j]>> \in R
    BY <1>3, <1>7
  <2> HIDE DEF list
  <2> QED
    BY <2>1, <2>2 DEF Sorted
<1> QED
  BY <1>8

\* And all its members are in the list.
LEMMA SortedHasAll ==
    ASSUME NEW S, IsFiniteSet(S), NEW R, Orders(R, S), NEW list, Sorted(S, R, list)
    PROVE  {list[i] : i \in DOMAIN list} = S
<1> DEFINE n == Cardinality(S)
<1>1. n \in Nat
  BY FS_CardinalityType
<1>2. list \in Injection(1..n, S)
  <2>1. list \in [1..n -> S]
    BY DEF Sorted
  <2>2. ASSUME NEW i \in 1..n, NEW j \in 1..n, list[i] = list[j]
        PROVE  i = j
    <3>1. ~(i < j) /\ ~(j < i)
      <4>1. list[i] \in S /\ <<list[i], list[i]>> \notin R
        BY <2>1 DEF Orders
      <4> QED
        BY <2>2, <4>1 DEF Sorted
    <3> QED
      BY <1>1, <3>1
  <2> QED
    BY <2>1, <2>2 DEF Injection, IsInjective
<1>3. IsFiniteSet(1..n) /\ Cardinality(1..n) = n
  <2>1. 1 \in Int /\ n \in Int
    BY <1>1
  <2>2. IsFiniteSet(1..n) /\ Cardinality(1..n) = IF 1 > n THEN 0 ELSE n - 1 + 1
    BY <2>1, FS_Interval
  <2> QED
    BY <1>1, <2>2
<1>4. \A x \in S : \E i \in 1..n : list[i] = x
  <2>1. list \in Surjection(1..n, S)
    BY <1>2, <1>3, FS_Injection
  <2> QED
    BY <2>1 DEF Surjection
<1> HIDE DEF n
<1>5. list \in [1..n -> S]
  BY DEF Sorted, n
<1> QED
  BY <1>4, <1>5

-----------------------------------------------------------------------------
(* What the queries answer. *)

\* Both have the same rows, and in each the same but for a Sprint that is NULL.
LEMMA RowsAlike ==
    ASSUME NEW d, StoreTyped(d), StoresKnown
    PROVE  /\ ST!rows(View(d)) = ST!rows(d) /\ ST!rows(d) \subseteq TaskId
           /\ \A t \in ST!rows(d) :
                 /\ d.tasks[t] \in ST!TaskRow
                 /\ View(d).tasks[t].status = d.tasks[t].status
                 /\ View(d).tasks[t].path = d.tasks[t].path
                 /\ View(d).tasks[t].priority = d.tasks[t].priority
                 /\ View(d).tasks[t].sprint
                      = IF d.tasks[t].sprint = Null THEN ST!Blank ELSE d.tasks[t].sprint
<1>1. ST!rows(View(d)) = ST!rows(d) /\ ST!rows(d) \subseteq TaskId
  BY TwinThere DEF ST!rows
<1>2. ASSUME NEW t \in ST!rows(d)
      PROVE  /\ d.tasks[t] \in ST!TaskRow
             /\ View(d).tasks[t].status = d.tasks[t].status
             /\ View(d).tasks[t].path = d.tasks[t].path
             /\ View(d).tasks[t].priority = d.tasks[t].priority
             /\ View(d).tasks[t].sprint
                  = IF d.tasks[t].sprint = Null THEN ST!Blank ELSE d.tasks[t].sprint
  <2>1. t \in TaskId /\ ST!has(d, t)
    BY DEF ST!rows
  <2>2. d.tasks[t] \in ST!TaskRow /\ View(d).tasks[t] = Twin(d.tasks[t])
    BY <2>1, TwinThere
  <2> QED
    BY <2>2, TwinRow
<1> QED
  BY <1>1, <1>2

LEMMA RowsFinite == ASSUME NEW d, StoresKnown PROVE IsFiniteSet(ST!rows(d))
<1>1. ST!rows(d) \in SUBSET TaskId
  BY DEF ST!rows
<1> QED
  BY <1>1, FS_Subset DEF StoresKnown

LEMMA StoresCount == \A S : ST!Cardinality(S) = Cardinality(S)
BY DEF ST!Cardinality, Cardinality

LEMMA RankIs ==
    ASSUME StoresKnown, NEW v \in ST!Range(Priority)
    PROVE  ST!rank(v) \in Int
<1>1. \E i \in 1..Len(Priority) : Priority[i] = v
  <2>1. DOMAIN Priority = 1..Len(Priority)
    BY DEF StoresKnown
  <2> QED
    BY <2>1 DEF ST!Range
<1>2. ST!rank(v) \in 1..Len(Priority)
  BY <1>1 DEF ST!rank
<1>3. Len(Priority) \in Int
  BY DEF StoresKnown
<1> QED
  BY <1>2, <1>3

LEMMA IdsOrder ==
    ASSUME StoresKnown, NEW S \in SUBSET TaskId
    PROVE  Orders(ST!byId(S), S)
<1> DEFINE less(x, y) == x < y
<1>1. \A x, y \in S : <<x, y>> \in ST!byId(S) <=> less(x, y)
  BY DEF ST!byId
<1>2. \A x \in S : x \in Int
  BY DEF StoresKnown
<1>3. /\ \A x \in S : ~less(x, x)
      /\ \A x, y \in S : x # y => less(x, y) \/ less(y, x)
      /\ \A x, y, z \in S : less(x, y) /\ less(y, z) => less(x, z)
  BY <1>2
<1> HIDE DEF less
<1> QED
  BY <1>1, <1>3 DEF Orders

LEMMA PrioritiesOrder ==
    ASSUME NEW d, StoreTyped(d), StoresKnown, NEW S \in SUBSET ST!rows(d)
    PROVE  Orders(ST!byPriority(d, S), S)
<1> DEFINE k(t) == ST!rank(d.tasks[t].priority)
           less(x, y) == k(x) < k(y) \/ (k(x) = k(y) /\ x < y)
<1>1. \A x, y \in S : <<x, y>> \in ST!byPriority(d, S) <=> less(x, y)
  BY DEF ST!byPriority
<1>2. \A x \in S : x \in Int /\ k(x) \in Int
  <2> TAKE x \in S
  <2>1. x \in TaskId /\ d.tasks[x] \in ST!TaskRow
    BY RowsAlike
  <2>2. d.tasks[x].priority \in ST!Range(Priority)
    BY <2>1 DEF ST!TaskRow
  <2> QED
    BY <2>1, <2>2, RankIs DEF StoresKnown
<1> HIDE DEF k
<1>3. /\ \A x \in S : ~less(x, x)
      /\ \A x, y \in S : x # y => less(x, y) \/ less(y, x)
      /\ \A x, y, z \in S : less(x, y) /\ less(y, z) => less(x, z)
  BY <1>2
<1> HIDE DEF less
<1> QED
  BY <1>1, <1>3 DEF Orders

LEMMA ListsAll ==
    ASSUME StoresKnown, NEW S \in SUBSET TaskId, NEW R, Orders(R, S)
    PROVE  ST!Range(ST!cut(ST!ordered(S, R), 0)) = S
<1> DEFINE o == ST!ordered(S, R)
<1>1. IsFiniteSet(S)
  BY FS_Subset DEF StoresKnown
<1>2. \E list : Sorted(S, R, list)
  BY <1>1, SortedExists
<1>3. Sorted(S, R, o)
  <2>1. o = CHOOSE list \in [1..Cardinality(S) -> S] :
                \A i, j \in 1..Cardinality(S) : i < j => <<list[i], list[j]>> \in R
    BY StoresCount DEF ST!ordered
  <2> HIDE DEF o
  <2> QED
    BY <1>2, <2>1 DEF Sorted
<1>4. ST!cut(o, 0) = o
  BY DEF ST!cut
<1> HIDE DEF o
<1>5. {o[i] : i \in DOMAIN o} = S
  BY <1>1, <1>3, SortedHasAll
<1> QED
  BY <1>4, <1>5 DEF ST!Range, o

LEMMA ListsAlike ==
    ASSUME NEW d, StoreTyped(d), StoresKnown, NEW f \in ST!Filter, f.sprint # ST!Blank
    PROVE  /\ ST!Range(ST!sqlListTasks(d, f, 0)) = ST!Range(ST!memListTasks(View(d), f, 0))
           /\ (\A t, u \in ST!rows(d) : d.tasks[t].priority = d.tasks[u].priority)
                => ST!sqlListTasks(d, f, 1) = ST!memListTasks(View(d), f, 1)
<1> DEFINE S == ST!matching(d, f)
<1>1. S \in SUBSET ST!rows(d) /\ S \in SUBSET TaskId
  BY RowsAlike DEF ST!matching
<1>2. ST!matching(View(d), f) = S
  <2>1. ASSUME NEW t \in ST!rows(d)
        PROVE  ST!matches(View(d), t, f) <=> ST!matches(d, t, f)
    <3>1. f.sprint \in SprintId \cup {ST!Unfiltered}
      BY DEF ST!Filter
    <3>2. f.sprint = ST!Unfiltered \/ (View(d).tasks[t].sprint = f.sprint <=> d.tasks[t].sprint = f.sprint)
      BY <3>1, RowsAlike DEF StoresKnown
    <3> QED
      BY <3>2, RowsAlike DEF ST!matches
  <2> QED
    BY <2>1, RowsAlike DEF ST!matching
<1>3. Orders(ST!byId(S), S) /\ Orders(ST!byPriority(d, S), S)
  BY <1>1, IdsOrder, PrioritiesOrder
<1>4. /\ ST!sqlListTasks(d, f, 0) = ST!cut(ST!ordered(S, ST!byPriority(d, S)), 0)
      /\ ST!sqlListTasks(d, f, 1) = ST!cut(ST!ordered(S, ST!byPriority(d, S)), 1)
      /\ ST!memListTasks(View(d), f, 0) = ST!cut(ST!ordered(S, ST!byId(S)), 0)
      /\ ST!memListTasks(View(d), f, 1) = ST!cut(ST!ordered(S, ST!byId(S)), 1)
  BY <1>2 DEF ST!sqlListTasks, ST!memListTasks
<1> HIDE DEF S
<1>5. ASSUME \A t, u \in ST!rows(d) : d.tasks[t].priority = d.tasks[u].priority
      PROVE  ST!byPriority(d, S) = ST!byId(S)
  <2> DEFINE k(t) == ST!rank(d.tasks[t].priority)
  <2>1. \A x, y \in S : k(x) = k(y)
    BY <1>1, <1>5
  <2>2. \A x \in S : k(x) \in Int
    <3> TAKE x \in S
    <3>1. d.tasks[x] \in ST!TaskRow
      BY <1>1, RowsAlike
    <3>2. d.tasks[x].priority \in ST!Range(Priority)
      BY <3>1 DEF ST!TaskRow
    <3> QED
      BY <3>2, RankIs
  <2>3. \A x, y \in S : (k(x) < k(y) \/ (k(x) = k(y) /\ x < y)) <=> x < y
    <3> HIDE DEF k
    <3> QED
      BY <2>1, <2>2
  <2>4. \A xy \in S \X S : xy[1] \in S /\ xy[2] \in S
    OBVIOUS
  <2>5. /\ ST!byPriority(d, S) = {xy \in S \X S :
                 k(xy[1]) < k(xy[2]) \/ (k(xy[1]) = k(xy[2]) /\ xy[1] < xy[2])}
        /\ ST!byId(S) = {xy \in S \X S : xy[1] < xy[2]}
    BY DEF ST!byPriority, ST!byId
  <2> HIDE DEF k
  <2> QED
    BY <2>3, <2>4, <2>5
<1> QED
  BY <1>1, <1>3, <1>4, <1>5, ListsAll

LEMMA NextAlike ==
    ASSUME NEW d, StoreTyped(d), StoresKnown,
           \A t, u \in ST!rows(d) : d.tasks[t].priority = d.tasks[u].priority,
           \A p \in SprintId : d.sprints[p] # NoTask => d.sprints[p].status # "active"
    PROVE  ST!memNextTask(View(d)) \subseteq ST!sqlNextTask(d)
<1> DEFINE T == {t \in ST!rows(d) : d.tasks[t].status = "todo"}
<1>1. {p \in SprintId : d.sprints[p] # NoTask /\ d.sprints[p].status = "active"} = {}
  OBVIOUS
<1>2. ST!sqlNextTask(d)
        = {t \in T : \A u \in T : ~(ST!rank(d.tasks[u].priority) < ST!rank(d.tasks[t].priority))}
  BY <1>1 DEF ST!sqlNextTask
<1>3. {t \in ST!rows(View(d)) : View(d).tasks[t].status = "todo"} = T
  BY RowsAlike
<1>4. ST!memNextTask(View(d)) \subseteq T
  BY <1>3 DEF ST!memNextTask
<1>5. ASSUME NEW t \in T, NEW u \in T
      PROVE  ~(ST!rank(d.tasks[u].priority) < ST!rank(d.tasks[t].priority))
  <2>1. d.tasks[t] \in ST!TaskRow /\ d.tasks[u].priority = d.tasks[t].priority
    BY RowsAlike
  <2>2. d.tasks[t].priority \in ST!Range(Priority)
    BY <2>1 DEF ST!TaskRow
  <2>3. ST!rank(d.tasks[t].priority) \in Int
    BY <2>2, RankIs
  <2> QED
    BY <2>1, <2>3
<1> HIDE DEF T
<1> QED
  BY <1>2, <1>4, <1>5

LEMMA ProgressAlike ==
    ASSUME NEW d, StoreTyped(d), StoresKnown, NEW p \in SprintId,
           \A t \in ST!rows(d) : d.tasks[t].status \in {"todo", "in-progress", "done"}
    PROVE  ST!sqlAggregateSprintProgress(d, p) = ST!memAggregateSprintProgress(View(d), p)
<1> DEFINE A == {t \in ST!rows(d) : d.tasks[t].sprint = p}
           C(st) == {t \in ST!rows(d) : d.tasks[t].sprint = p /\ d.tasks[t].status = st}
<1>1. \A t \in ST!rows(d) : View(d).tasks[t].sprint = p <=> d.tasks[t].sprint = p
  BY RowsAlike DEF StoresKnown
<1>2. /\ {t \in ST!rows(View(d)) : View(d).tasks[t].sprint = p} = A
      /\ \A st : {t \in ST!rows(View(d)) : View(d).tasks[t].sprint = p /\ View(d).tasks[t].status = st}
                   = C(st)
  BY <1>1, RowsAlike
<1>3. \A st : ST!counted(View(d), p, st) = ST!counted(d, p, st)
  BY <1>2 DEF ST!counted
<1>4. \A st : IsFiniteSet(C(st))
  <2>1. \A st : C(st) \in SUBSET ST!rows(d)
    OBVIOUS
  <2> QED
    BY <2>1, RowsFinite, FS_Subset
<1>5. A = (C("done") \cup C("in-progress")) \cup C("todo")
  OBVIOUS
<1>6. /\ C("done") \cap C("in-progress") = {}
      /\ (C("done") \cup C("in-progress")) \cap C("todo") = {}
  OBVIOUS
<1>7. \A st : ST!counted(d, p, st) = Cardinality(C(st))
  BY StoresCount DEF ST!counted
<1> HIDE DEF A, C
<1>8. Cardinality(A) = (Cardinality(C("done")) + Cardinality(C("in-progress"))) + Cardinality(C("todo"))
  <2>1. /\ Cardinality(C("done") \cap C("in-progress")) = 0
        /\ Cardinality((C("done") \cup C("in-progress")) \cap C("todo")) = 0
    <3>1. Cardinality({}) = 0
      BY FS_EmptySet
    <3> QED
      BY <1>6, <3>1, Zenon
  <2>2. \A st : Cardinality(C(st)) \in Nat
    BY <1>4, FS_CardinalityType
  <2>3. /\ IsFiniteSet(C("done") \cup C("in-progress"))
        /\ Cardinality(C("done") \cup C("in-progress"))
             = Cardinality(C("done")) + Cardinality(C("in-progress"))
                 - Cardinality(C("done") \cap C("in-progress"))
    BY <1>4, FS_Union
  <2>4. Cardinality((C("done") \cup C("in-progress")) \cup C("todo"))
          = Cardinality(C("done") \cup C("in-progress")) + Cardinality(C("todo"))
              - Cardinality((C("done") \cup C("in-progress")) \cap C("todo"))
    BY <1>4, <2>3, FS_Union
  <2> DEFINE a == Cardinality(C("done"))
             b == Cardinality(C("in-progress"))
             c == Cardinality(C("todo"))
             s == Cardinality(C("done") \cup C("in-progress"))
             i == Cardinality(C("done") \cap C("in-progress"))
             o == Cardinality((C("done") \cup C("in-progress")) \cap C("todo"))
             u == Cardinality((C("done") \cup C("in-progress")) \cup C("todo"))
  <2>5. a \in Nat /\ b \in Nat /\ c \in Nat
    BY <2>2
  <2>6. Cardinality(A) = u
    BY <1>5, Zenon
  <2>7. u = s + c - o /\ o = 0 /\ s = a + b - i /\ i = 0
    BY <2>1, <2>3, <2>4, Zenon
  <2> HIDE DEF a, b, c, s, i, o, u
  <2>8. u = (a + b) + c
    BY <2>5, <2>7
  <2> QED
    BY <2>6, <2>8 DEF a, b, c
<1>9. ST!Cardinality({t \in ST!rows(View(d)) : View(d).tasks[t].sprint = p})
        = ST!counted(d, p, "done") + ST!counted(d, p, "in-progress") + ST!counted(d, p, "todo")
  BY <1>2, <1>7, <1>8, StoresCount
<1> QED
  BY <1>3, <1>9 DEF ST!sqlAggregateSprintProgress, ST!memAggregateSprintProgress

LEMMA SetsAlike ==
    ASSUME NEW d, StoreTyped(d), StoresKnown
    PROVE  /\ \A p \in SprintId :
                 ST!sqlGetSprintTaskFilePaths(d, p) = ST!memGetSprintTaskFilePaths(View(d), p)
           /\ ST!sqlGetBacklogTasks(d, FALSE) = ST!memGetBacklogTasks(View(d), FALSE)
           /\ (\A t \in ST!rows(d) :
                 d.tasks[t].status = "in-progress" => d.tasks[t].sprint \in {ST!Blank, Null})
                => ST!sqlGetBacklogTasks(d, TRUE) = ST!memGetBacklogTasks(View(d), TRUE)
           /\ ST!sqlGetNonArchivedTasks(d) = ST!memGetNonArchivedTasks(View(d))
<1>1. ASSUME NEW p \in SprintId
      PROVE  ST!sqlGetSprintTaskFilePaths(d, p) = ST!memGetSprintTaskFilePaths(View(d), p)
  <2>1. \A t \in ST!rows(d) : View(d).tasks[t].sprint = p <=> d.tasks[t].sprint = p
    BY RowsAlike DEF StoresKnown
  <2> QED
    BY <2>1, RowsAlike DEF ST!sqlGetSprintTaskFilePaths, ST!memGetSprintTaskFilePaths
<1>2. \A t \in ST!rows(d) :
          View(d).tasks[t].sprint = ST!Blank <=> d.tasks[t].sprint \in {ST!Blank, Null}
  BY RowsAlike
<1>3. ST!sqlGetBacklogTasks(d, FALSE) = ST!memGetBacklogTasks(View(d), FALSE)
  BY <1>2, RowsAlike DEF ST!sqlGetBacklogTasks, ST!memGetBacklogTasks
<1>4. ASSUME \A t \in ST!rows(d) :
                 d.tasks[t].status = "in-progress" => d.tasks[t].sprint \in {ST!Blank, Null}
      PROVE  ST!sqlGetBacklogTasks(d, TRUE) = ST!memGetBacklogTasks(View(d), TRUE)
  BY <1>2, <1>4, RowsAlike DEF ST!sqlGetBacklogTasks, ST!memGetBacklogTasks
<1>5. ST!sqlGetNonArchivedTasks(d) = ST!memGetNonArchivedTasks(View(d))
  BY RowsAlike DEF ST!sqlGetNonArchivedTasks, ST!memGetNonArchivedTasks
<1> QED
  BY <1>1, <1>3, <1>4, <1>5

LEMMA CountsAlike ==
    ASSUME NEW d, StoreTyped(d), StoresKnown
    PROVE  ST!sqlGetSprintTaskCounts(d) = ST!memGetSprintTaskCounts(View(d))
<1> DEFINE P == {d.tasks[t].sprint : t \in ST!rows(d)} \ {Null, ST!Blank}
           Q == {View(d).tasks[t].sprint : t \in ST!rows(View(d))} \ {ST!Blank}
           K(p) == ST!Cardinality({t \in ST!rows(d) : d.tasks[t].sprint = p})
           L(p) == ST!Cardinality({t \in ST!rows(View(d)) : View(d).tasks[t].sprint = p})
<1>1. P = Q
  <2>1. \A t \in ST!rows(d) : d.tasks[t].sprint \in SprintId \cup {ST!Blank, Null}
    <3> TAKE t \in ST!rows(d)
    <3>1. d.tasks[t] \in ST!TaskRow
      BY RowsAlike
    <3> QED
      BY <3>1 DEF ST!TaskRow
  <2>2. P \subseteq Q
    BY <2>1, RowsAlike DEF StoresKnown
  <2>3. Q \subseteq P
    BY <2>1, RowsAlike DEF StoresKnown
  <2> QED
    BY <2>2, <2>3
<1>2. \A p \in P : K(p) = L(p)
  <2> TAKE p \in P
  <2>1. \A t \in ST!rows(d) : View(d).tasks[t].sprint = p <=> d.tasks[t].sprint = p
    BY RowsAlike
  <2>2. {t \in ST!rows(d) : d.tasks[t].sprint = p}
          = {t \in ST!rows(View(d)) : View(d).tasks[t].sprint = p}
    BY <2>1, RowsAlike
  <2> QED
    BY <2>2
<1>3. /\ ST!sqlGetSprintTaskCounts(d) = [p \in P |-> K(p)]
      /\ ST!memGetSprintTaskCounts(View(d)) = [p \in Q |-> L(p)]
  BY DEF ST!sqlGetSprintTaskCounts, ST!memGetSprintTaskCounts
<1> HIDE DEF P, Q, K, L
<1> QED
  BY <1>1, <1>2, <1>3

LEMMA AcksAlike ==
    ASSUME NEW d, StoreTyped(d), minute \in Int, NEW ttl \in Int
    PROVE  ST!sqlHasContextAckFresh(d, ttl) = ST!memHasContextAckFresh(View(d), ttl)
<1> DEFINE old == d.acked >= minute - ttl
           new == d.acked < minute - ttl
<1>1. d.acked # NoTask => (old <=> ~new)
  BY DEF StoreTyped
<1>2. View(d).acked = d.acked
  BY DEF View
<1>3. /\ ST!sqlHasContextAckFresh(d, ttl) <=> d.acked # NoTask /\ (ttl > 0 => old)
      /\ ST!memHasContextAckFresh(View(d), ttl) <=> d.acked # NoTask /\ (ttl > 0 => ~new)
  BY <1>2, Zenon DEF ST!sqlHasContextAckFresh, ST!memHasContextAckFresh
<1> HIDE DEF old, new
<1>4. ST!sqlHasContextAckFresh(d, ttl) <=> ST!memHasContextAckFresh(View(d), ttl)
  BY <1>1, <1>3, Zenon
<1> QED
  BY <1>4, Zenon DEF ST!sqlHasContextAckFresh, ST!memHasContextAckFresh

\* At most one priority: any two rows have the same.
LEMMA OneForAll ==
    ASSUME StoresKnown, ST!onePriority
    PROVE  \A t, u \in ST!rows(sql) : sql.tasks[t].priority = sql.tasks[u].priority
<1> DEFINE R == ST!rows(sql)
           g == [t \in R |-> sql.tasks[t].priority]
           V == {sql.tasks[t].priority : t \in R}
<1>1. IsFiniteSet(V)
  <2>1. g \in Surjection(R, V)
    BY DEF Surjection
  <2>2. IsFiniteSet(R)
    BY RowsFinite
  <2> HIDE DEF R, g, V
  <2> QED
    BY <2>1, <2>2, FS_Surjection
<1>2. Cardinality(V) <= 1
  BY StoresCount DEF ST!onePriority
<1>3. \A t \in R : sql.tasks[t].priority \in V
  OBVIOUS
<1> HIDE DEF V
<1>4. ASSUME NEW a \in V, NEW b \in V, a # b
      PROVE  FALSE
  <2>1. IsFiniteSet(V \ {a}) /\ Cardinality(V \ {a}) = Cardinality(V) - 1
    BY <1>1, FS_RemoveElement
  <2>2. V \ {a} # {}
    BY <1>4
  <2>3. Cardinality(V \ {a}) \in Nat /\ Cardinality(V \ {a}) # 0 /\ Cardinality(V) \in Nat
    BY <1>1, <2>1, <2>2, FS_EmptySet, FS_CardinalityType
  <2> QED
    BY <1>2, <2>1, <2>3
<1> QED
  BY <1>3, <1>4

LEMMA AnswersHold ==
    ASSUME StoresKnown, StoresInv
    PROVE  ST!AnswersAgree
<1> SUFFICES ASSUME alike
             PROVE  ST!AnswersAgree
  BY DEF ST!AnswersAgree
<1>1. StoreTyped(sql) /\ mem = View(sql) /\ minute \in Int
  BY DEF StoresInv
<1>2. ASSUME NEW f \in ST!Filter, f.sprint # ST!Blank
      PROVE  /\ ST!Range(ST!sqlListTasks(sql, f, 0)) = ST!Range(ST!memListTasks(mem, f, 0))
             /\ ST!onePriority => ST!sqlListTasks(sql, f, 1) = ST!memListTasks(mem, f, 1)
  BY <1>1, <1>2, ListsAlike, OneForAll
<1>3. ST!onePriority /\ (\A p \in SprintId : sql.sprints[p] # NoTask => sql.sprints[p].status # "active")
        => ST!memNextTask(mem) \subseteq ST!sqlNextTask(sql)
  BY <1>1, NextAlike, OneForAll
<1>4. ASSUME NEW p \in SprintId
      PROVE  /\ (\A t \in ST!rows(sql) : sql.tasks[t].status \in {"todo", "in-progress", "done"})
                  => ST!sqlAggregateSprintProgress(sql, p) = ST!memAggregateSprintProgress(mem, p)
             /\ ST!sqlGetSprintTaskFilePaths(sql, p) = ST!memGetSprintTaskFilePaths(mem, p)
  BY <1>1, ProgressAlike, SetsAlike
<1>5. /\ ST!sqlGetBacklogTasks(sql, FALSE) = ST!memGetBacklogTasks(mem, FALSE)
      /\ (\A t \in ST!rows(sql) :
            sql.tasks[t].status = "in-progress" => sql.tasks[t].sprint \in {ST!Blank, Null})
           => ST!sqlGetBacklogTasks(sql, TRUE) = ST!memGetBacklogTasks(mem, TRUE)
      /\ ST!sqlGetNonArchivedTasks(sql) = ST!memGetNonArchivedTasks(mem)
      /\ ST!sqlGetSprintTaskCounts(sql) = ST!memGetSprintTaskCounts(mem)
  BY <1>1, SetsAlike, CountsAlike
<1>6. \A ttl \in 0..1 : ST!sqlHasContextAckFresh(sql, ttl) = ST!memHasContextAckFresh(mem, ttl)
  <2>1. \A ttl \in 0..1 : ttl \in Int
    OBVIOUS
  <2> QED
    BY <1>1, <2>1, AcksAlike
<1> QED
  BY <1>2, <1>3, <1>4, <1>5, <1>6, Zenon DEF ST!AnswersAgree

\* While no call has hit one of the listed differences, InMemoryStore holds what
\* SQLiteStore holds and answers what it answers, but for the listed queries,
\* whatever the calls, their number and their order.
THEOREM DoubleIsAlike == ST!StoresAssumption /\ ST!Spec => []ST!StoresAlike
<1>1. ST!StoresAssumption /\ ST!Init => StoresKnown /\ StoresInv
  BY StoresGiven, StoresStart
<1>2. StoresKnown /\ StoresInv /\ [ST!Next]_(ST!storeVars) => StoresKnown' /\ StoresInv'
  BY StoresStep DEF StoresKnown
<1>3. StoresKnown /\ StoresInv => ST!StoresAlike
  BY TablesHold, AnswersHold DEF ST!StoresAlike
<1> QED
  BY <1>1, <1>2, <1>3, PTL DEF ST!Spec

=============================================================================
