------------------------------- MODULE GateLog -------------------------------
(***************************************************************************)
(* The gate-judgement log: an append-only file of JSON lines with a second *)
(* one for false-positive labels (JSONLStore, the store the program uses), *)
(* and the SQLite store with the same interface (SQLiteStore).             *)
(*                                                                         *)
(* Both stores are given the same calls, one after another.  An append is  *)
(* one write() to a file opened with O_APPEND; a process killed in it      *)
(* leaves part of the line, without its end, and commits no row.           *)
(***************************************************************************)
EXTENDS Integers, Sequences, FiniteSets, FiniteSetsExt

CONSTANTS
    Verdict,           \* of pass, warn, block, hard_block and skip
    GateRule,          \* rule ids; a judgement of no rule has ""
    GivenId,           \* ids that `gate-log record` may bring in its JSON
    MaxAppends, MaxTears, MaxSecond

\* The ids that callers bring count from 1.
GateAssumption ==
    /\ IsFiniteSet(GivenId) /\ GivenId = 1..Cardinality(GivenId)
    /\ MaxAppends \in Nat /\ MaxTears \in Nat /\ MaxSecond \in Nat

VARIABLES
    lines,    \* the record file; a line that does not parse is "damaged"
    cut,      \* the record file ends within a line
    labels,   \* the label file
    labelCut,
    rows,     \* gate_judgement_records
    marks,    \* gate_judgement_fp_labels
    second,   \* the clock, in seconds
    appends, tears,
    answered, \* history: ids of the records JSONLStore acknowledged
    odd       \* history: a call on which the stores differ by their keys

gateVars == <<lines, cut, labels, labelCut, rows, marks, second, appends, tears,
              answered, odd>>

Damaged == [id |-> 0]

\* generateRecordID makes ids that no other record has: the number of the
\* append, beyond those a caller brings.
freshId == Cardinality(GivenId) + 1 + appends
RecordIds == GivenId \cup (Cardinality(GivenId) + 1)..(Cardinality(GivenId) + MaxAppends)

Judgement == [id : RecordIds, at : 0..MaxSecond, verdict : Verdict, rule : GateRule \cup {""}]
Label == [record : RecordIds, at : 0..MaxSecond]

TypeOK ==
    /\ lines \in Seq(Judgement \cup {Damaged}) /\ cut \in BOOLEAN
    /\ labels \in Seq(Label \cup {Damaged}) /\ labelCut \in BOOLEAN
    /\ rows \subseteq Judgement /\ marks \subseteq Label
    /\ second \in 0..MaxSecond
    /\ appends \in 0..MaxAppends /\ tears \in 0..MaxTears

Init ==
    /\ lines = <<>> /\ cut = FALSE
    /\ labels = <<>> /\ labelCut = FALSE
    /\ rows = {} /\ marks = {}
    /\ second = 0
    /\ appends = 0 /\ tears = 0
    /\ answered = {} /\ odd = FALSE

-----------------------------------------------------------------------------
(* Writing. *)

\* appendJSONLine: after a line that was cut the new one continues it, and
\* the two together are no JSON.
appended(file, cutBefore, entry) ==
    IF cutBefore THEN [file EXCEPT ![Len(file)] = Damaged] ELSE Append(file, entry)

\* shouldRecord: a warning or a block always, a pass by chance, a skip never.
recordable(verdict) == verdict # "skip"

\* Record, of a gate (with a new id) or of `gate-log record`.  SQLite refuses
\* an id it has; the file takes it.
Record(id, verdict, rule) ==
    LET r == [id |-> id, at |-> second, verdict |-> verdict, rule |-> rule]
    IN  /\ appends < MaxAppends
        /\ recordable(verdict)
        /\ lines' = appended(lines, cut, r)
        /\ rows' = IF \E x \in rows : x.id = id THEN rows ELSE rows \cup {r}
        /\ answered' = answered \cup {id}
        /\ cut' = FALSE
        /\ odd' = (odd \/ \E x \in rows : x.id = id)
        /\ appends' = appends + 1
        /\ UNCHANGED <<labels, labelCut, marks, second, tears>>

\* The process is killed in Record.
RecordTorn ==
    /\ appends < MaxAppends /\ tears < MaxTears
    /\ lines' = IF cut THEN lines ELSE Append(lines, Damaged)
    /\ cut' = TRUE
    /\ tears' = tears + 1
    /\ appends' = appends + 1
    /\ UNCHANGED <<labels, labelCut, rows, marks, second, answered, odd>>

\* MarkFalsePositive: neither store asks whether there is such a record;
\* SQLite refuses a second label of a record in one second.
MarkFalsePositive(id) ==
    LET l == [record |-> id, at |-> second]
    IN  /\ appends < MaxAppends
        /\ labels' = appended(labels, labelCut, l)
        /\ marks' = marks \cup {l}
        /\ labelCut' = FALSE
        /\ odd' = (odd \/ l \in marks)
        /\ appends' = appends + 1
        /\ UNCHANGED <<lines, cut, rows, second, tears, answered>>

\* The process is killed in MarkFalsePositive.
MarkTorn ==
    /\ appends < MaxAppends /\ tears < MaxTears
    /\ labels' = IF labelCut THEN labels ELSE Append(labels, Damaged)
    /\ labelCut' = TRUE
    /\ tears' = tears + 1
    /\ appends' = appends + 1
    /\ UNCHANGED <<lines, cut, rows, marks, second, answered, odd>>

Tick ==
    /\ second < MaxSecond
    /\ second' = second + 1
    /\ UNCHANGED <<lines, cut, labels, labelCut, rows, marks, appends, tears,
                   answered, odd>>

Next ==
    \/ \E id \in GivenId \cup {freshId}, v \in Verdict, r \in GateRule \cup {""} :
          Record(id, v, r)
    \/ \E id \in RecordIds : MarkFalsePositive(id)
    \/ RecordTorn \/ MarkTorn \/ Tick

Spec == Init /\ [][Next]_gateVars

-----------------------------------------------------------------------------
(* Reading. *)

\* Mutant of readAll: it stops at a line that does not parse.
readAllUpToDamage(file) ==
    LET good == {i \in 1..Len(file) : \A j \in 1..i : file[j] # Damaged}
    IN  [i \in good |-> file[i]]

\* readAllRecords and readAllFPLabels skip a line that does not parse.
readAll(file) ==
    LET good == {i \in 1..Len(file) : file[i] # Damaged}
    IN  [i \in good |-> file[i]]

\* matchFilter and buildWhereClause.  A filter names some of the fields.
Filter == [since : {0, 1}, verdict : Verdict \cup {""}, rule : GateRule \cup {""}]
matchFilter(r, f) ==
    /\ r.at >= f.since
    /\ f.verdict # "" => r.verdict = f.verdict
    /\ f.rule # "" => r.rule = f.rule

fileMatches(f) ==
    LET all == readAll(lines)
    IN  {i \in DOMAIN all : matchFilter(all[i], f)}

\* Mutant of fileStats: labels are counted whatever record they are of.
fileStatsOfAllLabels(f) ==
    LET all == readAll(lines)
        in  == fileMatches(f)
        lab == readAll(labels)
        on  == DOMAIN lab
    IN  [total |-> Cardinality(in), fp |-> Cardinality(on),
         verdicts |-> [v \in Verdict |-> Cardinality({i \in in : all[i].verdict = v})],
         byRule |-> [r \in GateRule |->
            Cardinality({k \in on : \E i \in in : all[i].id = lab[k].record
                                                 /\ all[i].rule = r})]]

\* JSONLStore.Stats.
fileStats(f) ==
    LET all == readAll(lines)
        in  == fileMatches(f)
        lab == readAll(labels)
        on  == {k \in DOMAIN lab : \E i \in in : all[i].id = lab[k].record}
    IN  [total |-> Cardinality(in), fp |-> Cardinality(on),
         verdicts |-> [v \in Verdict |-> Cardinality({i \in in : all[i].verdict = v})],
         byRule |-> [r \in GateRule |->
            Cardinality({k \in on : \E i \in in : all[i].id = lab[k].record
                                                 /\ all[i].rule = r})]]

\* SQLiteStore.Stats.
tableStats(f) ==
    LET in == {r \in rows : matchFilter(r, f)}
        on == {j \in marks \X in : j[2].id = j[1].record}
    IN  [total |-> Cardinality(in), fp |-> Cardinality(on),
         verdicts |-> [v \in Verdict |-> Cardinality({r \in in : r.verdict = v})],
         byRule |-> [r \in GateRule |-> Cardinality({j \in on : j[2].rule = r})]]

-----------------------------------------------------------------------------
(* Properties. *)

\* Given the same calls the two stores answer `stats` alike under every
\* filter, unless a process was killed, an id came twice or a record was
\* labelled twice in a second (JSONLStore and SQLiteStore are documented as
\* interchangeable).
StoresAgree ==
    tears = 0 /\ ~odd => \A f \in Filter : fileStats(f) = tableStats(f)

\* A process killed while it appends costs at most one record that another
\* process was told is recorded: the one whose line continues the torn one.
TearLosesOne ==
    Cardinality(answered \ {readAll(lines)[i].id : i \in DOMAIN readAll(lines)}) <= tears

\* Both together: whatever is recorded is counted, by either store.
JudgementsKept == StoresAgree /\ TearLosesOne
=============================================================================
