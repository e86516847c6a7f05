--------------------------- MODULE AuditLogProofs ---------------------------
(***************************************************************************)
(* Proofs about AuditLog, for any number of processes, crashes and failed  *)
(* transactions.  First its type invariant, and that the hash of every     *)
(* event covers the whole history before it; on top of these what InitDB   *)
(* has done when a command goes on, that a restore which comes to its end  *)
(* has an event for everything it found, and that no more is logged than   *)
(* happened.                                                               *)
(***************************************************************************)
EXTENDS AuditLog, FiniteSetTheorems, SequenceTheorems, TLAPS

\* What holds between the steps of one command, and of one append: the process
\* that links its row holds the write lock, and what it is about to write covers
\* the rows committed so far, which nobody else can add to.
Steps ==
    \A p \in Proc :
        /\ pc[p] \in {"look_prev", "add_prev", "look_event", "add_event"}
             => job[p].cmd \in AllCommands
        /\ pc[p] = "change" => job[p].cmd \in AllCommands \ {"restore", "preview"}
        /\ job[p].cmd \in AllCommands \ {"restore", "preview"} => job[p].key \in Key
        /\ pc[p] \in {"insert", "link", "commit"} => job[p].body \in Body
        /\ pc[p] \in {"link", "commit"} => lock = p

OldRows == /\ Legacy <= Len(events)
           /\ \A i \in 1..Legacy : events[i].hash = Null

NextRow(p) == [id |-> Len(events) + 1, body |-> job[p].body]

Linked ==
    \A p \in Proc : pc[p] = "commit" =>
        /\ job[p].prev = Covered(Len(events))
        /\ job[p].hash = Append(Covered(Len(events)), NextRow(p))

Typed == TypeOK /\ Steps

IInv == Typed /\ OldRows /\ HashCoversHistory /\ Linked

-----------------------------------------------------------------------------
LEMMA KeyNotNone == NoKey \notin Key /\ NoProc \notin Proc
BY AuditAssumption

LEMMA NoJobTyped == NoJob \in Job
BY AuditAssumption DEF NoJob, Job

LEMMA CoveredTyped ==
    ASSUME TypeOK, OldRows, NEW n \in Legacy..Len(events)
    PROVE  Covered(n) \in Seq(Link)
<1>1. \A i \in 1..(n - Legacy) : [id |-> Legacy + i, body |-> events[Legacy + i].body] \in Link
  <2>1. SUFFICES ASSUME NEW i \in 1..(n - Legacy)
                 PROVE  [id |-> Legacy + i, body |-> events[Legacy + i].body] \in Link
        OBVIOUS
  <2>2. Legacy + i \in 1..Len(events)
        BY AuditAssumption DEF TypeOK
  <2>3. events[Legacy + i] \in Event
        BY <2>2 DEF TypeOK
  <2> QED BY <2>2, <2>3 DEF Link, Event
<1>2. n - Legacy \in Nat
      BY AuditAssumption DEF TypeOK
<1> QED BY <1>1, <1>2 DEF Covered

LEMMA LastHashCovers ==
    ASSUME TypeOK, OldRows, HashCoversHistory
    PROVE  LastHash = Covered(Len(events))
<1>0. Len(events) \in Nat /\ Legacy \in Nat
      BY AuditAssumption DEF TypeOK
<1>1. CASE Len(events) = Legacy
  <2>1. Hashed = {}
        BY <1>1 DEF Hashed, OldRows
  <2>2. Covered(Len(events)) = <<>>
        BY <1>0, <1>1 DEF Covered
  <2> QED BY <2>1, <2>2 DEF LastHash
<1>2. CASE Len(events) # Legacy
  <2>0. Len(events) \in Legacy + 1..Len(events)
        BY <1>0, <1>2 DEF OldRows
  <2>1. events[Len(events)].hash = Covered(Len(events))
        BY <2>0 DEF HashCoversHistory
  <2>2. Covered(Len(events)) \in Seq(Link)
        BY <1>0, CoveredTyped DEF OldRows
  <2>3. Len(events) \in Hashed
        BY <1>0, <2>0, <2>1, <2>2, NullAssumption DEF Hashed
  <2>4. \A j \in Hashed : j \in Nat /\ j <= Len(events)
        BY <1>0 DEF Hashed
  <2>5. ASSUME NEW i \in Hashed, \A j \in Hashed : j <= i
        PROVE  i = Len(events)
        BY <1>0, <2>3, <2>4, <2>5
  <2>6. (CHOOSE i \in Hashed : \A j \in Hashed : j <= i) = Len(events)
        BY <2>3, <2>4, <2>5
  <2> QED BY <2>1, <2>3, <2>6 DEF LastHash
<1> QED BY <1>1, <1>2

-----------------------------------------------------------------------------
LEMMA InitTyped == Init => Typed
<1> SUFFICES ASSUME Init PROVE Typed
    OBVIOUS
<1>1. PICK k \in Key :
        /\ events = [i \in 1..Legacy |->
                       [body |-> [act |-> "completed", key |-> k, by |-> "command",
                                  stamp |-> 0, zoned |-> FALSE],
                        prev |-> <<>>, hash |-> Null]]
        /\ changes = [a \in Act |-> [n \in Key |->
                         IF a = "completed" /\ n = k THEN Legacy ELSE 0]]
      BY DEF Init
<1>2. events \in Seq(Event)
  <2>1. [body |-> [act |-> "completed", key |-> k, by |-> "command",
                   stamp |-> 0, zoned |-> FALSE],
         prev |-> <<>>, hash |-> Null] \in Event
        BY DEF Event, Body, Act
  <2> QED BY <1>1, <2>1, AuditAssumption
<1>3. changes \in [Act -> [Key -> Nat]]
      BY <1>1, AuditAssumption
<1>4. columns \subseteq Columns /\ lock = NoProc /\ done = {} /\ clock = 0
      /\ pc = [p \in Proc |-> "idle"] /\ job = [p \in Proc |-> NoJob] /\ faults = 0
      BY DEF Init
<1>5. TypeOK
      BY <1>2, <1>3, <1>4, NoJobTyped DEF TypeOK, Label
<1>6. Steps
      BY <1>4 DEF Steps, NoJob, AllCommands
<1> QED BY <1>5, <1>6 DEF Typed

\* A process that returns holds no obligation.
LEMMA ReturnTyped ==
    ASSUME Typed, NEW p \in Proc, Return(p)
    PROVE  /\ pc' \in [Proc -> Label] /\ job' \in [Proc -> Job]
           /\ pc'[p] = "idle" /\ job'[p] = NoJob
           /\ \A q \in Proc \ {p} : pc'[q] = pc[q] /\ job'[q] = job[q]
BY NoJobTyped DEF Typed, TypeOK, Return, Label

LEMMA Returned ==
    ASSUME Typed, NEW p \in Proc, Return(p),
           lock' = lock \/ (lock' = NoProc /\ lock = p)
    PROVE  Steps'
<1> SUFFICES ASSUME NEW q \in Proc
             PROVE  Steps!(q)'
    BY DEF Steps
<1>1. CASE q = p
      BY <1>1, ReturnTyped DEF NoJob, AllCommands
<1>2. CASE q # p
  <2>1. Steps!(q)
        BY DEF Typed, Steps
  <2>2. pc'[q] = pc[q] /\ job'[q] = job[q]
        BY <1>2, ReturnTyped
  <2>3. lock = q => lock' = lock
        BY <1>2
  <2> QED BY <2>1, <2>2, <2>3
<1> QED BY <1>1, <1>2

LEMMA OneMoves ==
    ASSUME Typed, NEW p \in Proc, Steps!(p)',
           \A q \in Proc \ {p} :
               /\ pc'[q] = pc[q]
               /\ job'[q].cmd = job[q].cmd /\ job'[q].key = job[q].key
               /\ job'[q].body = job[q].body
               /\ lock = q => lock' = q
    PROVE  Steps'
<1> SUFFICES ASSUME NEW q \in Proc, q # p
             PROVE  Steps!(q)'
    BY DEF Steps
<1>1. Steps!(q)
      BY DEF Typed, Steps
<1> QED BY <1>1

LEMMA BodyTyped ==
    ASSUME TypeOK, NEW k \in Key
    PROVE  /\ \A c \in {"complete", "reopen", "assign"}, s \in Nat :
                 [act |-> ActOf(c), key |-> k, by |-> "command",
                  stamp |-> s, zoned |-> FALSE] \in Body
           /\ Restored(k) \in Body
<1>1. \A c \in {"complete", "reopen", "assign"} : ActOf(c) \in Act
      BY DEF ActOf, Act
<1>2. FirstCommit[k] \in Nat
      BY AuditAssumption
<1> QED BY <1>1, <1>2 DEF Restored, Body, Act

\* Setting a field keeps the type and the other fields.
LEMMA FieldUpdates ==
    ASSUME NEW j \in Job
    PROVE  /\ \A b \in Body : /\ [j EXCEPT !.body = b] \in Job
                              /\ [j EXCEPT !.body = b].body = b
                              /\ [j EXCEPT !.body = b].cmd = j.cmd
                              /\ [j EXCEPT !.body = b].key = j.key
           /\ \A s : /\ s \subseteq Key => [j EXCEPT !.kept = s] \in Job
                     /\ [j EXCEPT !.kept = s].cmd = j.cmd
                     /\ [j EXCEPT !.kept = s].key = j.key
                     /\ [j EXCEPT !.kept = s].body = j.body
           /\ \A s : /\ s \subseteq Key => [j EXCEPT !.list = s] \in Job
                     /\ [j EXCEPT !.list = s].cmd = j.cmd
                     /\ [j EXCEPT !.list = s].key = j.key
                     /\ [j EXCEPT !.list = s].body = j.body
           /\ \A k \in Key : /\ [j EXCEPT !.key = k] \in Job
                             /\ [j EXCEPT !.key = k].cmd = j.cmd
                             /\ [j EXCEPT !.key = k].key = k
                             /\ [j EXCEPT !.key = k].body = j.body
           /\ \A n \in 0..RetryMax : /\ [j EXCEPT !.tries = n] \in Job
                                     /\ [j EXCEPT !.tries = n].cmd = j.cmd
                                     /\ [j EXCEPT !.tries = n].key = j.key
                                     /\ [j EXCEPT !.tries = n].body = j.body
<1>1. \A b \in Body : /\ [j EXCEPT !.body = b] \in Job
                      /\ [j EXCEPT !.body = b].body = b
                      /\ [j EXCEPT !.body = b].cmd = j.cmd
                      /\ [j EXCEPT !.body = b].key = j.key
      BY DEF Job
<1>2. \A s : /\ s \subseteq Key => [j EXCEPT !.kept = s] \in Job
            /\ [j EXCEPT !.kept = s].cmd = j.cmd
            /\ [j EXCEPT !.kept = s].key = j.key
            /\ [j EXCEPT !.kept = s].body = j.body
      BY DEF Job
<1>3. \A s : /\ s \subseteq Key => [j EXCEPT !.list = s] \in Job
            /\ [j EXCEPT !.list = s].cmd = j.cmd
            /\ [j EXCEPT !.list = s].key = j.key
            /\ [j EXCEPT !.list = s].body = j.body
      BY DEF Job
<1>4. \A k \in Key : /\ [j EXCEPT !.key = k] \in Job
                    /\ [j EXCEPT !.key = k].cmd = j.cmd
                    /\ [j EXCEPT !.key = k].key = k
                    /\ [j EXCEPT !.key = k].body = j.body
      BY DEF Job
<1>5. \A n \in 0..RetryMax : /\ [j EXCEPT !.tries = n] \in Job
                            /\ [j EXCEPT !.tries = n].cmd = j.cmd
                            /\ [j EXCEPT !.tries = n].key = j.key
                            /\ [j EXCEPT !.tries = n].body = j.body
      BY DEF Job
<1> QED BY <1>1, <1>2, <1>3, <1>4, <1>5

LEMMA NextTyped == IInv /\ [Next]_vars => Typed'
<1> SUFFICES ASSUME Typed, OldRows, HashCoversHistory, [Next]_vars
             PROVE  Typed'
    BY DEF IInv
<1> USE DEF Typed
<1>0. CASE UNCHANGED vars
      BY <1>0 DEF vars, TypeOK, Steps, NextRow
<1>1. CASE Tick
      BY <1>1 DEF Tick, TypeOK, Steps
<1>2. ASSUME NEW p \in Proc, Begin(p)
      PROVE  Typed'
  <2>1. PICK c \in Commands[p], k \in Key \cup {NoKey} :
          /\ k \in CASE c \in {"complete", "assign"} -> Task \ done
                     [] c = "reopen" -> Task \cap done
                     [] c = "finish" -> Sprint \ done
                     [] OTHER -> {NoKey}
          /\ job' = [job EXCEPT ![p] = [NoJob EXCEPT !.cmd = c, !.key = k]]
        BY <1>2 DEF Begin
  <2>2. c \in AllCommands
        BY AuditAssumption
  <2>3. [NoJob EXCEPT !.cmd = c, !.key = k] \in Job
        BY <2>2, NoJobTyped DEF NoJob, Job
  <2>4. TypeOK'
        BY <1>2, <2>1, <2>3 DEF Begin, Goto, TypeOK, Label
  <2>5. c \in AllCommands \ {"restore", "preview"} => k \in Key
        BY <2>1, <2>2 DEF AllCommands, Key
  <2>6. job'[p].cmd = c /\ job'[p].key = k /\ pc'[p] = "look_prev"
        BY <1>2, <2>1, <2>3 DEF Begin, Goto, TypeOK, NoJob
  <2>7. Steps!(p)'
        BY <2>2, <2>5, <2>6
  <2>8. Steps'
        BY <1>2, <2>1, <2>7, OneMoves DEF Begin, Goto, TypeOK
  <2> QED BY <2>4, <2>8
<1>3. ASSUME NEW p \in Proc, EnsureColumns(p)
      PROVE  Typed'
  <2> DEFINE Init4 == {"look_prev", "add_prev", "look_event", "add_event"}
  <2>1. ASSUME NEW here \in Init4, NEW column \in Columns, NEW add \in Init4,
               NEW next \in Init4 \cup {AfterInit(p)},
               LookColumn(p, here, column, add, next) \/ AddColumn(p, here, column, next)
        PROVE  Typed'
    <3>1. AfterInit(p) \in {"sprints", "change"}
          BY DEF AfterInit
    <3>2. CASE job' = job /\ \E l \in {add, next} : Goto(p, l)
      <4>1. TypeOK'
            BY <2>1, <3>1, <3>2 DEF LookColumn, AddColumn, Goto, TypeOK, Label
      <4>2. Steps!(p)
            BY DEF Steps
      <4>3. pc[p] \in Init4 /\ lock' = lock
            BY <2>1 DEF LookColumn, AddColumn
      <4>4. pc'[p] \in Init4 \cup {AfterInit(p)}
            BY <2>1, <3>2 DEF Goto, TypeOK
      <4>5. Steps!(p)'
            BY <3>2, <4>2, <4>3, <4>4 DEF AfterInit
      <4>6. Steps'
            BY <3>2, <4>3, <4>5, OneMoves DEF Goto, TypeOK
      <4> QED BY <4>1, <4>6
    <3>3. CASE Return(p) /\ columns' = columns
      <4>1. UNCHANGED <<events, lock, done, clock, faults, changes>>
            BY <2>1 DEF LookColumn, AddColumn
      <4> QED BY <3>3, <4>1, ReturnTyped, Returned DEF TypeOK
    <3> QED BY <2>1, <3>2, <3>3 DEF LookColumn, AddColumn, Goto
  <2> QED BY <1>3, <2>1 DEF EnsureColumns, Columns
<1>4. ASSUME NEW p \in Proc, Change(p)
      PROVE  Typed'
  <2> DEFINE c == job[p].cmd
             k == job[p].key
             b == [act |-> ActOf(c), key |-> k, by |-> "command",
                   stamp |-> clock, zoned |-> FALSE]
  <2>0. Steps!(p) /\ pc[p] = "change" /\ job \in [Proc -> Job]
        BY <1>4 DEF Steps, Change, TypeOK
  <2>1. c \in AllCommands \ {"restore", "preview"} /\ k \in Key
        BY <2>0
  <2>2. c # "finish" => b \in Body /\ ActOf(c) \in Act
    <3>1. c # "finish" => c \in {"complete", "reopen", "assign"}
          BY <2>1 DEF AllCommands
    <3> QED BY <2>1, <3>1, BodyTyped DEF TypeOK, ActOf, Act
  <2>3. /\ c = "finish" => job'[p] = NoJob /\ pc'[p] = "idle"
        /\ c # "finish" => job'[p] = [job[p] EXCEPT !.body = b] /\ pc'[p] = "insert"
        BY <1>4 DEF Change, Goto, TypeOK
  <2>4. \A q \in Proc \ {p} :
          /\ pc'[q] = pc[q]
          /\ job'[q] = job[q] \/ job'[q] = [job[q] EXCEPT !.kept = @ \ {k}]
        BY <1>4 DEF Change, Goto, TypeOK
  <2>5. job'[p] \in Job
        BY <2>0, <2>2, <2>3, NoJobTyped DEF Job
  <2>6. \A q \in Proc \ {p} : /\ job'[q] \in Job
                              /\ job'[q].cmd = job[q].cmd /\ job'[q].key = job[q].key
                              /\ job'[q].body = job[q].body
    <3>1. SUFFICES ASSUME NEW q \in Proc \ {p}
                   PROVE  /\ job'[q] \in Job
                          /\ job'[q].cmd = job[q].cmd /\ job'[q].key = job[q].key
                          /\ job'[q].body = job[q].body
          OBVIOUS
    <3>2. job[q] \in Job
          BY <2>0
    <3>3. job[q].kept \ {k} \subseteq Key
          BY <3>2 DEF Job
    <3>4. CASE job'[q] = job[q]
          BY <3>2, <3>4
    <3>5. CASE job'[q] = [job[q] EXCEPT !.kept = @ \ {k}]
          BY <3>2, <3>3, <3>5, FieldUpdates
    <3> QED BY <2>4, <3>4, <3>5
  <2>7. job' \in [Proc -> Job]
    <3>1. job' = [q \in Proc |-> job'[q]]
          BY <1>4 DEF Change
    <3> QED BY <2>5, <2>6, <3>1
  <2>8. changes' \in [Act -> [Key -> Nat]]
    <3>1. CASE c = "finish"
          BY <1>4, <3>1 DEF Change, TypeOK
    <3>2. CASE c # "finish"
      <4>1. changes' = [changes EXCEPT ![ActOf(c)][k] = @ + 1]
            BY <1>4, <3>2 DEF Change
      <4> QED BY <2>1, <2>2, <3>2, <4>1 DEF TypeOK
    <3> QED BY <3>1, <3>2
  <2>9. TypeOK'
    <3>1. done' \subseteq Key
          BY <1>4, <2>1 DEF Change, TypeOK
    <3> QED BY <1>4, <2>7, <2>8, <3>1 DEF Change, Goto, TypeOK, Label
  <2>10. Steps!(p)'
    <3>1. CASE c = "finish"
          BY <2>3, <3>1 DEF NoJob, AllCommands
    <3>2. CASE c # "finish"
      <4>1. job'[p].cmd = c /\ job'[p].key = k /\ job'[p].body = b
            BY <2>0, <2>3, <3>2 DEF Job
      <4> QED BY <2>1, <2>2, <2>3, <3>2, <4>1
    <3> QED BY <3>1, <3>2
  <2>11. Steps'
    <3>1. lock' = lock
          BY <1>4 DEF Change
    <3> QED BY <2>4, <2>6, <2>10, <3>1, OneMoves
  <2> QED BY <2>9, <2>11
<1>5. ASSUME NEW p \in Proc, ChangeBusy(p)
      PROVE  Typed'
  <2>1. CASE Return(p)
        BY <1>5, <2>1, ReturnTyped, Returned DEF ChangeBusy, TypeOK
  <2>2. CASE /\ job[p].tries < RetryMax
             /\ job' = [job EXCEPT ![p].tries = @ + 1] /\ UNCHANGED pc
    <3> DEFINE n == job[p].tries + 1
    <3>0. job[p] \in Job /\ n \in 0..RetryMax
          BY <2>2, AuditAssumption DEF TypeOK, Job
    <3>1. /\ job' = [job EXCEPT ![p] = [job[p] EXCEPT !.tries = n]]
          /\ [job[p] EXCEPT !.tries = n] \in Job
          BY <2>2, <3>0, FieldUpdates
    <3>2. TypeOK'
          BY <1>5, <2>2, <3>1 DEF ChangeBusy, TypeOK
    <3>3. \A q \in Proc : /\ job'[q].cmd = job[q].cmd /\ job'[q].key = job[q].key
                          /\ job'[q].body = job[q].body
          BY <3>0, <3>1, FieldUpdates DEF TypeOK
    <3>4. Steps'
          BY <1>5, <2>2, <3>3 DEF ChangeBusy, Steps
    <3> QED BY <3>2, <3>4
  <2> QED BY <1>5, <2>1, <2>2 DEF ChangeBusy
<1>6. ASSUME NEW p \in Proc, ChangeRefused(p)
      PROVE  Typed'
      BY <1>6, ReturnTyped, Returned DEF ChangeRefused, TypeOK
<1>7. ASSUME NEW p \in Proc, Insert(p)
      PROVE  Typed'
  <2>0. Steps!(p) /\ pc[p] = "insert" /\ job[p] \in Job /\ clock \in Nat /\ lock = NoProc
        BY <1>7 DEF Steps, Insert, TypeOK
  <2>1. job' = job \/ job' = [job EXCEPT ![p].body.stamp = clock]
        BY <1>7 DEF Insert
  <2>2. job[p].body \in Body /\ [job[p].body EXCEPT !.stamp = clock] \in Body
        BY <2>0 DEF Body
  <2>3. PICK b \in Body : job' = [job EXCEPT ![p] = [job[p] EXCEPT !.body = b]]
    <3>1. CASE job' = job
      <4>1. job[p] = [job[p] EXCEPT !.body = job[p].body]
            BY <2>0 DEF Job
      <4>2. job = [job EXCEPT ![p] = job[p]]
            BY DEF TypeOK
      <4> QED BY <2>2, <3>1, <4>1, <4>2
    <3>2. CASE job' = [job EXCEPT ![p].body.stamp = clock]
          BY <2>2, <3>2
    <3> QED BY <2>1, <3>1, <3>2
  <2>9. /\ job' \in [Proc -> Job] /\ job'[p].body \in Body
        /\ job'[p].cmd = job[p].cmd /\ job'[p].key = job[p].key
        BY <2>0, <2>3, FieldUpdates DEF TypeOK
  <2>4. TypeOK'
        BY <1>7, <2>9 DEF Insert, Goto, TypeOK, Label
  <2>5. Steps!(p)'
        BY <1>7, <2>0, <2>9 DEF Insert, Goto, TypeOK
  <2>6. \A q \in Proc \ {p} : pc'[q] = pc[q] /\ job'[q] = job[q] /\ lock # q
        BY <1>7, <2>0, <2>3, KeyNotNone DEF Insert, Goto, TypeOK
  <2>7. Steps'
        BY <2>5, <2>6, OneMoves
  <2> QED BY <2>4, <2>7
<1>8. ASSUME NEW p \in Proc, InsertBusy(p)
      PROVE  Typed'
      BY <1>8, ReturnTyped, Returned DEF InsertBusy, Fault, TypeOK
<1>9. ASSUME NEW p \in Proc, AppendFails(p)
      PROVE  Typed'
  <2>1. lock = p
        BY <1>9 DEF AppendFails, Steps
  <2> QED BY <1>9, <2>1, ReturnTyped, Returned DEF AppendFails, Fault, TypeOK
<1>10. ASSUME NEW p \in Proc, LinkRow(p)
       PROVE  Typed'
  <2>0. /\ Steps!(p) /\ pc[p] = "link" /\ job[p] \in Job /\ lock = p
        /\ Len(events) \in Nat /\ job[p].body \in Body
        BY <1>10 DEF Steps, LinkRow, TypeOK
  <2> DEFINE link == [id |-> Len(events) + 1, body |-> job[p].body]
  <2>1. LastHash \in Seq(Link)
        BY <2>0, LastHashCovers, CoveredTyped DEF OldRows
  <2>2. link \in Link
        BY <2>0 DEF Link
  <2>3. Append(LastHash, link) \in Seq(Link)
        BY <2>1, <2>2
  <2>4. job' = [job EXCEPT ![p].prev = LastHash, ![p].hash = Append(LastHash, link)]
        BY <1>10 DEF LinkRow
  <2>5. /\ job' \in [Proc -> Job] /\ job'[p].body = job[p].body
        /\ job'[p].cmd = job[p].cmd /\ job'[p].key = job[p].key
        BY <2>0, <2>1, <2>3, <2>4 DEF TypeOK, Job
  <2>6. TypeOK'
        BY <1>10, <2>5 DEF LinkRow, Goto, TypeOK, Label
  <2>7. Steps!(p)'
        BY <1>10, <2>0, <2>5 DEF LinkRow, Goto, TypeOK
  <2>8. Steps'
        BY <1>10, <2>4, <2>7, OneMoves DEF LinkRow, Goto, TypeOK
  <2> QED BY <2>6, <2>8
<1>11. ASSUME NEW p \in Proc, Commit(p)
       PROVE  Typed'
  <2>0. /\ Steps!(p) /\ pc[p] = "commit" /\ job[p] \in Job /\ lock = p
        /\ job[p].body \in Body
        BY <1>11 DEF Steps, Commit, TypeOK
  <2>1. events' \in Seq(Event)
    <3>1. [body |-> job[p].body, prev |-> job[p].prev, hash |-> job[p].hash] \in Event
          BY <2>0 DEF Event, Job
    <3> QED BY <1>11, <3>1 DEF Commit, TypeOK
  <2>2. CASE Goto(p, "next") /\ UNCHANGED job
    <3>1. TypeOK'
          BY <1>11, <2>1, <2>2 DEF Commit, Goto, TypeOK, Label
    <3>2. Steps'
          BY <1>11, <2>0, <2>2 DEF Commit, Goto, TypeOK, Steps
    <3> QED BY <3>1, <3>2
  <2>3. CASE Return(p)
        BY <1>11, <2>0, <2>1, <2>3, ReturnTyped, Returned DEF Commit, TypeOK
  <2> QED BY <1>11, <2>2, <2>3 DEF Commit
<1>12. ASSUME NEW p \in Proc, Glob(p)
       PROVE  Typed'
  <2>1. Files(pc[p]) \subseteq Key
        BY DEF Files, TypeOK
  <2>2. /\ job' = [job EXCEPT ![p].list = Files(pc[p]), ![p].phase = pc[p],
                              ![p].kept = @ \cup (Files(pc[p]) \ Untracked)]
        /\ pc[p] \in {"sprints", "tasks"} /\ job[p] \in Job
        BY <1>12 DEF Glob, TypeOK
  <2>3. /\ job' \in [Proc -> Job] /\ job'[p].body = job[p].body
        /\ job'[p].cmd = job[p].cmd /\ job'[p].key = job[p].key
        BY <2>1, <2>2 DEF TypeOK, Job
  <2>4. TypeOK'
        BY <1>12, <2>3 DEF Glob, Goto, TypeOK, Label
  <2>5. Steps!(p)'
        BY <1>12, <2>3 DEF Glob, Goto, TypeOK, Steps
  <2>6. Steps'
        BY <1>12, <2>2, <2>5, OneMoves DEF Glob, Goto, TypeOK
  <2> QED BY <2>4, <2>6
<1>13. ASSUME NEW p \in Proc, Examine(p)
       PROVE  Typed'
  <2>0. pc[p] = "next" /\ job[p] \in Job /\ Steps!(p)
        BY <1>13 DEF Examine, TypeOK, Steps
  <2>1. PICK k \in job[p].list :
           IF Restorable(p, k)
           THEN /\ Goto(p, "insert")
                /\ job' = [job EXCEPT ![p].list = @ \ {k}, ![p].key = k,
                                      ![p].body = Restored(k)]
           ELSE /\ job' = [job EXCEPT ![p].list = @ \ {k}]
                /\ UNCHANGED pc
        BY <1>13 DEF Examine
  <2>2. k \in Key
        BY <2>0 DEF Job
  <2>3. Restored(k) \in Body
        BY <2>2, BodyTyped
  <2>4. CASE Restorable(p, k)
    <3> DEFINE j1 == [job[p] EXCEPT !.list = job[p].list \ {k}]
               j2 == [j1 EXCEPT !.key = k]
               j3 == [j2 EXCEPT !.body = Restored(k)]
    <3>5. job[p].list \ {k} \subseteq Key
          BY <2>0 DEF Job
    <3>6. j1 \in Job /\ j1.cmd = job[p].cmd
          BY <2>0, <3>5, FieldUpdates
    <3>7. j2 \in Job /\ j2.cmd = job[p].cmd /\ j2.key = k
      <4> HIDE DEF j1
      <4> QED BY <2>2, <3>6, FieldUpdates
    <3>8. j3 \in Job /\ j3.cmd = job[p].cmd /\ j3.key = k /\ j3.body = Restored(k)
      <4> HIDE DEF j2
      <4> QED BY <2>3, <3>7, FieldUpdates
    <3>9. job' = [job EXCEPT ![p] = j3]
          BY <2>1, <2>4
    <3>1. /\ job' \in [Proc -> Job] /\ job'[p].cmd = job[p].cmd
          /\ job'[p].key = k /\ job'[p].body = Restored(k) /\ pc'[p] = "insert"
      <4> HIDE DEF j3
      <4> QED BY <2>1, <2>4, <3>8, <3>9 DEF TypeOK, Goto
    <3>10. pc' = [pc EXCEPT ![p] = "insert"]
          BY <2>1, <2>4 DEF Goto
    <3>11. UNCHANGED <<columns, events, lock, done, clock, faults, changes>>
          BY <1>13 DEF Examine
    <3> HIDE DEF j3
    <3>2. TypeOK'
          BY <3>1, <3>10, <3>11 DEF TypeOK, Label
    <3>3. Steps!(p)'
          BY <2>2, <2>3, <3>1
    <3>4. Steps'
          BY <1>13, <2>1, <2>4, <3>3, OneMoves DEF Examine, Goto, TypeOK
    <3> QED BY <3>2, <3>4
  <2>5. CASE ~Restorable(p, k)
    <3>1. /\ job' \in [Proc -> Job] /\ job'[p].cmd = job[p].cmd
          /\ job'[p].key = job[p].key /\ job'[p].body = job[p].body /\ pc' = pc
      <4>1. job[p].list \ {k} \subseteq Key
            BY <2>0 DEF Job
      <4>2. /\ job' = [job EXCEPT ![p] = [job[p] EXCEPT !.list = job[p].list \ {k}]]
            /\ pc' = pc
            BY <2>1, <2>5
      <4> QED BY <2>0, <4>1, <4>2, FieldUpdates DEF TypeOK
    <3>2. TypeOK'
          BY <1>13, <3>1 DEF Examine, TypeOK
    <3>3. lock' = lock
          BY <1>13 DEF Examine
    <3>4. Steps!(p)'
          BY <2>0, <3>1, <3>3
    <3>5. Steps'
          BY <2>1, <2>5, <3>1, <3>3, <3>4, OneMoves DEF TypeOK
    <3> QED BY <3>2, <3>5
  <2> QED BY <2>4, <2>5
<1>14. ASSUME NEW p \in Proc, ListDone(p)
       PROVE  Typed'
  <2>1. CASE Goto(p, "tasks") /\ UNCHANGED job
        BY <1>14, <2>1 DEF ListDone, Goto, TypeOK, Label, Steps
  <2>2. CASE Return(p)
        BY <1>14, <2>2, ReturnTyped, Returned DEF ListDone, TypeOK
  <2> QED BY <1>14, <2>1, <2>2 DEF ListDone
<1>15. ASSUME NEW p \in Proc, Crash(p)
       PROVE  Typed'
  <2>1. lock' = lock \/ (lock' = NoProc /\ lock = p)
        BY <1>15 DEF Crash
  <2> QED BY <1>15, <2>1, ReturnTyped, Returned DEF Crash, Fault, TypeOK
<1> QED
    BY <1>0, <1>1, <1>2, <1>3, <1>4, <1>5, <1>6, <1>7, <1>8, <1>9, <1>10, <1>11,
       <1>12, <1>13, <1>14, <1>15 DEF Next, AppendAuditEvent, AuditRestore

-----------------------------------------------------------------------------
\* The rows committed before are covered as they were: only Commit adds one.
LEMMA SameRows ==
    ASSUME UNCHANGED events
    PROVE  /\ \A n \in Nat : Covered(n)' = Covered(n)
           /\ OldRows => OldRows'
           /\ HashCoversHistory => HashCoversHistory'
BY DEF Covered, OldRows, HashCoversHistory

LEMMA CommitCovers ==
    ASSUME IInv, NEW p \in Proc, Commit(p)
    PROVE  OldRows' /\ HashCoversHistory'
<1>a. PICK n \in Nat : n = Len(events)
      BY DEF IInv, Typed, TypeOK
<1> DEFINE e == [body |-> job[p].body, prev |-> job[p].prev, hash |-> job[p].hash]
<1>0. /\ n \in Nat /\ Legacy \in Nat /\ Legacy <= n
      /\ events \in Seq(Event) /\ events' = Append(events, e)
      BY <1>a, AuditAssumption DEF IInv, Typed, TypeOK, OldRows, Commit
<1>1. /\ Len(events') = n + 1
      /\ \A i \in 1..n : events'[i] = events[i]
      /\ events'[n + 1] = e
      BY <1>0, <1>a
<1>2. OldRows'
      BY <1>0, <1>1 DEF IInv, OldRows
<1>3. \A i \in Legacy..n : Covered(i)' = Covered(i)
  <2> SUFFICES ASSUME NEW i \in Legacy..n
               PROVE  Covered(i)' = Covered(i)
      OBVIOUS
  <2>1. \A j \in 1..(i - Legacy) : events'[Legacy + j] = events[Legacy + j]
        BY <1>0, <1>1
  <2> QED BY <2>1 DEF Covered
<1>4. job[p].prev = Covered(n) /\ job[p].hash = Append(Covered(n), NextRow(p))
      BY <1>a DEF IInv, Linked, Commit
<1>5. Covered(n + 1)' = Append(Covered(n), NextRow(p))
  <2>1. /\ Covered(n) \in Seq(Link)
        /\ Len(Covered(n)) = n - Legacy
    <3>1. n \in Legacy..Len(events) /\ n - Legacy \in Nat
          BY <1>0, <1>a
    <3>2. Covered(n) \in Seq(Link)
          BY <3>1, CoveredTyped DEF IInv, Typed
    <3> QED BY <3>1, <3>2 DEF Covered
  <2>2. NextRow(p) \in Link
    <3>1. job[p].body \in Body
          BY DEF IInv, Typed, Steps, Commit
    <3> QED BY <1>0, <1>a, <3>1 DEF NextRow, Link
  <2>3. \A i \in 1..(n - Legacy) :
          Covered(n)[i] = [id |-> Legacy + i, body |-> events'[Legacy + i].body]
        BY <1>0, <1>1 DEF Covered
  <2>4. NextRow(p) = [id |-> Legacy + (n - Legacy + 1),
                      body |-> events'[Legacy + (n - Legacy + 1)].body]
        BY <1>0, <1>1, <1>a DEF NextRow
  <2>5. (n + 1) - Legacy = n - Legacy + 1 /\ n - Legacy \in Nat
        BY <1>0
  <2>6. Covered(n + 1)' = [i \in 1..(n - Legacy + 1) |->
                             [id |-> Legacy + i, body |-> events'[Legacy + i].body]]
        BY <2>5 DEF Covered
  <2>7. \A i \in 1..(n - Legacy + 1) :
          [id |-> Legacy + i, body |-> events'[Legacy + i].body] \in Link
    <3>1. SUFFICES ASSUME NEW i \in 1..(n - Legacy + 1)
                   PROVE  [id |-> Legacy + i, body |-> events'[Legacy + i].body] \in Link
          OBVIOUS
    <3>2. CASE i = n - Legacy + 1
          BY <2>2, <2>4, <3>2
    <3>3. CASE i # n - Legacy + 1
      <4>1. i \in 1..(n - Legacy)
            BY <2>5, <3>3
      <4>2. Covered(n)[i] \in Link
            BY <2>1, <4>1
      <4> QED BY <2>3, <4>1, <4>2
    <3> QED BY <3>2, <3>3
  <2>8. Covered(n + 1)' \in Seq(Link) /\ Len(Covered(n + 1)') = n - Legacy + 1
        BY <2>5, <2>6, <2>7
  <2>9. \A i \in 1..(n - Legacy + 1) :
          Append(Covered(n), NextRow(p))[i] = (Covered(n + 1)')[i]
    <3>1. SUFFICES ASSUME NEW i \in 1..(n - Legacy + 1)
                   PROVE  Append(Covered(n), NextRow(p))[i] = (Covered(n + 1)')[i]
          OBVIOUS
    <3>2. (Covered(n + 1)')[i] = [id |-> Legacy + i, body |-> events'[Legacy + i].body]
          BY <2>6
    <3>3. CASE i = n - Legacy + 1
      <4>1. Append(Covered(n), NextRow(p))[i] = NextRow(p)
            BY <2>1, <2>2, <2>5, <3>3, AppendProperties
      <4> QED BY <2>4, <3>2, <3>3, <4>1
    <3>4. CASE i # n - Legacy + 1
      <4>1. i \in 1..(n - Legacy)
            BY <2>5, <3>4
      <4>2. Append(Covered(n), NextRow(p))[i] = Covered(n)[i]
            BY <2>1, <2>2, <4>1, AppendProperties
      <4> QED BY <2>3, <3>2, <4>1, <4>2
    <3> QED BY <3>3, <3>4
  <2>10. /\ Append(Covered(n), NextRow(p)) \in Seq(Link)
         /\ Len(Append(Covered(n), NextRow(p))) = n - Legacy + 1
        BY <2>1, <2>2, AppendProperties
  <2> QED BY <2>8, <2>9, <2>10, SeqEqual
<1>6. HashCoversHistory'
  <2> SUFFICES ASSUME NEW i \in Legacy + 1..n + 1
               PROVE  /\ events'[i].hash = Covered(i)'
                      /\ events'[i].prev = Covered(i - 1)'
      BY <1>1 DEF HashCoversHistory
  <2>1. CASE i = n + 1
    <3>1. events'[i].hash = Covered(n + 1)' /\ events'[i].prev = Covered(n)'
      <4>1. events'[i] = e
            BY <1>1, <2>1
      <4>2. n \in Legacy..n
            BY <1>0
      <4>3. Covered(n)' = Covered(n)
            BY <1>3, <4>2
      <4>4. events'[i].hash = job[p].hash /\ events'[i].prev = job[p].prev
            BY <4>1
      <4> QED BY <1>4, <1>5, <4>3, <4>4
    <3>2. i - 1 = n
          BY <2>1
    <3>3. Covered(i)' = Covered(n + 1)' /\ Covered(i - 1)' = Covered(n)'
          BY <2>1, <3>2 DEF Covered
    <3> QED BY <3>1, <3>3
  <2>2. CASE i # n + 1
    <3>1. i \in Legacy + 1..n /\ i \in 1..n /\ i \in Legacy..n /\ i - 1 \in Legacy..n
          BY <1>0, <2>2
    <3>2. events[i].hash = Covered(i) /\ events[i].prev = Covered(i - 1)
          BY <1>a, <3>1 DEF IInv, HashCoversHistory
    <3> QED BY <1>1, <1>3, <3>1, <3>2
  <2> QED BY <2>1, <2>2
<1> QED BY <1>2, <1>6

LEMMA InitIInv == Init => IInv
<1> SUFFICES ASSUME Init PROVE IInv
    OBVIOUS
<1>1. /\ Len(events) = Legacy /\ Legacy \in Nat
      /\ \A i \in 1..Legacy : events[i].hash = Null
      BY AuditAssumption DEF Init
<1>2. OldRows /\ HashCoversHistory
      BY <1>1 DEF OldRows, HashCoversHistory
<1>3. Linked
      BY DEF Init, Linked
<1> QED BY <1>2, <1>3, InitTyped DEF IInv

\* One step per action that touches what Linked speaks of.
LEMMA NextLinked == IInv /\ [Next]_vars => Linked'
<1> SUFFICES ASSUME IInv, [Next]_vars, NEW q \in Proc, pc'[q] = "commit"
             PROVE  /\ job'[q].prev = Covered(Len(events))'
                    /\ job'[q].hash = Append(Covered(Len(events)), NextRow(q))'
    BY DEF Linked
<1> DEFINE Kept == /\ pc[q] = "commit" /\ events' = events
                   /\ job'[q].prev = job[q].prev /\ job'[q].hash = job[q].hash
                   /\ job'[q].body = job[q].body
<1>1. CASE Kept
      BY <1>1 DEF IInv, Linked, Covered, NextRow
<1>2. CASE UNCHANGED vars \/ Tick
      BY <1>1, <1>2 DEF vars, Tick
<1>a. pc \in [Proc -> Label] /\ job \in [Proc -> Job] /\ Len(events) \in Nat
      BY DEF IInv, Typed, TypeOK
<1>3. ASSUME NEW p \in Proc, EnsureColumns(p)
      PROVE  Kept
  <2>1. AfterInit(p) # "commit"
        BY DEF AfterInit
  <2> QED
      BY <1>a, <1>3, <2>1 DEF EnsureColumns, LookColumn, AddColumn, Goto, Return
<1>4. ASSUME NEW p \in Proc, Begin(p)
      PROVE  Kept
  <2>1. pc' = [pc EXCEPT ![p] = "look_prev"] /\ UNCHANGED events
        BY <1>4 DEF Begin, Goto
  <2>2. q # p
        BY <1>a, <2>1
  <2>3. job'[q] = job[q]
        BY <1>4, <1>a, <2>2 DEF Begin
  <2> QED BY <1>a, <2>1, <2>2, <2>3
<1>5. ASSUME NEW p \in Proc, ChangeBusy(p) \/ ChangeRefused(p) \/ InsertBusy(p)
      PROVE  Kept
      BY <1>a, <1>5 DEF ChangeBusy, ChangeRefused, InsertBusy, Return
<1>6. ASSUME NEW p \in Proc, AppendFails(p) \/ Crash(p)
      PROVE  Kept
      BY <1>a, <1>6 DEF AppendFails, Crash, Return
<1>7. ASSUME NEW p \in Proc, Change(p)
      PROVE  Kept
  <2>1. q # p
        BY <1>7, <1>a DEF Change, Goto
  <2>2. /\ events' = events /\ pc'[q] = pc[q]
        /\ job'[q] = job[q] \/ job'[q] = [job[q] EXCEPT !.kept = @ \ {job[p].key}]
        BY <1>7, <1>a, <2>1 DEF Change, Goto
  <2>3. job[q] \in Job
        BY <1>a
  <2> QED BY <2>2, <2>3 DEF Job
<1>8. ASSUME NEW p \in Proc, Insert(p)
      PROVE  Kept
  <2>1. q # p
        BY <1>8, <1>a DEF Insert, Goto
  <2> QED BY <1>8, <1>a, <2>1 DEF Insert, Goto
<1>9. ASSUME NEW p \in Proc, Glob(p) \/ Examine(p) \/ ListDone(p)
      PROVE  Kept
  <2>1. q # p
        BY <1>9, <1>a DEF Glob, Examine, ListDone, Goto, Return
  <2> QED BY <1>9, <1>a, <2>1 DEF Glob, Examine, ListDone, Goto, Return
<1>10. ASSUME NEW p \in Proc, Commit(p)
       PROVE  FALSE
  <2>1. q # p
        BY <1>10, <1>a DEF Commit, Goto, Return
  <2>2. pc[q] = "commit"
        BY <1>10, <1>a, <2>1 DEF Commit, Goto, Return
  <2>3. lock = p /\ lock = q
        BY <1>10, <2>2 DEF Commit, IInv, Typed, Steps
  <2> QED BY <2>1, <2>3
<1>11. ASSUME NEW p \in Proc, LinkRow(p)
       PROVE  /\ job'[q].prev = Covered(Len(events))'
              /\ job'[q].hash = Append(Covered(Len(events)), NextRow(q))'
  <2>1. q = p
    <3>1. ASSUME q # p PROVE FALSE
      <4>1. pc[q] = "commit"
            BY <1>11, <1>a, <3>1 DEF LinkRow, Goto
      <4>2. lock = p /\ lock = q
            BY <1>11, <4>1 DEF LinkRow, IInv, Typed, Steps
      <4> QED BY <3>1, <4>2
    <3> QED BY <3>1
  <2>2. LastHash = Covered(Len(events))
        BY LastHashCovers DEF IInv, Typed
  <2>3. job[p] \in Job
        BY <1>a
  <2>4. job' = [job EXCEPT ![p] = [job[p] EXCEPT !.prev = LastHash,
                                    !.hash = Append(LastHash, NextRow(p))]]
        BY <1>11 DEF LinkRow, NextRow
  <2>5. /\ job'[p].prev = LastHash /\ job'[p].hash = Append(LastHash, NextRow(p))
        /\ job'[p].body = job[p].body
        BY <1>a, <2>3, <2>4 DEF Job
  <2>6. events' = events
        BY <1>11 DEF LinkRow
  <2> QED BY <2>1, <2>2, <2>5, <2>6 DEF NextRow, Covered
<1> QED
    BY <1>1, <1>2, <1>3, <1>4, <1>5, <1>6, <1>7, <1>8, <1>9, <1>10, <1>11
    DEF Next, AppendAuditEvent, AuditRestore

LEMMA NextIInv == IInv /\ [Next]_vars => IInv'
<1> SUFFICES ASSUME IInv, [Next]_vars
             PROVE  OldRows' /\ HashCoversHistory'
    BY NextTyped, NextLinked DEF IInv
<1>1. CASE UNCHANGED events
      BY <1>1, SameRows DEF IInv
<1>2. ASSUME NEW p \in Proc, Commit(p)
      PROVE  OldRows' /\ HashCoversHistory'
      BY <1>2, CommitCovers
<1> QED
    BY <1>1, <1>2 DEF Next, vars, Tick, Begin, EnsureColumns, LookColumn, AddColumn, Change,
       ChangeBusy, ChangeRefused, AppendAuditEvent, Insert, InsertBusy, LinkRow, AppendFails,
       AuditRestore, Glob, Examine, ListDone, Crash

LEMMA Invariant == Spec => []IInv
BY InitIInv, NextIInv, PTL DEF Spec

\* The audit log's variables keep their types (the table, the lock and what a
\* command holds in memory).
THEOREM AuditLogTyped == Spec => []TypeOK
BY Invariant, PTL DEF IInv, Typed

\* However many processes append, restore, fail and crash, the hash of every
\* event covers every event before it in the order of the ids, and its prev_hash
\* is that of the one before (AppendAuditEvent).
THEOREM ChainCovers == Spec => []HashCoversHistory
BY Invariant, PTL DEF IInv

-----------------------------------------------------------------------------
(* What a restore leaves behind, and how much is logged. *)

InInit == {"look_prev", "add_prev", "look_event", "add_event"}
Writing == {"insert", "link", "commit"}

\* InitDB adds the columns in this order.
Ready(p) ==
    /\ pc[p] \in {"look_event", "add_event"} => "prev_hash" \in columns
    /\ pc[p] \notin {"idle"} \cup InInit => columns = Columns

\* What a process writes: a restore writes completions, a command its own event.
Authored(p) ==
    /\ job[p].cmd \in Commands[p] \cup {"none"}
    /\ pc[p] \in Writing =>
         IF job[p].cmd = "restore"
         THEN job[p].body.by = "restore" /\ job[p].body.act = "completed"
         ELSE job[p].body.by = "command"

\* What a restore has found has its event, is still on the list, or is being
\* written; and none of it has left the completed/ folders.
Restoring(p) ==
    job[p].cmd = "restore" =>
        /\ pc[p] \in InInit \cup {"sprints"} => job[p].kept = {}
        /\ job[p].kept \subseteq done \ Untracked
        /\ pc[p] = "tasks" => \A k \in job[p].kept : HasEvent(k)
        /\ pc[p] \in {"next"} \cup Writing =>
             \A k \in job[p].kept :
                 \/ HasEvent(k)
                 \/ k \in job[p].list
                 \/ pc[p] \in Writing /\ k = job[p].body.key

Local(p) == Ready(p) /\ Authored(p) /\ Restoring(p)

LInv == Typed /\ \A p \in Proc : Local(p)

Others(p) == \A q \in Proc \ {p} : pc'[q] = pc[q] /\ job'[q] = job[q]

\* What an action other than a reopening does not take away.
Grows == /\ columns \subseteq columns' /\ columns' \subseteq Columns
         /\ done \subseteq done'
         /\ \A k \in Key : HasEvent(k) => HasEvent(k)'

-----------------------------------------------------------------------------
LEMMA ReturnEffect ==
    ASSUME TypeOK, NEW p \in Proc, Return(p)
    PROVE  Others(p) /\ Local(p)'
<1>1. Others(p) /\ pc'[p] = "idle" /\ job'[p] = NoJob
      BY DEF TypeOK, Return, Others
<1> QED BY <1>1 DEF Local, Ready, Authored, Restoring, NoJob, InInit, Writing

LEMMA OthersLocal ==
    ASSUME TypeOK, NEW p \in Proc, Others(p), Grows, \A q \in Proc : Local(q), Local(p)'
    PROVE  \A q \in Proc : Local(q)'
<1> SUFFICES ASSUME NEW q \in Proc \ {p}
             PROVE  Local(q)'
    OBVIOUS
<1>1. Local(q) /\ pc'[q] = pc[q] /\ job'[q] = job[q] /\ job[q].kept \subseteq Key
      BY DEF Others, TypeOK, Job
<1>2. Ready(q)'
      BY <1>1 DEF Local, Ready, Grows, Columns
<1>3. Authored(q)'
      BY <1>1 DEF Local, Authored
<1>4. Restoring(q)'
      BY <1>1 DEF Local, Restoring, Grows
<1> QED BY <1>2, <1>3, <1>4 DEF Local

LEMMA SameGrows ==
    ASSUME TypeOK, UNCHANGED events, columns \subseteq columns', columns' \subseteq Columns,
           done \subseteq done'
    PROVE  Grows
BY DEF Grows, HasEvent

LEMMA ReturnLocal ==
    ASSUME LInv, NEW p \in Proc, Return(p), UNCHANGED <<columns, events, done>>
    PROVE  \A q \in Proc : Local(q)'
<1>1. TypeOK /\ columns \subseteq Columns
      BY DEF LInv, Typed, TypeOK
<1>2. Grows
      BY <1>1, SameGrows
<1> QED BY <1>1, <1>2, ReturnEffect, OthersLocal DEF LInv

LEMMA InitLocal == Init => \A p \in Proc : Local(p)
<1> SUFFICES ASSUME Init, NEW p \in Proc PROVE Local(p)
    OBVIOUS
<1>1. pc[p] = "idle" /\ job[p] = NoJob
      BY DEF Init
<1> QED BY <1>1 DEF Local, Ready, Authored, Restoring, NoJob, InInit, Writing

LEMMA BeginLocal ==
    ASSUME LInv, NEW p \in Proc, Begin(p)
    PROVE  \A q \in Proc : Local(q)'
<1>0. TypeOK
      BY DEF LInv, Typed
<1>1. PICK c \in Commands[p], k \in Key \cup {NoKey} :
          job' = [job EXCEPT ![p] = [NoJob EXCEPT !.cmd = c, !.key = k]]
      BY DEF Begin
<1>2. /\ job'[p].cmd = c /\ job'[p].kept = {} /\ pc'[p] = "look_prev" /\ Others(p)
      BY <1>0, <1>1 DEF Begin, Goto, TypeOK, Others, NoJob
<1>3. Grows
      BY <1>0, SameGrows DEF Begin, TypeOK
<1>4. Local(p)'
      BY <1>2 DEF Local, Ready, Authored, Restoring, InInit, Writing
<1> QED BY <1>0, <1>2, <1>3, <1>4, OthersLocal DEF LInv

LEMMA EnsureLocal ==
    ASSUME LInv, NEW p \in Proc, EnsureColumns(p)
    PROVE  \A q \in Proc : Local(q)'
<1>0. TypeOK /\ Local(p) /\ columns \subseteq Columns
      BY DEF LInv, Typed, TypeOK
<1>1. AfterInit(p) \in {"sprints", "change"}
      BY DEF AfterInit
<1>2. CASE Return(p) /\ UNCHANGED columns
      BY <1>2, ReturnLocal DEF EnsureColumns, LookColumn, AddColumn
<1>3. CASE ~(Return(p) /\ UNCHANGED columns)
  <2>1. /\ job' = job /\ UNCHANGED <<events, done>>
        /\ columns \subseteq columns' /\ columns' \subseteq Columns
        /\ pc[p] \in InInit
        /\ \E l \in InInit \cup {AfterInit(p)} :
             /\ Goto(p, l)
             /\ l \in {"look_event", "add_event"} => "prev_hash" \in columns'
             /\ l = AfterInit(p) => columns' = Columns
    <3>1. CASE LookColumn(p, "look_prev", "prev_hash", "add_prev", "look_event")
      <4>1. CASE "prev_hash" \in columns
        <5>1. Goto(p, "look_event")
              BY <3>1, <4>1 DEF LookColumn
        <5> QED BY <1>0, <1>1, <3>1, <4>1, <5>1 DEF LookColumn, InInit
      <4>2. CASE "prev_hash" \notin columns
        <5>1. Goto(p, "add_prev")
              BY <3>1, <4>2 DEF LookColumn
        <5> QED BY <1>0, <1>1, <3>1, <5>1 DEF LookColumn, InInit
      <4> QED BY <4>1, <4>2
    <3>2. CASE AddColumn(p, "add_prev", "prev_hash", "look_event")
      <4>1. Goto(p, "look_event") /\ columns' = columns \cup {"prev_hash"}
            BY <1>3, <3>2 DEF AddColumn
      <4>2. /\ columns \subseteq columns' /\ columns' \subseteq Columns
            /\ "prev_hash" \in columns'
            BY <1>0, <4>1 DEF Columns
      <4>3. job' = job /\ UNCHANGED <<events, done>> /\ pc[p] = "add_prev"
            BY <1>3, <3>2 DEF AddColumn
      <4>4. "look_event" # AfterInit(p)
            BY <1>1
      <4> QED BY <4>1, <4>2, <4>3, <4>4 DEF InInit
    <3>3. CASE LookColumn(p, "look_event", "event_hash", "add_event", AfterInit(p))
      <4>1. "prev_hash" \in columns
            BY <1>0, <3>3 DEF LookColumn, Local, Ready
      <4>2. CASE "event_hash" \in columns
        <5>1. Goto(p, AfterInit(p)) /\ columns = Columns
              BY <1>0, <3>3, <4>1, <4>2 DEF LookColumn, Columns
        <5> QED BY <1>0, <1>1, <3>3, <5>1 DEF LookColumn, InInit
      <4>3. CASE "event_hash" \notin columns
        <5>1. Goto(p, "add_event")
              BY <3>3, <4>3 DEF LookColumn
        <5> QED BY <1>0, <1>1, <3>3, <4>1, <5>1 DEF LookColumn, InInit
      <4> QED BY <4>2, <4>3
    <3>4. CASE AddColumn(p, "add_event", "event_hash", AfterInit(p))
      <4>1. Goto(p, AfterInit(p)) /\ columns' = columns \cup {"event_hash"}
            BY <1>3, <3>4 DEF AddColumn
      <4>2. "prev_hash" \in columns
            BY <1>0, <3>4 DEF AddColumn, Local, Ready
      <4>3. columns \subseteq columns' /\ columns' = Columns
            BY <1>0, <4>1, <4>2 DEF Columns
      <4>4. job' = job /\ UNCHANGED <<events, done>> /\ pc[p] = "add_event"
            BY <1>3, <3>4 DEF AddColumn
      <4>5. AfterInit(p) \notin {"look_event", "add_event"}
            BY <1>1
      <4> QED BY <4>1, <4>3, <4>4, <4>5 DEF InInit
    <3> QED BY <3>1, <3>2, <3>3, <3>4 DEF EnsureColumns
  <2>2. PICK l \in InInit \cup {AfterInit(p)} :
             /\ Goto(p, l)
             /\ l \in {"look_event", "add_event"} => "prev_hash" \in columns'
             /\ l = AfterInit(p) => columns' = Columns
        BY <2>1
  <2>3. pc'[p] = l /\ job'[p] = job[p] /\ Others(p)
        BY <1>0, <2>1, <2>2 DEF Goto, TypeOK, Others
  <2>4. Grows
        BY <1>0, <2>1, SameGrows
  <2>5. Local(p)'
    <3>1. Ready(p)'
          BY <1>1, <2>2, <2>3 DEF Ready, InInit
    <3>2. Authored(p)'
          BY <1>0, <1>1, <2>3 DEF Local, Authored, InInit, Writing
    <3>3. Restoring(p)'
      <4>1. l # "tasks" /\ l \notin {"next"} \cup Writing
            BY <1>1 DEF InInit, Writing
      <4>2. done' = done
            BY <2>1
      <4> QED BY <1>0, <1>1, <2>1, <2>3, <4>1, <4>2 DEF Local, Restoring
    <3> QED BY <3>1, <3>2, <3>3 DEF Local
  <2> QED BY <1>0, <2>3, <2>4, <2>5, OthersLocal DEF LInv
<1> QED BY <1>2, <1>3

\* The change a command makes; a reopening takes its Task off what the restores
\* under way have found.
LEMMA ChangeLocal ==
    ASSUME LInv, NEW p \in Proc, Change(p)
    PROVE  \A q \in Proc : Local(q)'
<1> DEFINE c == job[p].cmd
           k == job[p].key
           b == [act |-> ActOf(c), key |-> k, by |-> "command",
                 stamp |-> clock, zoned |-> FALSE]
<1>0. TypeOK /\ Local(p) /\ pc[p] = "change" /\ columns = Columns
  <2>1. TypeOK /\ Local(p) /\ pc[p] = "change"
        BY DEF LInv, Typed, Change
  <2> QED BY <2>1 DEF Local, Ready, InInit
<1>1. c \in AllCommands \ {"restore", "preview"}
      BY <1>0 DEF LInv, Typed, Steps
<1>2. /\ c = "finish" => job'[p] = NoJob /\ pc'[p] = "idle"
      /\ c # "finish" => job'[p] = [job[p] EXCEPT !.body = b] /\ pc'[p] = "insert"
      BY DEF LInv, Typed, Change, Goto, TypeOK
<1>3. Local(p)'
  <2>1. CASE c = "finish"
        BY <1>2, <2>1 DEF Local, Ready, Authored, Restoring, NoJob, InInit, Writing
  <2>2. CASE c # "finish"
    <3>1. job'[p].cmd = c /\ job'[p].body = b
          BY <1>0, <1>2, <2>2 DEF TypeOK, Job
    <3>2. columns' = columns
          BY DEF Change
    <3> QED BY <1>0, <1>1, <1>2, <2>2, <3>1, <3>2
            DEF Local, Ready, Authored, Restoring, InInit, Writing
  <2> QED BY <2>1, <2>2
<1>4. ASSUME NEW q \in Proc \ {p}
      PROVE  Local(q)'
  <2>1. /\ pc'[q] = pc[q] /\ UNCHANGED <<columns, events>>
        /\ IF c = "reopen" THEN job'[q] = [job[q] EXCEPT !.kept = @ \ {k}]
                           ELSE job'[q] = job[q]
        /\ c # "reopen" => done \subseteq done'
        /\ c = "reopen" => done' = done \ {k}
        BY <1>0 DEF Change, Goto, TypeOK
  <2>2. job[q] \in Job /\ Local(q)
        BY <1>0 DEF LInv, TypeOK
  <2>3. /\ job'[q].cmd = job[q].cmd /\ job'[q].body = job[q].body
        /\ job'[q].list = job[q].list
        /\ job'[q].kept \subseteq job[q].kept
        /\ c = "reopen" => job'[q].kept = job[q].kept \ {k}
    <3>1. CASE c = "reopen"
          BY <2>1, <2>2, <3>1 DEF Job
    <3>2. CASE c # "reopen"
          BY <2>1, <3>2
    <3> QED BY <3>1, <3>2
  <2>4. Ready(q)'
        BY <2>1, <2>2 DEF Local, Ready
  <2>5. Authored(q)'
        BY <2>1, <2>2, <2>3 DEF Local, Authored
  <2>6. \A n : HasEvent(n)' <=> HasEvent(n)
        BY <2>1 DEF HasEvent
  <2>7. job[q].cmd = "restore" => job'[q].kept \subseteq done' \ Untracked
        BY <2>1, <2>2, <2>3 DEF Local, Restoring
  <2>8. Restoring(q)'
    <3> HIDE DEF c, k
    <3> QED BY <2>1, <2>2, <2>3, <2>6, <2>7 DEF Local, Restoring
  <2> QED BY <2>4, <2>5, <2>8 DEF Local
<1> QED BY <1>3, <1>4

\* A step of the append before its commit writes nothing that others see.
LEMMA AppendLocal ==
    ASSUME LInv, NEW p \in Proc, Insert(p) \/ LinkRow(p)
    PROVE  \A q \in Proc : Local(q)'
<1>0. TypeOK /\ Local(p) /\ pc[p] \in Writing /\ columns \subseteq Columns
      BY DEF LInv, Typed, TypeOK, Insert, LinkRow, Writing
<1>1. /\ pc'[p] \in Writing /\ Others(p) /\ UNCHANGED <<columns, events, done>>
      BY <1>0 DEF Insert, LinkRow, Goto, TypeOK, Others, Writing
<1>2. /\ job'[p].cmd = job[p].cmd /\ job'[p].kept = job[p].kept
      /\ job'[p].list = job[p].list
      /\ job'[p].body.by = job[p].body.by /\ job'[p].body.act = job[p].body.act
      /\ job'[p].body.key = job[p].body.key
  <2>1. job[p] \in Job /\ job[p].body \in Body
        BY <1>0 DEF TypeOK, LInv, Typed, Steps, Writing
  <2>2. CASE LinkRow(p)
        BY <1>0, <2>1, <2>2 DEF LinkRow, TypeOK, Job
  <2>3. CASE Insert(p)
    <3>1. CASE job' = job
          BY <3>1
    <3>2. CASE job' = [job EXCEPT ![p].body.stamp = clock]
          BY <1>0, <2>1, <3>2 DEF TypeOK, Job, Body
    <3> QED BY <2>3, <3>1, <3>2 DEF Insert
  <2> QED BY <2>2, <2>3
<1>3. Grows
      BY <1>0, <1>1, SameGrows
<1>4. \A k : HasEvent(k)' <=> HasEvent(k)
      BY <1>1 DEF HasEvent
<1>5. Ready(p)'
      BY <1>0, <1>1 DEF Local, Ready, Writing, InInit
<1>6. Authored(p)'
      BY <1>0, <1>1, <1>2 DEF Local, Authored, Writing
<1>7. Restoring(p)'
      BY <1>0, <1>1, <1>2, <1>4 DEF Local, Restoring, Writing, InInit
<1> QED BY <1>0, <1>1, <1>3, <1>5, <1>6, <1>7, OthersLocal DEF LInv, Local

LEMMA CommitLocal ==
    ASSUME LInv, NEW p \in Proc, Commit(p)
    PROVE  \A q \in Proc : Local(q)'
<1>0. TypeOK /\ Local(p) /\ pc[p] = "commit" /\ UNCHANGED <<columns, done>>
      BY DEF LInv, Typed, Commit
<1>1. PICK n \in Nat : n = Len(events)
      BY <1>0 DEF TypeOK
<1>2. /\ Len(events') = n + 1
      /\ \A i \in 1..n : events'[i] = events[i]
      /\ events'[n + 1].body = job[p].body
      BY <1>0, <1>1 DEF Commit, TypeOK
<1>3. Grows
      BY <1>0, <1>1, <1>2 DEF Grows, HasEvent, TypeOK
<1>4. \A k : job[p].cmd = "restore" /\ k = job[p].body.key => HasEvent(k)'
  <2>1. job[p].cmd = "restore" => job[p].body.act = "completed"
        BY <1>0 DEF Local, Authored, Writing
  <2> QED BY <1>1, <1>2, <2>1 DEF HasEvent
<1>5. CASE Return(p)
      BY <1>0, <1>3, <1>5, ReturnEffect, OthersLocal DEF LInv
<1>6. CASE job[p].cmd = "restore" /\ Goto(p, "next") /\ UNCHANGED job
  <2>1. pc'[p] = "next" /\ job'[p] = job[p] /\ Others(p)
        BY <1>0, <1>6 DEF Goto, TypeOK, Others
  <2>2. Ready(p)' /\ Authored(p)'
        BY <1>0, <2>1 DEF Local, Ready, Authored, Writing, InInit
  <2>3. job[p].kept \subseteq Key
        BY <1>0 DEF TypeOK, Job
  <2>4. Restoring(p)'
        BY <1>0, <1>3, <1>4, <1>6, <2>1, <2>3 DEF Local, Restoring, Writing, InInit, Grows
  <2> QED BY <1>0, <1>3, <2>1, <2>2, <2>4, OthersLocal DEF LInv, Local
<1> QED BY <1>5, <1>6 DEF Commit

-----------------------------------------------------------------------------
\* A restore lists the files, and goes through its list.
LEMMA GlobLocal ==
    ASSUME LInv, NEW p \in Proc, Glob(p)
    PROVE  \A q \in Proc : Local(q)'
<1>0. TypeOK /\ Local(p) /\ pc[p] \in {"sprints", "tasks"} /\ columns \subseteq Columns
      /\ UNCHANGED <<columns, events, done>> /\ job[p] \in Job
      BY DEF LInv, Typed, TypeOK, Glob
<1>1. /\ pc'[p] = "next" /\ Others(p)
      /\ job'[p].cmd = job[p].cmd
      /\ job'[p].list = Files(pc[p])
      /\ job'[p].kept = job[p].kept \cup (Files(pc[p]) \ Untracked)
      BY <1>0 DEF Glob, Goto, TypeOK, Others, Job
<1>2. Files(pc[p]) \subseteq done
      BY DEF Files
<1>3. Grows
      BY <1>0, SameGrows
<1>4. \A k : HasEvent(k)' <=> HasEvent(k)
      BY <1>0 DEF HasEvent
<1>5. Ready(p)' /\ Authored(p)'
      BY <1>0, <1>1 DEF Local, Ready, Authored, Writing, InInit
<1>6. Restoring(p)'
      BY <1>0, <1>1, <1>2, <1>4 DEF Local, Restoring, Writing, InInit
<1> QED BY <1>0, <1>1, <1>3, <1>5, <1>6, OthersLocal DEF LInv, Local

LEMMA ExamineLocal ==
    ASSUME LInv, NEW p \in Proc, Examine(p)
    PROVE  \A q \in Proc : Local(q)'
<1>0. TypeOK /\ Local(p) /\ pc[p] = "next" /\ columns \subseteq Columns
      /\ UNCHANGED <<columns, events, done>> /\ job[p] \in Job
      BY DEF LInv, Typed, TypeOK, Examine
<1>1. PICK k \in job[p].list :
         IF Restorable(p, k)
         THEN /\ Goto(p, "insert")
              /\ job' = [job EXCEPT ![p].list = @ \ {k}, ![p].key = k,
                                    ![p].body = Restored(k)]
         ELSE /\ job' = [job EXCEPT ![p].list = @ \ {k}]
              /\ UNCHANGED pc
      BY DEF Examine
<1>2. Grows
      BY <1>0, SameGrows
<1>3. \A n : HasEvent(n)' <=> HasEvent(n)
      BY <1>0 DEF HasEvent
<1>4. CASE Restorable(p, k)
  <2>1. /\ pc'[p] = "insert" /\ Others(p) /\ job'[p].cmd = job[p].cmd
        /\ job'[p].list = job[p].list \ {k} /\ job'[p].kept = job[p].kept
        /\ job'[p].body = Restored(k)
        BY <1>0, <1>1, <1>4 DEF Goto, TypeOK, Others, Job
  <2>2. job[p].cmd = "restore" /\ Restored(k).by = "restore"
        /\ Restored(k).act = "completed" /\ Restored(k).key = k
        BY <1>4 DEF Restorable, Restored
  <2>3. Ready(p)' /\ Authored(p)'
        BY <1>0, <2>1, <2>2 DEF Local, Ready, Authored, Writing, InInit
  <2>4. Restoring(p)'
        BY <1>0, <1>3, <2>1, <2>2 DEF Local, Restoring, Writing, InInit
  <2> QED BY <1>0, <1>2, <2>1, <2>3, <2>4, OthersLocal DEF LInv, Local
<1>5. CASE ~Restorable(p, k)
  <2>1. /\ pc'[p] = "next" /\ Others(p) /\ job'[p].cmd = job[p].cmd
        /\ job'[p].list = job[p].list \ {k} /\ job'[p].kept = job[p].kept
        BY <1>0, <1>1, <1>5 DEF TypeOK, Others, Job
  <2>2. job[p].cmd = "restore" /\ k \in job[p].kept => HasEvent(k)
        BY <1>0, <1>5 DEF Restorable, Local, Restoring
  <2>3. Ready(p)' /\ Authored(p)'
        BY <1>0, <2>1 DEF Local, Ready, Authored, Writing, InInit
  <2>4. Restoring(p)'
        BY <1>0, <1>3, <2>1, <2>2 DEF Local, Restoring, Writing, InInit
  <2> QED BY <1>0, <1>2, <2>1, <2>3, <2>4, OthersLocal DEF LInv, Local
<1> QED BY <1>4, <1>5

LEMMA ListDoneLocal ==
    ASSUME LInv, NEW p \in Proc, ListDone(p)
    PROVE  \A q \in Proc : Local(q)'
<1>0. TypeOK /\ Local(p) /\ pc[p] = "next" /\ job[p].list = {} /\ columns \subseteq Columns
      /\ UNCHANGED <<columns, events, done>>
      BY DEF LInv, Typed, TypeOK, ListDone
<1>1. CASE Return(p)
      BY <1>0, <1>1, ReturnLocal
<1>2. CASE Goto(p, "tasks") /\ UNCHANGED job
  <2>1. pc'[p] = "tasks" /\ job'[p] = job[p] /\ Others(p)
        BY <1>0, <1>2 DEF Goto, TypeOK, Others
  <2>2. Grows
        BY <1>0, SameGrows
  <2>3. \A n : HasEvent(n)' <=> HasEvent(n)
        BY <1>0 DEF HasEvent
  <2>4. Ready(p)' /\ Authored(p)'
        BY <1>0, <2>1 DEF Local, Ready, Authored, Writing, InInit
  <2>5. Restoring(p)'
        BY <1>0, <2>1, <2>3 DEF Local, Restoring, Writing, InInit
  <2> QED BY <1>0, <2>1, <2>2, <2>4, <2>5, OthersLocal DEF LInv, Local
<1> QED BY <1>1, <1>2 DEF ListDone

LEMMA NextLocal == IInv /\ LInv /\ [Next]_vars => LInv'
<1> SUFFICES ASSUME IInv, LInv, [Next]_vars
             PROVE  \A q \in Proc : Local(q)'
    BY NextTyped DEF LInv
<1>0. CASE UNCHANGED vars \/ Tick
      BY <1>0 DEF vars, Tick, LInv, Local, Ready, Authored, Restoring, HasEvent
<1>1. ASSUME NEW p \in Proc, ChangeBusy(p)
      PROVE  \A q \in Proc : Local(q)'
  <2>1. UNCHANGED <<columns, events, done>>
        BY <1>1 DEF ChangeBusy
  <2>2. CASE Return(p)
        BY <2>1, <2>2, ReturnLocal
  <2>3. CASE job' = [job EXCEPT ![p].tries = @ + 1] /\ UNCHANGED pc
    <3>1. \A q \in Proc : /\ job'[q].cmd = job[q].cmd /\ job'[q].body = job[q].body
                          /\ job'[q].kept = job[q].kept /\ job'[q].list = job[q].list
          BY <2>3 DEF LInv, Typed, TypeOK, Job
    <3> QED BY <2>1, <2>3, <3>1 DEF LInv, Local, Ready, Authored, Restoring, HasEvent
  <2> QED BY <1>1, <2>2, <2>3 DEF ChangeBusy
<1>2. ASSUME NEW p \in Proc,
             ChangeRefused(p) \/ InsertBusy(p) \/ AppendFails(p) \/ Crash(p)
      PROVE  \A q \in Proc : Local(q)'
      BY <1>2, ReturnLocal DEF ChangeRefused, InsertBusy, AppendFails, Crash
<1> QED
    BY <1>0, <1>1, <1>2, BeginLocal, EnsureLocal, ChangeLocal, AppendLocal, CommitLocal,
       GlobLocal, ExamineLocal, ListDoneLocal DEF Next, AppendAuditEvent, AuditRestore

LEMMA LocalInvariant == Spec => [](IInv /\ LInv)
<1>1. Init => IInv /\ LInv
      BY InitIInv, InitLocal DEF IInv, LInv
<1>2. IInv /\ LInv /\ [Next]_vars => (IInv /\ LInv)'
      BY NextIInv, NextLocal
<1> QED BY <1>1, <1>2, PTL DEF Spec

\* A command that is past InitDB finds both hash columns, whichever processes
\* added them and wherever earlier ones stopped (ensureAuditColumns).
THEOREM ColumnsBeforeUse == Spec => []SchemaReady
<1>1. LInv => SchemaReady
      BY DEF LInv, Local, Ready, SchemaReady, InInit
<1> QED BY <1>1, LocalInvariant, PTL

\* A restore that comes to its end has an event for every completed Sprint and
\* Task it found, known to git and not reopened meanwhile, whatever other
\* processes restore, complete, reopen and crash beside it (Restore).
THEOREM RestoreLeavesNoGap == Spec => RestoreCompletes
<1>1. LInv => \A p \in Proc : ListDone(p) /\ job[p].phase = "tasks" /\ job[p].cmd = "restore"
                                => \A k \in job[p].kept : HasEvent(k)
      BY DEF LInv, Local, Restoring, ListDone, Writing
<1> QED BY <1>1, LocalInvariant, PTL DEF RestoreCompletes
-----------------------------------------------------------------------------
\* The rows of an entity's changes, and the processes that are about to write one.
Tells(b, by, a, k) == b.by = by /\ b.act = a /\ b.key = k
Rows(by, a, k) == {i \in 1..Len(events) : Tells(events[i].body, by, a, k)}
Pending(by, a, k) == {p \in Proc : pc[p] \in Writing /\ Tells(job[p].body, by, a, k)}
Told(by, a, k) == Cardinality(Rows(by, a, k)) + Cardinality(Pending(by, a, k))

\* Written and about to be written, a change is not told more often than it
\* happened, nor a completion restored by more processes than restore.
AInv ==
    /\ \A a \in Act, k \in Key : Told("command", a, k) <= changes[a][k]
    /\ \A k \in Key : Told("restore", "completed", k) <= Cardinality(Restorers)
    /\ \A i \in 1..Len(events) :
         events[i].body.by = "restore" => events[i].body.act = "completed"

\* Nothing is added to what is told.
Quiet == /\ UNCHANGED <<events, changes>>
         /\ \A by \in {"command", "restore"}, a \in Act, k \in Key :
               Pending(by, a, k)' \subseteq Pending(by, a, k)

LEMMA TellsFinite ==
    ASSUME IsFiniteSet(Proc), Typed, NEW by, NEW a, NEW k
    PROVE  /\ IsFiniteSet(Rows(by, a, k)) /\ Cardinality(Rows(by, a, k)) \in Nat
           /\ IsFiniteSet(Pending(by, a, k)) /\ Cardinality(Pending(by, a, k)) \in Nat
           /\ IsFiniteSet(Restorers) /\ Cardinality(Restorers) \in Nat
<1>1. Len(events) \in Int /\ 1 \in Int
      BY DEF Typed, TypeOK
<1>2. IsFiniteSet(1..Len(events))
      BY <1>1, FS_Interval
<1>3. IsFiniteSet(Rows(by, a, k))
      BY <1>2, FS_Subset DEF Rows
<1>4. IsFiniteSet(Pending(by, a, k)) /\ IsFiniteSet(Restorers)
      BY FS_Subset DEF Pending, Restorers
<1> QED BY <1>3, <1>4, FS_CardinalityType

LEMMA QuietKeeps ==
    ASSUME IsFiniteSet(Proc), Typed, Typed', AInv, Quiet
    PROVE  AInv'
<1>1. ASSUME NEW by \in {"command", "restore"}, NEW a \in Act, NEW k \in Key
      PROVE  Told(by, a, k)' <= Told(by, a, k) /\ Told(by, a, k) \in Nat /\ Told(by, a, k)' \in Nat
  <2>1. Rows(by, a, k)' = Rows(by, a, k)
        BY DEF Quiet, Rows
  <2>2. Cardinality(Pending(by, a, k)') <= Cardinality(Pending(by, a, k))
        BY TellsFinite, FS_Subset DEF Quiet
  <2>3. Cardinality(Pending(by, a, k)') \in Nat
        BY TellsFinite, FS_Subset, FS_CardinalityType DEF Quiet
  <2> QED BY <2>1, <2>2, <2>3, TellsFinite DEF Told
<1>2. \A a \in Act, k \in Key : changes'[a][k] = changes[a][k] /\ changes[a][k] \in Nat
      BY DEF Quiet, Typed, TypeOK
<1>3. ASSUME NEW a \in Act, NEW k \in Key
      PROVE  Told("command", a, k)' <= changes'[a][k]
  <2>1. Told("command", a, k) <= changes[a][k]
        BY DEF AInv
  <2> QED BY <1>1, <1>2, <2>1
<1>4. ASSUME NEW k \in Key
      PROVE  Told("restore", "completed", k)' <= Cardinality(Restorers)
  <2>1. Told("restore", "completed", k) <= Cardinality(Restorers)
        BY DEF AInv
  <2>2. Cardinality(Restorers) \in Nat /\ "completed" \in Act
        BY TellsFinite DEF Act
  <2> QED BY <1>1, <2>1, <2>2
<1>5. Restorers' = Restorers
      BY DEF Restorers
<1> QED BY <1>3, <1>4, <1>5 DEF AInv, Quiet

\* A row takes the place of the process that was about to write it.
LEMMA CommitAccounted ==
    ASSUME IsFiniteSet(Proc), LInv, Typed', AInv, NEW p \in Proc, Commit(p)
    PROVE  AInv'
<1>0. /\ TypeOK /\ Typed /\ pc[p] = "commit" /\ job[p].body \in Body
      /\ IF job[p].cmd = "restore"
         THEN job[p].body.by = "restore" /\ job[p].body.act = "completed"
         ELSE job[p].body.by = "command"
      /\ UNCHANGED changes
  <2>1. Typed /\ pc[p] = "commit" /\ Local(p) /\ UNCHANGED changes
        BY DEF LInv, Commit
  <2> QED BY <2>1 DEF Typed, Steps, Local, Authored, Writing
<1>1. PICK n \in Nat : n = Len(events)
      BY <1>0 DEF TypeOK
<1>2. /\ Len(events') = n + 1
      /\ \A i \in 1..n : events'[i] = events[i]
      /\ events'[n + 1].body = job[p].body
      BY <1>0, <1>1 DEF Commit, TypeOK
<1>3. /\ pc'[p] \notin Writing
      /\ \A q \in Proc \ {p} : pc'[q] = pc[q] /\ job'[q] = job[q]
      BY <1>0 DEF Commit, Goto, Return, TypeOK, Writing
<1>4. ASSUME NEW by \in {"command", "restore"}, NEW a \in Act, NEW k \in Key
      PROVE  Told(by, a, k)' <= Told(by, a, k)
  <2>1. Pending(by, a, k)' = Pending(by, a, k) \ {p}
        BY <1>3 DEF Pending
  <2>2. CASE Tells(job[p].body, by, a, k)
    <3>1. Rows(by, a, k)' = Rows(by, a, k) \cup {n + 1}
          BY <1>1, <1>2, <2>2 DEF Rows
    <3>2. n + 1 \notin Rows(by, a, k)
          BY <1>1 DEF Rows
    <3>3. p \in Pending(by, a, k)
          BY <1>0, <2>2 DEF Pending, Writing
    <3>4. Cardinality(Rows(by, a, k) \cup {n + 1}) = Cardinality(Rows(by, a, k)) + 1
          BY <1>0, <3>2, TellsFinite, FS_AddElement
    <3>5. Cardinality(Pending(by, a, k) \ {p}) = Cardinality(Pending(by, a, k)) - 1
          BY <1>0, <3>3, TellsFinite, FS_RemoveElement
    <3> QED BY <1>0, <2>1, <3>1, <3>4, <3>5, TellsFinite DEF Told
  <2>3. CASE ~Tells(job[p].body, by, a, k)
    <3>1. Rows(by, a, k)' = Rows(by, a, k)
      <4>1. \A i \in 1..n + 1 : i \in 1..n \/ i = n + 1
            BY <1>1
      <4> QED BY <1>1, <1>2, <2>3, <4>1 DEF Rows
    <3>2. p \notin Pending(by, a, k)
          BY <2>3 DEF Pending
    <3>3. Pending(by, a, k)' = Pending(by, a, k)
          BY <2>1, <3>2
    <3> QED BY <1>0, <3>1, <3>3, TellsFinite DEF Told
  <2> QED BY <2>2, <2>3
<1>5. \A by \in {"command", "restore"}, a \in Act, k \in Key :
         Told(by, a, k) \in Int /\ Told(by, a, k)' \in Int
  <2> SUFFICES ASSUME NEW by \in {"command", "restore"}, NEW a \in Act, NEW k \in Key
               PROVE  Told(by, a, k) \in Int /\ Told(by, a, k)' \in Int
      OBVIOUS
  <2>1. Pending(by, a, k)' \subseteq Proc /\ Rows(by, a, k)' \subseteq 1..(n + 1)
        BY <1>2 DEF Pending, Rows
  <2>2. IsFiniteSet(1..(n + 1))
        BY FS_Interval
  <2>3. Cardinality(Pending(by, a, k)') \in Nat /\ Cardinality(Rows(by, a, k)') \in Nat
        BY <2>1, <2>2, FS_Subset, FS_CardinalityType
  <2> QED BY <1>0, <2>3, TellsFinite DEF Told
<1>6. \A a \in Act, k \in Key : Told("command", a, k)' <= changes'[a][k]
  <2> SUFFICES ASSUME NEW a \in Act, NEW k \in Key
               PROVE  Told("command", a, k)' <= changes'[a][k]
      OBVIOUS
  <2>1. /\ Told("command", a, k) <= changes[a][k] /\ changes[a][k] \in Nat
        /\ changes' = changes
        BY <1>0 DEF AInv, TypeOK
  <2> QED BY <1>4, <1>5, <2>1
<1>7. \A k \in Key : Told("restore", "completed", k)' <= Cardinality(Restorers)
  <2> SUFFICES ASSUME NEW k \in Key
               PROVE  Told("restore", "completed", k)' <= Cardinality(Restorers)
      OBVIOUS
  <2>1. Told("restore", "completed", k) <= Cardinality(Restorers)
        BY DEF AInv
  <2>2. Cardinality(Restorers) \in Nat /\ "completed" \in Act
        BY <1>0, TellsFinite DEF Act
  <2> QED BY <1>4, <1>5, <2>1, <2>2
<1>8. \A i \in 1..Len(events') :
         events'[i].body.by = "restore" => events'[i].body.act = "completed"
  <2> SUFFICES ASSUME NEW i \in 1..n + 1
               PROVE  events'[i].body.by = "restore" => events'[i].body.act = "completed"
      BY <1>2
  <2>1. CASE i = n + 1
        BY <1>0, <1>2, <2>1
  <2>2. CASE i \in 1..n
        BY <1>1, <1>2, <2>2 DEF AInv
  <2> QED BY <2>1, <2>2
<1>9. Restorers' = Restorers
      BY DEF Restorers
<1> QED BY <1>6, <1>7, <1>8, <1>9 DEF AInv

\* A change is counted when it happens, and its event is then about to be written.
LEMMA ChangeAccounted ==
    ASSUME IsFiniteSet(Proc), LInv, Typed', AInv, NEW p \in Proc, Change(p)
    PROVE  AInv'
<1> DEFINE c == job[p].cmd
           n == job[p].key
           b == [act |-> ActOf(c), key |-> n, by |-> "command",
                 stamp |-> clock, zoned |-> FALSE]
<1>0. Typed /\ TypeOK /\ pc[p] = "change" /\ UNCHANGED events
      BY DEF LInv, Typed, Change
<1>1. c \in AllCommands \ {"restore", "preview"} /\ n \in Key
      BY <1>0 DEF Typed, Steps
<1>2. \A q \in Proc \ {p} : pc'[q] = pc[q] /\ job'[q].body = job[q].body
  <2> SUFFICES ASSUME NEW q \in Proc \ {p}
               PROVE  pc'[q] = pc[q] /\ job'[q].body = job[q].body
      OBVIOUS
  <2>1. /\ pc'[q] = pc[q]
        /\ job'[q] = job[q] \/ job'[q] = [job[q] EXCEPT !.kept = @ \ {n}]
        BY <1>0 DEF Change, Goto, TypeOK
  <2>2. job[q] \in Job
        BY <1>0 DEF TypeOK
  <2> QED BY <2>1, <2>2 DEF Job
<1>3. CASE c = "finish"
  <2>1. pc'[p] = "idle" /\ UNCHANGED changes
        BY <1>0, <1>3 DEF Change, Goto, TypeOK
  <2>2. Quiet
        BY <1>0, <1>2, <2>1 DEF Quiet, Pending, Writing
  <2> QED BY <1>0, <2>2, QuietKeeps
<1>4. CASE c # "finish"
  <2>1. job'[p].body = b /\ ActOf(c) \in Act
    <3>1. job'[p] = [job[p] EXCEPT !.body = b]
          BY <1>0, <1>4 DEF Change
    <3>2. ActOf(c) \in Act
          BY DEF ActOf, Act
    <3> QED BY <1>0, <3>1, <3>2 DEF TypeOK, Job
  <2>2. changes' = [changes EXCEPT ![ActOf(c)][n] = @ + 1]
        BY <1>4 DEF Change
  <2>3. \A a \in Act, k \in Key :
           /\ changes[a][k] \in Nat
           /\ changes'[a][k] = IF a = ActOf(c) /\ k = n THEN changes[a][k] + 1
                               ELSE changes[a][k]
        BY <1>0, <1>1, <2>1, <2>2 DEF TypeOK
  <2>4. ASSUME NEW by \in {"command", "restore"}, NEW a \in Act, NEW k \in Key
        PROVE  /\ Rows(by, a, k)' = Rows(by, a, k)
               /\ Pending(by, a, k)' \subseteq
                    IF by = "command" /\ a = ActOf(c) /\ k = n
                    THEN Pending(by, a, k) \cup {p} ELSE Pending(by, a, k)
    <3>1. Rows(by, a, k)' = Rows(by, a, k)
          BY <1>0 DEF Rows
    <3>2. p \in Pending(by, a, k)' => by = "command" /\ a = ActOf(c) /\ k = n
      <4> HIDE DEF c, n
      <4> QED BY <2>1 DEF Pending, Tells
    <3>3. Pending(by, a, k)' \ {p} \subseteq Pending(by, a, k)
          BY <1>2 DEF Pending
    <3> QED BY <3>1, <3>2, <3>3
  <2>5. ASSUME NEW a \in Act, NEW k \in Key
        PROVE  Told("command", a, k)' <= changes'[a][k]
    <3>1. Told("command", a, k) <= changes[a][k]
          BY DEF AInv
    <3>2. /\ IsFiniteSet(Pending("command", a, k) \cup {p})
          /\ Cardinality(Pending("command", a, k) \cup {p})
               <= Cardinality(Pending("command", a, k)) + 1
      <4>1. /\ IsFiniteSet(Pending("command", a, k))
            /\ Cardinality(Pending("command", a, k)) \in Nat
            BY <1>0, TellsFinite
      <4>2. /\ IsFiniteSet(Pending("command", a, k) \cup {p})
            /\ Cardinality(Pending("command", a, k) \cup {p})
                 = IF p \in Pending("command", a, k)
                   THEN Cardinality(Pending("command", a, k))
                   ELSE Cardinality(Pending("command", a, k)) + 1
            BY <4>1, FS_AddElement
      <4> QED BY <4>1, <4>2
    <3>3. /\ Cardinality(Rows("command", a, k)) \in Nat
          /\ Cardinality(Pending("command", a, k)) \in Nat
          /\ IsFiniteSet(Pending("command", a, k))
          BY <1>0, TellsFinite
    <3>4. CASE a = ActOf(c) /\ k = n
      <4>1. Pending("command", a, k)' \subseteq Pending("command", a, k) \cup {p}
            BY <2>4, <3>4
      <4>2. /\ Cardinality(Pending("command", a, k)') \in Nat
            /\ Cardinality(Pending("command", a, k)')
                 <= Cardinality(Pending("command", a, k) \cup {p})
            /\ Cardinality(Pending("command", a, k) \cup {p}) \in Nat
            BY <3>2, <4>1, FS_Subset, FS_CardinalityType
      <4>3. changes'[a][k] = changes[a][k] + 1 /\ changes[a][k] \in Nat
            BY <2>3, <3>4
      <4>4. Rows("command", a, k)' = Rows("command", a, k)
            BY <2>4
      <4> HIDE DEF c, n
      <4> QED BY <3>1, <3>2, <3>3, <4>2, <4>3, <4>4 DEF Told
    <3>5. CASE ~(a = ActOf(c) /\ k = n)
      <4>1. Pending("command", a, k)' \subseteq Pending("command", a, k)
            BY <2>4, <3>5
      <4>2. /\ Cardinality(Pending("command", a, k)') \in Nat
            /\ Cardinality(Pending("command", a, k)') <= Cardinality(Pending("command", a, k))
            BY <3>3, <4>1, FS_Subset, FS_CardinalityType
      <4>3. changes'[a][k] = changes[a][k] /\ changes[a][k] \in Nat
            BY <2>3, <3>5
      <4>4. Rows("command", a, k)' = Rows("command", a, k)
            BY <2>4
      <4> QED BY <3>1, <3>3, <4>2, <4>3, <4>4 DEF Told
    <3> QED BY <3>4, <3>5
  <2>6. ASSUME NEW k \in Key
        PROVE  Told("restore", "completed", k)' <= Cardinality(Restorers)
    <3>1. Told("restore", "completed", k) <= Cardinality(Restorers)
          BY DEF AInv
    <3>2. /\ Rows("restore", "completed", k)' = Rows("restore", "completed", k)
          /\ Pending("restore", "completed", k)' \subseteq Pending("restore", "completed", k)
          BY <2>4 DEF Act
    <3>3. /\ Cardinality(Rows("restore", "completed", k)) \in Nat
          /\ Cardinality(Pending("restore", "completed", k)) \in Nat
          /\ IsFiniteSet(Pending("restore", "completed", k))
          /\ Cardinality(Restorers) \in Nat
          BY <1>0, TellsFinite
    <3>4. /\ Cardinality(Pending("restore", "completed", k)') \in Nat
          /\ Cardinality(Pending("restore", "completed", k)')
               <= Cardinality(Pending("restore", "completed", k))
          BY <3>2, <3>3, FS_Subset, FS_CardinalityType
    <3> QED BY <3>1, <3>2, <3>3, <3>4 DEF Told
  <2>7. Restorers' = Restorers
        BY DEF Restorers
  <2> QED BY <1>0, <2>5, <2>6, <2>7 DEF AInv
<1> QED BY <1>3, <1>4

\* A restore turns to what has no completion event yet: whatever is being written
\* for it comes from a process that restores, and each of them writes one.
LEMMA ExamineAccounted ==
    ASSUME IsFiniteSet(Proc), LInv, LInv', AInv, NEW p \in Proc, Examine(p)
    PROVE  AInv'
<1>0. /\ Typed /\ TypeOK /\ pc[p] = "next" /\ UNCHANGED <<events, changes>>
      /\ job[p] \in Job /\ Typed'
      BY DEF LInv, Typed, TypeOK, Examine
<1>1. PICK n \in job[p].list :
         IF Restorable(p, n)
         THEN /\ Goto(p, "insert")
              /\ job' = [job EXCEPT ![p].list = @ \ {n}, ![p].key = n,
                                    ![p].body = Restored(n)]
         ELSE /\ job' = [job EXCEPT ![p].list = @ \ {n}]
              /\ UNCHANGED pc
      BY DEF Examine
<1>2. CASE ~Restorable(p, n)
  <2>1. \A q \in Proc : job'[q].body = job[q].body
    <3>1. job' = [job EXCEPT ![p] = [job[p] EXCEPT !.list = @ \ {n}]]
          BY <1>1, <1>2
    <3>2. [job[p] EXCEPT !.list = @ \ {n}].body = job[p].body
          BY <1>0 DEF Job
    <3> QED BY <1>0, <3>1, <3>2 DEF TypeOK
  <2>2. Quiet
        BY <1>0, <1>1, <1>2, <2>1 DEF Quiet, Pending
  <2> QED BY <1>0, <2>2, QuietKeeps
<1>3. CASE Restorable(p, n)
  <2>1. /\ pc'[p] = "insert" /\ job'[p].body = Restored(n)
        /\ \A q \in Proc \ {p} : pc'[q] = pc[q] /\ job'[q] = job[q]
        BY <1>0, <1>1, <1>3 DEF Goto, TypeOK, Job
  <2>2. ~HasEvent(n)
        BY <1>3 DEF Restorable
  <2>3. ASSUME NEW by \in {"command", "restore"}, NEW a \in Act, NEW k \in Key,
               ~(by = "restore" /\ a = "completed" /\ k = n)
        PROVE  Told(by, a, k)' <= Told(by, a, k) /\ Told(by, a, k) \in Nat /\ Told(by, a, k)' \in Nat
    <3>1. Pending(by, a, k)' \subseteq Pending(by, a, k)
          BY <2>1, <2>3 DEF Pending, Tells, Restored
    <3>2. Rows(by, a, k)' = Rows(by, a, k)
          BY <1>0 DEF Rows
    <3>3. /\ Cardinality(Rows(by, a, k)) \in Nat /\ Cardinality(Pending(by, a, k)) \in Nat
          /\ IsFiniteSet(Pending(by, a, k))
          BY <1>0, TellsFinite
    <3>4. /\ Cardinality(Pending(by, a, k)') \in Nat
          /\ Cardinality(Pending(by, a, k)') <= Cardinality(Pending(by, a, k))
          BY <3>1, <3>3, FS_Subset, FS_CardinalityType
    <3> QED BY <3>2, <3>3, <3>4 DEF Told
  <2>4. Told("restore", "completed", n)' <= Cardinality(Restorers)
    <3>1. Rows("restore", "completed", n)' = {}
          BY <1>0, <2>2 DEF Rows, Tells, HasEvent
    <3>2. Pending("restore", "completed", n)' \subseteq Restorers
      <4> SUFFICES ASSUME NEW q \in Proc, pc'[q] \in Writing,
                          Tells(job'[q].body, "restore", "completed", n)
                   PROVE  q \in Restorers
          BY DEF Pending
      <4>1. Authored(q)'
            BY DEF LInv, Local
      <4>2. job'[q].cmd = "restore" /\ job'[q].cmd \in Commands[q] \cup {"none"}
            BY <4>1 DEF Authored, Tells
      <4> QED BY <4>2 DEF Restorers
    <3>3. IsFiniteSet(Restorers) /\ Cardinality(Restorers) \in Nat
          BY <1>0, TellsFinite
    <3>4. /\ Cardinality(Pending("restore", "completed", n)') \in Nat
          /\ Cardinality(Pending("restore", "completed", n)') <= Cardinality(Restorers)
          BY <3>2, <3>3, FS_Subset, FS_CardinalityType
    <3>5. Cardinality(Rows("restore", "completed", n)') = 0
          BY <3>1, FS_EmptySet
    <3> QED BY <3>3, <3>4, <3>5 DEF Told
  <2>5. ASSUME NEW a \in Act, NEW k \in Key
        PROVE  Told("command", a, k)' <= changes'[a][k]
    <3>1. Told("command", a, k) <= changes[a][k] /\ changes[a][k] \in Nat /\ changes' = changes
          BY <1>0 DEF AInv, TypeOK
    <3> QED BY <2>3, <3>1
  <2>6. ASSUME NEW k \in Key
        PROVE  Told("restore", "completed", k)' <= Cardinality(Restorers)
    <3>1. CASE k = n
          BY <2>4, <3>1
    <3>2. CASE k # n
      <4>1. Told("restore", "completed", k) <= Cardinality(Restorers)
            BY DEF AInv
      <4>2. Cardinality(Restorers) \in Nat /\ "completed" \in Act
            BY <1>0, TellsFinite DEF Act
      <4> QED BY <2>3, <3>2, <4>1, <4>2
    <3> QED BY <3>1, <3>2
  <2>7. Restorers' = Restorers
        BY DEF Restorers
  <2> QED BY <1>0, <2>5, <2>6, <2>7 DEF AInv
<1> QED BY <1>2, <1>3

LEMMA InitAccounted == ASSUME IsFiniteSet(Proc) PROVE Init => AInv
<1> SUFFICES ASSUME Init PROVE AInv
    OBVIOUS
<1>1. PICK n \in Key :
        /\ events = [i \in 1..Legacy |->
                       [body |-> [act |-> "completed", key |-> n, by |-> "command",
                                  stamp |-> 0, zoned |-> FALSE],
                        prev |-> <<>>, hash |-> Null]]
        /\ changes = [a \in Act |-> [k \in Key |->
                         IF a = "completed" /\ k = n THEN Legacy ELSE 0]]
      BY DEF Init
<1>2. Typed /\ Legacy \in Nat /\ Len(events) = Legacy
      BY <1>1, InitTyped, AuditAssumption
<1>3. \A i \in 1..Legacy : /\ events[i].body.by = "command" /\ events[i].body.key = n
                           /\ events[i].body.act = "completed"
      BY <1>1
<1>4. \A by, a, k : Cardinality(Pending(by, a, k)) = 0
  <2>1. \A by, a, k : Pending(by, a, k) = {}
        BY DEF Init, Pending, Writing
  <2> QED BY <2>1, FS_EmptySet
<1>5. Cardinality(1..Legacy) = Legacy
      BY <1>2, FS_Interval
<1>6. ASSUME NEW a \in Act, NEW k \in Key
      PROVE  Told("command", a, k) <= changes[a][k]
  <2>1. CASE a = "completed" /\ k = n
    <3>1. Rows("command", a, k) = 1..Legacy
          BY <1>2, <1>3, <2>1 DEF Rows, Tells
    <3> QED BY <1>1, <1>2, <1>4, <1>5, <2>1, <3>1 DEF Told
  <2>2. CASE ~(a = "completed" /\ k = n)
    <3>1. Rows("command", a, k) = {}
          BY <1>2, <1>3, <2>2 DEF Rows, Tells
    <3>2. changes[a][k] = 0
          BY <1>1, <2>2
    <3> QED BY <1>4, <3>1, <3>2, FS_EmptySet DEF Told
  <2> QED BY <2>1, <2>2
<1>7. ASSUME NEW k \in Key
      PROVE  Told("restore", "completed", k) <= Cardinality(Restorers)
  <2>1. Rows("restore", "completed", k) = {}
        BY <1>2, <1>3 DEF Rows, Tells
  <2>2. Cardinality(Restorers) \in Nat
        BY <1>2, TellsFinite
  <2> QED BY <1>4, <2>1, <2>2, FS_EmptySet DEF Told
<1> QED BY <1>2, <1>3, <1>6, <1>7 DEF AInv

LEMMA NextAccounted ==
    ASSUME IsFiniteSet(Proc), IInv, LInv, AInv, [Next]_vars
    PROVE  AInv'
<1>0. Typed /\ TypeOK /\ LInv' /\ Typed'
      BY NextLocal DEF LInv, Typed
<1>1. CASE UNCHANGED vars \/ Tick
  <2>1. Quiet
        BY <1>1 DEF vars, Tick, Quiet, Pending
  <2> QED BY <1>0, <2>1, QuietKeeps
<1>2. ASSUME NEW p \in Proc,
             \/ Begin(p) \/ EnsureColumns(p) \/ ChangeBusy(p) \/ ChangeRefused(p)
             \/ Insert(p) \/ InsertBusy(p) \/ LinkRow(p) \/ AppendFails(p)
             \/ Glob(p) \/ ListDone(p) \/ Crash(p)
      PROVE  AInv'
  <2>1. UNCHANGED <<events, changes>>
        BY <1>2 DEF Begin, EnsureColumns, LookColumn, AddColumn, ChangeBusy, ChangeRefused,
                    Insert, InsertBusy, LinkRow, AppendFails, Glob, ListDone, Crash
  <2>2. \A q \in Proc \ {p} : pc'[q] = pc[q] /\ job'[q] = job[q]
    <3>1. CASE Begin(p)
          BY <1>0, <3>1 DEF Begin, Goto, TypeOK
    <3>2. CASE EnsureColumns(p)
          BY <1>0, <3>2 DEF EnsureColumns, LookColumn, AddColumn, Goto, Return, TypeOK
    <3>3. CASE Insert(p)
          BY <1>0, <3>3 DEF Insert, Goto, TypeOK
    <3>4. CASE LinkRow(p)
          BY <1>0, <3>4 DEF LinkRow, Goto, TypeOK
    <3>5. CASE Glob(p)
          BY <1>0, <3>5 DEF Glob, Goto, TypeOK
    <3>6. CASE ChangeBusy(p) \/ ChangeRefused(p) \/ InsertBusy(p)
          BY <1>0, <3>6 DEF ChangeBusy, ChangeRefused, InsertBusy, Return, TypeOK
    <3>7. CASE AppendFails(p) \/ ListDone(p) \/ Crash(p)
          BY <1>0, <3>7 DEF AppendFails, ListDone, Crash, Return, Goto, TypeOK
    <3> QED BY <1>2, <3>1, <3>2, <3>3, <3>4, <3>5, <3>6, <3>7
  <2>3. \/ pc'[p] \notin Writing
        \/ /\ pc[p] \in Writing
           /\ job'[p].body.by = job[p].body.by /\ job'[p].body.act = job[p].body.act
           /\ job'[p].body.key = job[p].body.key
    <3>1. CASE Insert(p)
      <4>1. job[p] \in Job /\ job[p].body \in Body /\ pc[p] \in Writing
            BY <1>0, <3>1 DEF Insert, Typed, TypeOK, Steps, Writing
      <4>2. CASE job' = job
            BY <4>1, <4>2
      <4>3. CASE job' = [job EXCEPT ![p].body.stamp = clock]
            BY <1>0, <4>1, <4>3 DEF TypeOK, Job, Body
      <4> QED BY <3>1, <4>2, <4>3 DEF Insert
    <3>2. CASE LinkRow(p)
          BY <1>0, <3>2 DEF LinkRow, TypeOK, Job, Writing
    <3>3. CASE Begin(p) \/ Glob(p)
          BY <1>0, <3>3 DEF Begin, Glob, Goto, TypeOK, Writing
    <3>4. CASE EnsureColumns(p)
      <4>1. AfterInit(p) \notin Writing
            BY DEF AfterInit, Writing
      <4> QED BY <1>0, <3>4, <4>1
              DEF EnsureColumns, LookColumn, AddColumn, Goto, Return, TypeOK, Writing
    <3>5. CASE ChangeBusy(p) \/ ChangeRefused(p) \/ InsertBusy(p)
          BY <1>0, <3>5 DEF ChangeBusy, ChangeRefused, InsertBusy, Return, TypeOK, Writing
    <3>6. CASE AppendFails(p) \/ ListDone(p) \/ Crash(p)
          BY <1>0, <3>6 DEF AppendFails, ListDone, Crash, Return, Goto, TypeOK, Writing
    <3> QED BY <1>2, <3>1, <3>2, <3>3, <3>4, <3>5, <3>6
  <2>4. Quiet
        BY <2>1, <2>2, <2>3 DEF Quiet, Pending, Tells
  <2> QED BY <1>0, <2>4, QuietKeeps
<1>3. ASSUME NEW p \in Proc, Change(p) \/ Examine(p) \/ Commit(p)
      PROVE  AInv'
      BY <1>0, <1>3, ChangeAccounted, ExamineAccounted, CommitAccounted
<1> QED BY <1>1, <1>2, <1>3 DEF Next, AppendAuditEvent, AuditRestore

\* What is told of an entity is bounded by what is told and about to be told.
LEMMA ToldBounds ==
    ASSUME IsFiniteSet(Proc), Typed, AInv
    PROVE  EventsAccounted
<1> SUFFICES ASSUME NEW k \in Key
             PROVE  /\ Cardinality(EventsOf(k, "restore")) <= Cardinality(Restorers)
                    /\ \A a \in Act :
                          Cardinality({i \in EventsOf(k, "command") : events[i].body.act = a})
                              <= changes[a][k]
    BY DEF EventsAccounted
<1>1. EventsOf(k, "restore") = Rows("restore", "completed", k)
      BY DEF EventsOf, Rows, Tells, AInv
<1>2. Cardinality(Rows("restore", "completed", k)) <= Cardinality(Restorers)
  <2>1. Told("restore", "completed", k) <= Cardinality(Restorers)
        BY DEF AInv
  <2> QED BY <2>1, TellsFinite DEF Told
<1>3. ASSUME NEW a \in Act
      PROVE  Cardinality({i \in EventsOf(k, "command") : events[i].body.act = a})
                 <= changes[a][k]
  <2>1. {i \in EventsOf(k, "command") : events[i].body.act = a} = Rows("command", a, k)
        BY DEF EventsOf, Rows, Tells
  <2>2. Told("command", a, k) <= changes[a][k] /\ changes[a][k] \in Nat
        BY DEF AInv, Typed, TypeOK
  <2>3. /\ Cardinality(Rows("command", a, k)) \in Nat
        /\ Cardinality(Pending("command", a, k)) \in Nat
        BY TellsFinite
  <2>4. Cardinality(Rows("command", a, k)) <= changes[a][k]
        BY <2>2, <2>3 DEF Told
  <2> QED BY <2>1, <2>4
<1> QED BY <1>1, <1>2, <1>3

\* With finitely many processes, no process restores an entity's completion
\* twice and no command logs more than it changed, whichever fail, crash or race
\* (auditEventExists, LogEvent).
THEOREM NoMoreThanHappened == ASSUME IsFiniteSet(Proc) PROVE Spec => []EventsAccounted
<1> DEFINE Inv == IInv /\ LInv /\ AInv
<1>1. Init => Inv
      BY InitIInv, InitLocal, InitAccounted DEF IInv, LInv
<1>2. Inv /\ [Next]_vars => Inv'
      BY NextIInv, NextLocal, NextAccounted
<1>3. Inv => EventsAccounted
      BY ToldBounds DEF IInv
<1> QED BY <1>1, <1>2, <1>3, PTL DEF Spec
=============================================================================
