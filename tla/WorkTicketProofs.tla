--------------------------- MODULE WorkTicketProofs ---------------------------
(***************************************************************************)
(* Proofs about WorkTicket, for any number of processes, worktrees, kills  *)
(* and failures: that the item `context_acknowledged` is only checked on   *)
(* an acknowledgement that counts, that a Task gets one ticket unasked,    *)
(* that row and file come to hold the same, and that commands nobody       *)
(* disturbs do what they promise.                                          *)
(***************************************************************************)
EXTENDS WorkTicket, TLAPS

\* The time to live is a number of minutes.
TtlAssumption == \A b \in Begins : b.ttl \in Nat

IsJob(j) ==
    /\ j = [cmd |-> j.cmd, tree |-> j.tree, ticket |-> j.ticket, hash |-> j.hash,
            fix |-> j.fix, left |-> j.left, live |-> j.live, since |-> j.since,
            before |-> j.before]
    /\ j.since \in Nat

\* An acknowledgement among A of hash h under one of the tickets L, no older at
\* the time s than the time to live t.
Backed(A, t, h, L, s) ==
    \E a \in A : a.hash = h /\ a.ticket \in L /\ (t > 0 => a.at >= s - t)

\* What a process knows at label c with the local variables j, when the time is n:
\* from the lookup on, that its ticket is one the Task has held meanwhile, and at
\* the check of the item that an acknowledgement backs it.
Sound(A, t, n, c, j) ==
    /\ IsJob(j) /\ j.since <= n
    /\ c # "idle" => j.cmd # "none"
    /\ c = "lookup" => j.ticket \in j.live
    /\ c = "mark" /\ Head(j.left) = ContextItem => Backed(A, t, j.hash, j.live, j.since)

Times == clock \in Nat /\ ttl \in Nat /\ \A a \in acks : a.at \in Nat

Commands ==
    /\ pc = [q \in Proc |-> pc[q]] /\ job = [q \in Proc |-> job[q]]
    /\ \A q \in Proc : Sound(acks, ttl, clock, pc[q], job[q])

IInv == Times /\ Commands /\ EvidenceCounts

Seen(j, x) == IF j.cmd = "none" THEN j ELSE [j EXCEPT !.live = @ \cup {x}]

-----------------------------------------------------------------------------
(* More acknowledgements, a later time and more tickets seen do no harm.   *)

LEMMA SeenShape ==
    ASSUME NEW j, IsJob(j), NEW x
    PROVE  /\ IsJob(Seen(j, x)) /\ j.live \subseteq Seen(j, x).live
           /\ Seen(j, x).since = j.since /\ Seen(j, x).cmd = j.cmd
           /\ Seen(j, x).left = j.left /\ Seen(j, x).hash = j.hash
           /\ Seen(j, x).ticket = j.ticket
           /\ j.cmd # "none" => x \in Seen(j, x).live
BY DEF IsJob, Seen

LEMMA BackedGrows ==
    ASSUME NEW A, NEW B, A \subseteq B, NEW t, NEW h, NEW L, NEW M, L \subseteq M, NEW s,
           Backed(A, t, h, L, s)
    PROVE  Backed(B, t, h, M, s)
BY DEF Backed

LEMMA SoundGrows ==
    ASSUME NEW A, NEW B, A \subseteq B, NEW t, NEW n \in Nat, NEW m \in Nat, n <= m,
           NEW c, NEW j, Sound(A, t, n, c, j), NEW x
    PROVE  Sound(B, t, m, c, Seen(j, x)) /\ Sound(B, t, m, c, j)
<1> IsJob(j) BY DEF Sound
<1>1. Sound(B, t, m, c, j)
      BY BackedGrows DEF Sound, IsJob
<1>2. Sound(B, t, m, c, Seen(j, x))
  <2> DEFINE k == Seen(j, x)
  <2>1. /\ IsJob(k) /\ j.live \subseteq k.live /\ k.since = j.since /\ k.cmd = j.cmd
        /\ k.left = j.left /\ k.hash = j.hash /\ k.ticket = j.ticket
        BY SeenShape
  <2>2. ASSUME c = "mark", Head(k.left) = ContextItem
        PROVE  Backed(B, t, k.hash, k.live, k.since)
        BY <2>1, <2>2, <1>1, BackedGrows DEF Sound
  <2> QED BY <1>1, <2>1, <2>2 DEF Sound
<1> QED BY <1>1, <1>2

\* A step that takes one process to a label keeps what all of them know, if that
\* process then knows what it has to.
LEMMA GoKeeps ==
    ASSUME Times, Commands, NEW p \in Proc, NEW c, NEW j,
           Go(p, c, j), acks \subseteq acks', ttl' = ttl, clock' = clock,
           Sound(acks', ttl, clock, c, Seen(j, ticket'))
    PROVE  Commands'
<1>1. /\ pc' = [q \in Proc |-> IF q = p THEN c ELSE pc[q]]
      /\ job' = [q \in Proc |-> Seen(IF q = p THEN j ELSE job[q], ticket')]
      BY DEF Go, See, Seen, Commands
<1>2. ASSUME NEW q \in Proc PROVE Sound(acks', ttl', clock', pc'[q], job'[q])
  <2>1. CASE q = p
        BY <1>1, <2>1
  <2>2. CASE q # p
    <3>1. Sound(acks, ttl, clock, pc[q], job[q])
          BY DEF Commands
    <3>2. Sound(acks', ttl, clock, pc[q], Seen(job[q], ticket'))
          BY <3>1, SoundGrows DEF Times
    <3> QED BY <1>1, <2>2, <3>2
  <2> QED BY <2>1, <2>2
<1> QED BY <1>1, <1>2 DEF Commands

\* The frame of most steps, acknowledgements apart.
Frame == /\ acks \subseteq acks' /\ \A a \in acks' : a.at \in Nat
         /\ ttl' = ttl /\ clock' = clock

LEMMA FrameKeeps ==
    ASSUME IInv, Frame
    PROVE  Times' /\ (basis' = basis => EvidenceCounts')
<1>1. Times'
      BY DEF IInv, Times, Frame
<1>2. ASSUME basis' = basis PROVE EvidenceCounts'
      BY <1>2 DEF IInv, EvidenceCounts, Frame
<1> QED BY <1>1, <1>2

\* At the labels where nothing has been found out yet any local variables do.
LEMMA PlainStep ==
    ASSUME IInv, Frame, NEW p \in Proc, NEW c, c \notin {"lookup", "mark"}, NEW j,
           IsJob(j), j.since <= clock, c # "idle" => j.cmd # "none", Go(p, c, j)
    PROVE  Commands'
<1>1. Sound(acks', ttl, clock, c, j)
      BY DEF Sound
<1>2. Sound(acks', ttl, clock, c, Seen(j, ticket'))
      BY <1>1, SoundGrows DEF IInv, Times
<1> QED BY <1>2, GoKeeps DEF IInv, Frame

LEMMA JobShape ==
    ASSUME Times, NEW cmd, NEW w, NEW t, NEW h, NEW fix, NEW left
    PROVE  /\ IsJob(Job(cmd, w, t, h, fix, left))
           /\ Job(cmd, w, t, h, fix, left).since = clock
           /\ Job(cmd, w, t, h, fix, left).cmd = cmd
           /\ Job(cmd, w, t, h, fix, left).left = left
BY DEF Job, IsJob, Times

LEMMA NoJobShape == IsJob(NoJob) /\ NoJob.since = 0
BY DEF NoJob, IsJob

LEMMA RunningJob ==
    ASSUME IInv, NEW p \in Proc
    PROVE  /\ IsJob(job[p]) /\ job[p].since <= clock
           /\ pc[p] # "idle" => job[p].cmd # "none"
BY DEF IInv, Commands, Sound

\* What a command puts into its local variables leaves it the same command.
Told(j, x)  == [j EXCEPT !.ticket = x]
Found(j, x) == [j EXCEPT !.hash = x]
Past(j, x)  == [j EXCEPT !.left = x]

LEMMA JobChanged ==
    ASSUME NEW j, IsJob(j), NEW x
    PROVE  /\ IsJob(Told(j, x)) /\ Told(j, x).since = j.since /\ Told(j, x).cmd = j.cmd
           /\ Told(j, x).ticket = x
           /\ IsJob(Found(j, x)) /\ Found(j, x).since = j.since /\ Found(j, x).cmd = j.cmd
           /\ IsJob(Past(j, x)) /\ Past(j, x).since = j.since /\ Past(j, x).cmd = j.cmd
<1>1. Told(j, x) = [cmd |-> j.cmd, tree |-> j.tree, ticket |-> x, hash |-> j.hash,
                    fix |-> j.fix, left |-> j.left, live |-> j.live, since |-> j.since,
                    before |-> j.before]
      BY DEF IsJob, Told
<1>2. Found(j, x) = [cmd |-> j.cmd, tree |-> j.tree, ticket |-> j.ticket, hash |-> x,
                     fix |-> j.fix, left |-> j.left, live |-> j.live, since |-> j.since,
                     before |-> j.before]
      BY DEF IsJob, Found
<1>3. Past(j, x) = [cmd |-> j.cmd, tree |-> j.tree, ticket |-> j.ticket, hash |-> j.hash,
                    fix |-> j.fix, left |-> x, live |-> j.live, since |-> j.since,
                    before |-> j.before]
      BY DEF IsJob, Past
<1> QED BY <1>1, <1>2, <1>3 DEF IsJob

LEMMA GoChanged ==
    ASSUME IInv, Frame, NEW p \in Proc, pc[p] # "idle", NEW x,
           NEW c, c \notin {"lookup", "mark"},
           \/ Go(p, c, Told(job[p], x)) \/ Go(p, c, Found(job[p], x))
           \/ Go(p, c, Past(job[p], x))
    PROVE  Commands'
BY RunningJob, JobChanged, PlainStep

LEMMA ReturnKeeps ==
    ASSUME IInv, Frame, NEW p \in Proc, Return(p)
    PROVE  Commands'
BY PlainStep, NoJobShape DEF Return, IInv, Times

LEMMA LeaveKeeps ==
    ASSUME IInv, Frame, NEW p \in Proc, pc[p] # "idle", Leave(p)
    PROVE  Commands'
<1>1. CASE Return(p)
      BY <1>1, ReturnKeeps
<1>2. CASE Go(p, "next", Past(job[p], Tail(job[p].left)))
  <2>1. \A x : Go(p, "next", Past(job[p], x)) => Commands'
        BY GoChanged
  <2> QED BY <1>2, <2>1
<1> QED BY <1>1, <1>2 DEF Leave, Past

LEMMA StayKeeps ==
    ASSUME IInv, Frame, NEW p \in Proc, pc[p] # "idle",
           NEW c, c \notin {"lookup", "mark"}, Go(p, c, job[p])
    PROVE  Commands'
BY RunningJob, PlainStep

LEMMA BeginKeeps ==
    ASSUME IInv, acks' = acks, NEW p \in Proc, NEW c, c \notin {"lookup", "mark"},
           NEW cmd, cmd # "none", NEW w, NEW t, NEW h, NEW fix, NEW left,
           Begin(p, c, Job(cmd, w, t, h, fix, left))
    PROVE  Times' /\ Commands' /\ (basis' = basis => EvidenceCounts')
<1> DEFINE j == Job(cmd, w, t, h, fix, left)
<1>1. Frame
      BY DEF Begin, Frame, IInv, Times
<1>2. IsJob(j) /\ j.since <= clock /\ j.cmd # "none"
      BY JobShape DEF IInv, Times
<1>3. Go(p, c, j)
      BY DEF Begin
<1>4. Commands'
      BY <1>1, <1>2, <1>3, PlainStep
<1> QED BY <1>1, <1>4, FrameKeeps

-----------------------------------------------------------------------------
(* The steps.                                                              *)


LEMMA BeginsKeep ==
    ASSUME IInv, NEW p \in Proc,
           \/ \E w \in Worktree :
                 \/ CreateTask(p, w) \/ StartTask(p, w) \/ Checkpoint(p, w)
                 \/ \E fix \in BOOLEAN : CollectRows(p, w, fix)
           \/ \E x \in Tickets : CollectContext(p, x)
           \/ \E h \in Context : CheckAck(p, h) \/ CheckAll(p, h)
           \/ \E cmd \in {"auto-check", "complete"} : AutoCheck(p, cmd)
    PROVE  IInv'
<1>1. ASSUME NEW w \in Worktree,
             CreateTask(p, w) \/ StartTask(p, w) \/ Checkpoint(p, w)
      PROVE  IInv'
  <2>1. CASE CreateTask(p, w)
    <3>1. Begin(p, "issue", Job("create", w, NoTicket, NoHash, FALSE, <<>>))
          BY <2>1 DEF CreateTask, Plain
    <3> QED BY <2>1, <3>1, BeginKeeps DEF CreateTask, IInv
  <2>2. CASE StartTask(p, w)
    <3>1. Begin(p, "existing", Job("start", w, NoTicket, NoHash, FALSE, <<>>))
          BY <2>2 DEF StartTask, Plain
    <3> QED BY <2>2, <3>1, BeginKeeps DEF StartTask, IInv
  <2>3. CASE Checkpoint(p, w)
    <3>1. Begin(p, "issue", Job("checkpoint", w, NoTicket, NoHash, FALSE, <<>>))
          BY <2>3 DEF Checkpoint, Plain
    <3> QED BY <2>3, <3>1, BeginKeeps DEF Checkpoint, IInv
  <2> QED BY <1>1, <2>1, <2>2, <2>3
<1>2. ASSUME NEW w \in Worktree, NEW fix \in BOOLEAN, CollectRows(p, w, fix)
      PROVE  IInv'
      BY <1>2, BeginKeeps DEF CollectRows, IInv
<1>3. ASSUME NEW x \in Tickets, CollectContext(p, x) PROVE IInv'
      BY <1>3, BeginKeeps DEF CollectContext, IInv
<1>4. ASSUME NEW h \in Context, CheckAck(p, h) PROVE IInv'
      BY <1>4, BeginKeeps DEF CheckAck, IInv
<1>5. ASSUME NEW h \in Context, CheckAll(p, h) PROVE IInv'
      BY <1>5, BeginKeeps DEF CheckAll, IInv
<1>6. ASSUME NEW cmd \in {"auto-check", "complete"}, AutoCheck(p, cmd) PROVE IInv'
  <2>1. cmd # "none" /\ acks' = acks /\ basis' = basis
        BY <1>6 DEF AutoCheck
  <2>2. \E left : Begin(p, "next", Job(cmd, AnyTree, NoTicket, NoHash, FALSE, left))
        BY <1>6 DEF AutoCheck, Plain
  <2> QED BY <2>1, <2>2, BeginKeeps DEF IInv
<1> QED BY <1>1, <1>2, <1>3, <1>4, <1>5, <1>6

\* The steps within a command, but those of the check of an acknowledgement.
LEMMA StepsKeep ==
    ASSUME IInv, NEW p \in Proc,
           \/ ReadExisting(p) \/ GenerateWorkTicket(p) \/ SetTaskWorkTicket(p)
           \/ ReadFile(p) \/ TruncateFile(p) \/ WriteTicket(p)
           \/ InsertContextAck(p) \/ ItemsDone(p) \/ Collect(p) \/ CompleteTask(p)
           \/ CompareTicket(p) \/ RepairTicket(p) \/ Report(p) \/ Fail(p) \/ Kill(p)
    PROVE  IInv'
<1>1. Frame /\ basis' = basis /\ pc[p] # "idle"
  <2>1. CASE InsertContextAck(p)
        BY <2>1 DEF InsertContextAck, Step, Frame, IInv, Times
  <2>2. CASE Fail(p)
        BY <2>2 DEF Fail, MayFail, Frame, IInv, Times
  <2> QED BY <2>1, <2>2
          DEF ReadExisting, GenerateWorkTicket, SetTaskWorkTicket, ReadFile, TruncateFile,
              WriteTicket, ItemsDone, Collect, CompleteTask, CompareTicket, RepairTicket,
              Report, Kill, Step, Frame, IInv, Times
<1>2. Times' /\ EvidenceCounts'
      BY <1>1, FrameKeeps
<1>3. Commands'
  <2>1. CASE ReadExisting(p)
        BY <1>1, <2>1, StayKeeps, ReturnKeeps DEF ReadExisting
  <2>2. CASE GenerateWorkTicket(p)
        BY <1>1, <2>2, GoChanged DEF GenerateWorkTicket, Told
  <2>3. CASE SetTaskWorkTicket(p)
        BY <1>1, <2>3, StayKeeps DEF SetTaskWorkTicket
  <2>4. CASE ReadFile(p)
        BY <1>1, <2>4, StayKeeps, ReturnKeeps DEF ReadFile
  <2>5. CASE TruncateFile(p)
        BY <1>1, <2>5, StayKeeps DEF TruncateFile
  <2>6. CASE WriteTicket(p) \/ CompleteTask(p) \/ Report(p) \/ Kill(p)
        BY <1>1, <2>6, ReturnKeeps DEF WriteTicket, CompleteTask, Report, Kill
  <2>7. CASE InsertContextAck(p)
        BY <1>1, <2>7, StayKeeps, ReturnKeeps DEF InsertContextAck
  <2>8. CASE ItemsDone(p)
        BY <1>1, <2>8, StayKeeps, ReturnKeeps DEF ItemsDone
  <2>9. CASE Collect(p)
        BY <1>1, <2>9, GoChanged DEF Collect, Found
  <2>10. CASE CompareTicket(p)
        BY <1>1, <2>10, GoChanged, StayKeeps DEF CompareTicket, Told
  <2>11. CASE RepairTicket(p)
        BY <1>1, <2>11, StayKeeps DEF RepairTicket
  <2>12. CASE Fail(p)
        BY <1>1, <2>12, LeaveKeeps DEF Fail
  <2> QED BY <2>1, <2>2, <2>3, <2>4, <2>5, <2>6, <2>7, <2>8, <2>9, <2>10, <2>11, <2>12
<1> QED BY <1>2, <1>3 DEF IInv

\* The loop over the items goes to the check of one at once only if it is another.
LEMMA NextItemKeeps ==
    ASSUME IInv, NEW p \in Proc, NextItem(p)
    PROVE  IInv'
<1>1. Frame /\ basis' = basis /\ pc[p] # "idle"
      BY DEF NextItem, Step, Frame, IInv, Times
<1>2. Times' /\ EvidenceCounts'
      BY <1>1, FrameKeeps
<1>3. CASE Head(job[p].left) # ContextItem /\ Go(p, "mark", job[p])
  <2>1. Sound(acks', ttl, clock, "mark", job[p])
        BY <1>1, <1>3, RunningJob DEF Sound
  <2>2. Sound(acks', ttl, clock, "mark", Seen(job[p], ticket'))
        BY <2>1, SoundGrows DEF IInv, Times
  <2> QED BY <1>1, <1>2, <1>3, <2>2, GoKeeps DEF IInv, Frame
<1>4. CASE Leave(p)
      BY <1>1, <1>2, <1>4, LeaveKeeps DEF IInv
<1>5. CASE Go(p, "verify", job[p])
      BY <1>1, <1>2, <1>5, StayKeeps DEF IInv
<1>6. CASE Go(p, "collect", Told(job[p], ticket))
      BY <1>1, <1>2, <1>6, GoChanged DEF IInv
<1> QED BY <1>3, <1>4, <1>5, <1>6 DEF NextItem, Told

\* The ticket that is read is one of those seen.
LEMMA VerifyTicketKeeps ==
    ASSUME IInv, NEW p \in Proc, VerifyTicket(p)
    PROVE  IInv'
<1> DEFINE k == Told(job[p], ticket)
<1>1. Frame /\ basis' = basis /\ ticket' = ticket /\ pc[p] # "idle"
      BY DEF VerifyTicket, Step, Frame, IInv, Times
<1>2. Times' /\ EvidenceCounts'
      BY <1>1, FrameKeeps
<1>3. CASE Leave(p)
      BY <1>1, <1>2, <1>3, LeaveKeeps DEF IInv
<1>4. CASE Go(p, "lookup", k)
  <2>1. IsJob(k) /\ k.since <= clock /\ k.cmd # "none" /\ k.ticket = ticket'
        BY <1>1, RunningJob, JobChanged
  <2> HIDE DEF k
  <2>2. Sound(acks', ttl, clock, "lookup", Seen(k, ticket'))
        BY <2>1, SeenShape DEF Sound
  <2> QED BY <1>1, <1>2, <1>4, <2>2, GoKeeps DEF IInv, Frame
<1> QED BY <1>3, <1>4 DEF VerifyTicket, Told

\* What is fresh now was fresh enough when the command began.
LEMMA VerifyAckKeeps ==
    ASSUME IInv, NEW p \in Proc, VerifyAck(p)
    PROVE  IInv'
<1>1. Frame /\ acks' = acks /\ basis' = basis /\ pc[p] = "lookup"
      BY DEF VerifyAck, Step, Frame, IInv, Times
<1>2. Times' /\ EvidenceCounts'
      BY <1>1, FrameKeeps
<1>3. CASE Leave(p)
      BY <1>1, <1>2, <1>3, LeaveKeeps DEF IInv
<1>4. CASE HasContextAckFresh(job[p].ticket, job[p].hash) /\ Go(p, "mark", job[p])
  <2>1. IsJob(job[p]) /\ job[p].since <= clock /\ job[p].ticket \in job[p].live
        BY <1>1 DEF IInv, Commands, Sound
  <2>2. PICK a \in acks : /\ a.ticket = job[p].ticket /\ a.hash = job[p].hash
                          /\ ttl > 0 => a.at >= clock - ttl
        BY <1>4 DEF HasContextAckFresh
  <2>3. ttl > 0 => a.at >= job[p].since - ttl
        BY <2>1, <2>2 DEF IInv, Times, IsJob
  <2>4. Backed(acks, ttl, job[p].hash, job[p].live, job[p].since)
        BY <2>1, <2>2, <2>3 DEF Backed
  <2>5. Sound(acks', ttl, clock, "mark", job[p])
        BY <1>1, <2>1, <2>4, RunningJob DEF Sound
  <2>6. Sound(acks', ttl, clock, "mark", Seen(job[p], ticket'))
        BY <2>5, SoundGrows DEF IInv, Times
  <2> QED BY <1>1, <1>2, <1>4, <2>6, GoKeeps DEF IInv, Frame
<1> QED BY <1>3, <1>4 DEF VerifyAck

LEMMA CheckKeeps ==
    ASSUME IInv, NEW p \in Proc, CheckHarnessItem(p)
    PROVE  IInv'
<1>1. Frame /\ acks' = acks /\ pc[p] = "mark" /\ Leave(p)
      BY DEF CheckHarnessItem, Step, Frame, IInv, Times
<1>2. Times' /\ Commands'
      BY <1>1, FrameKeeps, LeaveKeeps
<1>3. EvidenceCounts'
  <2>1. CASE Head(job[p].left) = ContextItem
    <3>1. basis' = [hash |-> job[p].hash, live |-> job[p].live, since |-> job[p].since]
          BY <2>1 DEF CheckHarnessItem
    <3>2. Backed(acks, ttl, job[p].hash, job[p].live, job[p].since)
          BY <1>1, <2>1 DEF IInv, Commands, Sound
    <3>3. Backed(acks', ttl', basis'.hash, basis'.live, basis'.since)
          BY <1>1, <3>1, <3>2 DEF Frame
    <3> QED BY <3>3 DEF EvidenceCounts, Backed
  <2>2. CASE Head(job[p].left) # ContextItem
        BY <1>1, <2>2, FrameKeeps DEF CheckHarnessItem
  <2> QED BY <2>1, <2>2
<1> QED BY <1>2, <1>3 DEF IInv

\* `harness check` of another item goes to the check at once.
LEMMA CheckOtherKeeps ==
    ASSUME IInv, NEW p \in Proc, NEW i \in Required, CheckOther(p, i)
    PROVE  IInv'
<1> DEFINE j == Job("check", AnyTree, NoTicket, NoHash, FALSE, <<i>>)
<1>1. Frame /\ acks' = acks /\ basis' = basis /\ i # ContextItem /\ Go(p, "mark", j)
      BY DEF CheckOther, Begin, Frame, IInv, Times
<1>2. IsJob(j) /\ j.since = clock /\ j.cmd = "check" /\ j.left = <<i>>
      BY DEF Job, IsJob, IInv, Times
<1> HIDE DEF j
<1>3. Head(j.left) = i
      BY <1>2
<1>4. Sound(acks', ttl, clock, "mark", j)
      BY <1>1, <1>2, <1>3 DEF Sound, IInv, Times
<1>5. Sound(acks', ttl, clock, "mark", Seen(j, ticket'))
      BY <1>4, SoundGrows DEF IInv, Times
<1>6. Commands'
      BY <1>1, <1>5, GoKeeps DEF IInv, Frame
<1> QED BY <1>1, <1>6, FrameKeeps DEF IInv

\* A reopen takes the check back.
LEMMA ReopenKeeps ==
    ASSUME IInv, NEW p \in Proc, Reopen(p)
    PROVE  IInv'
<1>1. Times' /\ Commands'
      BY BeginKeeps DEF Reopen, Plain
<1>2. EvidenceCounts'
      BY DEF Reopen, EvidenceCounts, NoBasis
<1> QED BY <1>1, <1>2 DEF IInv

LEMMA EventKeeps ==
    ASSUME IInv, Event, clock' \in Nat, clock <= clock'
    PROVE  IInv'
<1>1. acks' = acks /\ ttl' = ttl /\ pc' = pc /\ job' = job /\ basis' = basis
      BY DEF Event
<1>2. ASSUME NEW q \in Proc PROVE Sound(acks, ttl, clock', pc[q], job[q])
      BY SoundGrows DEF IInv, Times, Commands
<1> QED BY <1>1, <1>2 DEF IInv, Times, Commands, EvidenceCounts

-----------------------------------------------------------------------------
LEMMA InitSound ==
    ASSUME TtlAssumption, Init
    PROVE  IInv
<1>1. Times
      BY DEF Init, TtlAssumption, Times
<1>2. Commands
      BY NoJobShape DEF Init, Commands, Sound
<1> QED BY <1>1, <1>2 DEF Init, IInv, EvidenceCounts

LEMMA NextSound ==
    ASSUME IInv, [Next]_ticketVars
    PROVE  IInv'
<1>1. CASE UNCHANGED ticketVars
      BY <1>1 DEF ticketVars, IInv, Times, Commands, EvidenceCounts
<1>2. CASE \E v, w \in Worktree : Pull(v, w)
      BY <1>2, EventKeeps DEF Pull, IInv, Times
<1>3. CASE Change \/ Tick
      BY <1>3, EventKeeps DEF Change, Tick, IInv, Times
<1> QED BY <1>1, <1>2, <1>3, BeginsKeep, StepsKeep, NextItemKeeps, VerifyTicketKeeps,
           VerifyAckKeeps, CheckKeeps, CheckOtherKeeps, ReopenKeeps DEF Next

\* The item `context_acknowledged` is only ever checked on an acknowledgement of
\* a context under a ticket the Task held while the check ran, not too old when
\* it began (verifyContextAckEvidence), however commands, kills and other
\* worktrees interleave.
THEOREM EvidenceAlwaysCounts == TtlAssumption => (Spec => []EvidenceCounts)
<1>1. TtlAssumption /\ Init => IInv
      BY InitSound
<1>2. IInv /\ [Next]_ticketVars => IInv'
      BY NextSound
<1>3. IInv => EvidenceCounts
      BY DEF IInv
<1> QED BY <1>1, <1>2, <1>3, PTL DEF Spec

-----------------------------------------------------------------------------
(* The second theorem.  What a process at the labels below is about to set *)
(* is a ticket, and the Task is there; and while no two commands overlap,  *)
(* whoever is about to issue one unasked has found the Task without.       *)

\* A Task begins without a ticket or with the one create gave it.
FirstTicket ==
    \A b \in Begins : b.ticket \in {0, 1} /\ (b.status = "none" => b.ticket = NoTicket)

TaskKnown == {"existing", "issue", "set", "compare", "repair"}

Carries(st, c, j) ==
    /\ c \in {"set", "repair"} => j.ticket # NoTicket
    /\ c \in TaskKnown => st # "none"

Needed(t, c, j) == c \in {"issue", "set"} /\ j.cmd # "checkpoint" => t = NoTicket

Undisturbed ==
    /\ \A p, q \in Proc : pc[p] # "idle" /\ pc[q] # "idle" => p = q
    /\ unasked \in {0, 1} /\ (unasked = 1 => ticket # NoTicket)
    /\ status = "none" => ticket = NoTicket
    /\ \A q \in Proc : Needed(ticket, pc[q], job[q])

OneInv ==
    /\ issued \in Nat
    /\ \A q \in Proc : Carries(status, pc[q], job[q])
    /\ ~overlapped => Undisturbed

LEMMA GoEffect ==
    ASSUME IInv, NEW p \in Proc, NEW c, NEW j, IsJob(j), Go(p, c, j), NEW q \in Proc
    PROVE  /\ q = p => pc'[q] = c /\ job'[q].cmd = j.cmd /\ job'[q].ticket = j.ticket
           /\ q # p => /\ pc'[q] = pc[q] /\ job'[q].cmd = job[q].cmd
                       /\ job'[q].ticket = job[q].ticket
<1>1. /\ pc' = [r \in Proc |-> IF r = p THEN c ELSE pc[r]]
      /\ job' = [r \in Proc |-> Seen(IF r = p THEN j ELSE job[r], ticket')]
      BY DEF Go, See, Seen, Commands, IInv
<1>2. CASE q = p
      BY <1>1, <1>2, SeenShape
<1>3. CASE q # p
      BY <1>1, <1>3, SeenShape, RunningJob
<1> QED BY <1>2, <1>3

\* What one process takes on, where the others stay as they are.
LEMMA GoKeepsOne ==
    ASSUME IInv, OneInv, NEW p \in Proc, NEW c, NEW j, IsJob(j), Go(p, c, j),
           issued' \in Nat, status' = "none" => status = "none",
           Carries(status', c, j),
           ~overlapped' =>
               /\ ~overlapped /\ Needed(ticket', c, j)
               /\ \A q \in Proc : q # p => pc[q] = "idle"
               /\ unasked' \in {0, 1} /\ (unasked' = 1 => ticket' # NoTicket)
               /\ status' = "none" => ticket' = NoTicket
    PROVE  OneInv'
<1>1. ASSUME NEW q \in Proc PROVE Carries(status', pc'[q], job'[q])
      BY GoEffect DEF OneInv, Carries, TaskKnown
<1>2. ASSUME ~overlapped' PROVE Undisturbed'
  <2>1. ASSUME NEW q \in Proc, q # p PROVE pc'[q] = "idle"
        BY <1>2, <2>1, GoEffect
  <2>2. ASSUME NEW q \in Proc PROVE Needed(ticket', pc'[q], job'[q])
        BY <1>2, <2>1, GoEffect DEF Needed
  <2> QED BY <1>2, <2>1, <2>2 DEF Undisturbed
<1> QED BY <1>1, <1>2 DEF OneInv

\* A command that runs by itself, and what it leaves alone.
Same == UNCHANGED <<issued, overlapped, unasked, ticket>>

LEMMA AloneNow ==
    ASSUME OneInv, NEW p \in Proc, pc[p] # "idle", ~overlapped, NEW q \in Proc, q # p
    PROVE  pc[q] = "idle"
BY DEF OneInv, Undisturbed

LEMMA GoIdly ==
    ASSUME IInv, OneInv, NEW p \in Proc, pc[p] # "idle", NEW c, NEW j, IsJob(j),
           Go(p, c, j), Same, status' = "none" => status = "none",
           c \notin TaskKnown
    PROVE  OneInv'
<1>1. Carries(status', c, j) /\ Needed(ticket', c, j)
      BY DEF Carries, Needed, TaskKnown
<1>2. ASSUME ~overlapped'
      PROVE  /\ ~overlapped /\ \A q \in Proc : q # p => pc[q] = "idle"
             /\ unasked' \in {0, 1} /\ (unasked' = 1 => ticket' # NoTicket)
             /\ status' = "none" => ticket' = NoTicket
      BY <1>2, AloneNow DEF OneInv, Undisturbed, Same
<1>3. issued' \in Nat
      BY DEF OneInv, Same
<1> QED BY <1>1, <1>2, <1>3, GoKeepsOne

LEMMA LeaveIdly ==
    ASSUME IInv, OneInv, NEW p \in Proc, pc[p] # "idle", Same, status' = status, Leave(p)
    PROVE  OneInv'
<1>1. CASE Return(p)
      BY <1>1, GoIdly, NoJobShape DEF Return, TaskKnown
<1>2. CASE Go(p, "next", Past(job[p], Tail(job[p].left)))
  <2>1. \A x : IsJob(Past(job[p], x))
        BY RunningJob, JobChanged
  <2>2. \A j : IsJob(j) /\ Go(p, "next", j) => OneInv'
        BY GoIdly DEF TaskKnown
  <2> QED BY <1>2, <2>1, <2>2
<1> QED BY <1>1, <1>2 DEF Leave, Past

\* A new command: if it is alone there was nobody else.
LEMMA BeginOne ==
    ASSUME IInv, OneInv, NEW p \in Proc, NEW c, c \notin {"set", "repair"}, NEW j, IsJob(j),
           Begin(p, c, j), ticket' = ticket, unasked' = unasked,
           c \in TaskKnown => status' # "none",
           status' = "none" => status = "none",
           c = "issue" => j.cmd = "checkpoint" \/ status = "none"
    PROVE  OneInv'
<1>1. Go(p, c, j) /\ issued' \in Nat
      BY DEF Begin, OneInv
<1>2. Carries(status', c, j)
      BY DEF Carries
<1>3. ASSUME ~overlapped'
      PROVE  /\ ~overlapped /\ Needed(ticket', c, j)
             /\ \A q \in Proc : q # p => pc[q] = "idle"
             /\ unasked' \in {0, 1} /\ (unasked' = 1 => ticket' # NoTicket)
             /\ status' = "none" => ticket' = NoTicket
  <2>1. ~overlapped /\ \A q \in Proc : pc[q] = "idle"
        BY <1>3 DEF Begin
  <2> QED BY <2>1 DEF OneInv, Undisturbed, Needed
<1> QED BY <1>1, <1>2, <1>3, GoKeepsOne

LEMMA BeginsKeepOne ==
    ASSUME IInv, OneInv, NEW p \in Proc,
           \/ \E w \in Worktree :
                 \/ CreateTask(p, w) \/ StartTask(p, w) \/ Checkpoint(p, w)
                 \/ \E fix \in BOOLEAN : CollectRows(p, w, fix)
           \/ \E x \in Tickets : CollectContext(p, x)
           \/ \E h \in Context : CheckAck(p, h) \/ CheckAll(p, h)
           \/ \E i \in Required : CheckOther(p, i)
           \/ \E cmd \in {"auto-check", "complete"} : AutoCheck(p, cmd)
           \/ Reopen(p)
    PROVE  OneInv'
<1> Times
    BY DEF IInv
<1>1. ASSUME NEW w \in Worktree, CreateTask(p, w) PROVE OneInv'
      BY <1>1, BeginOne, JobShape DEF CreateTask, Plain
<1>2. ASSUME NEW w \in Worktree, StartTask(p, w) PROVE OneInv'
      BY <1>2, BeginOne, JobShape DEF StartTask, Plain
<1>3. ASSUME NEW w \in Worktree, Checkpoint(p, w) PROVE OneInv'
      BY <1>3, BeginOne, JobShape DEF Checkpoint, Plain
<1>4. ASSUME NEW w \in Worktree, NEW fix \in BOOLEAN, CollectRows(p, w, fix) PROVE OneInv'
      BY <1>4, BeginOne, JobShape DEF CollectRows
<1>5. ASSUME NEW x \in Tickets, CollectContext(p, x) PROVE OneInv'
      BY <1>5, BeginOne, JobShape DEF CollectContext, TaskKnown
<1>6. ASSUME NEW h \in Context, CheckAck(p, h) \/ CheckAll(p, h) PROVE OneInv'
      BY <1>6, BeginOne, JobShape DEF CheckAck, CheckAll, TaskKnown
<1>7. ASSUME NEW i \in Required, CheckOther(p, i) PROVE OneInv'
      BY <1>7, BeginOne, JobShape DEF CheckOther, TaskKnown
<1>8. ASSUME NEW cmd \in {"auto-check", "complete"}, AutoCheck(p, cmd) PROVE OneInv'
      BY <1>8, BeginOne, JobShape DEF AutoCheck, Plain, TaskKnown
<1>9. CASE Reopen(p)
      BY <1>9, BeginOne, JobShape DEF Reopen, Plain, TaskKnown
<1> QED BY <1>1, <1>2, <1>3, <1>4, <1>5, <1>6, <1>7, <1>8, <1>9

\* The steps that lead to a ticket in the row.
LEMMA IssueKeepsOne ==
    ASSUME IInv, OneInv, NEW p \in Proc,
           \/ ReadExisting(p) \/ GenerateWorkTicket(p) \/ SetTaskWorkTicket(p)
           \/ CompareTicket(p) \/ RepairTicket(p)
    PROVE  OneInv'
<1>1. pc[p] # "idle" /\ status' = status /\ overlapped' = overlapped
      BY DEF ReadExisting, GenerateWorkTicket, SetTaskWorkTicket, CompareTicket,
             RepairTicket, Step
<1>2. /\ IsJob(job[p]) /\ job[p].cmd # "none"
      /\ \A x : /\ IsJob(Told(job[p], x)) /\ Told(job[p], x).ticket = x
               /\ Told(job[p], x).cmd = job[p].cmd
      BY <1>1, RunningJob, JobChanged
<1>3. Carries(status, pc[p], job[p]) /\ issued \in Nat
      BY DEF OneInv
<1>4. ASSUME ~overlapped
      PROVE  /\ \A q \in Proc : q # p => pc[q] = "idle"
             /\ unasked \in {0, 1} /\ (unasked = 1 => ticket # NoTicket)
             /\ status = "none" => ticket = NoTicket
             /\ Needed(ticket, pc[p], job[p])
      BY <1>1, <1>4, AloneNow DEF OneInv, Undisturbed
<1>5. CASE ReadExisting(p)
  <2>1. CASE ticket = NoTicket
    <3>1. Go(p, "issue", job[p]) /\ Same /\ pc[p] = "existing"
          BY <1>5, <2>1 DEF ReadExisting, Step, Same
    <3>2. Carries(status', "issue", job[p]) /\ Needed(ticket', "issue", job[p])
          BY <1>1, <1>3, <2>1, <3>1 DEF Carries, Needed, TaskKnown, Same
    <3> QED BY <1>1, <1>2, <1>3, <1>4, <3>1, <3>2, GoKeepsOne DEF Same
  <2>2. CASE ticket # NoTicket
    <3>1. Return(p) /\ Same
          BY <1>5, <2>2 DEF ReadExisting, Step, Same
    <3> QED BY <1>1, <3>1, GoIdly, NoJobShape DEF Return, TaskKnown
  <2> QED BY <2>1, <2>2
<1>6. CASE GenerateWorkTicket(p)
  <2> DEFINE k == Told(job[p], issued + 1)
  <2>1. /\ Go(p, "set", k) /\ issued' = issued + 1 /\ pc[p] = "issue"
        /\ ticket' = ticket /\ unasked' = unasked
        BY <1>6 DEF GenerateWorkTicket, Step, Told
  <2>2. IsJob(k) /\ k.ticket = issued + 1 /\ k.cmd = job[p].cmd
        BY <1>2
  <2> HIDE DEF k
  <2>3. Carries(status', "set", k)
        BY <1>1, <1>3, <2>1, <2>2 DEF Carries, TaskKnown, NoTicket
  <2>4. ~overlapped' => Needed(ticket', "set", k)
        BY <1>1, <1>4, <2>1, <2>2 DEF Needed
  <2>5. issued' \in Nat
        BY <1>3, <2>1
  <2> QED BY <1>1, <1>4, <2>1, <2>2, <2>3, <2>4, <2>5, GoKeepsOne
<1>7. CASE SetTaskWorkTicket(p)
  <2>1. /\ Go(p, "read", job[p]) /\ pc[p] = "set" /\ issued' = issued
        /\ ticket' = job[p].ticket
        /\ unasked' = IF job[p].cmd = "checkpoint" THEN unasked ELSE unasked + 1
        BY <1>7 DEF SetTaskWorkTicket, Step
  <2>2. ticket' # NoTicket /\ status # "none"
        BY <1>3, <2>1 DEF Carries, TaskKnown
  <2>3. ~overlapped => unasked' \in {0, 1}
        BY <1>4, <2>1 DEF Needed
  <2>4. Carries(status', "read", job[p]) /\ Needed(ticket', "read", job[p])
        BY DEF Carries, Needed, TaskKnown
  <2> QED BY <1>1, <1>2, <1>3, <1>4, <2>1, <2>2, <2>3, <2>4, GoKeepsOne
<1>8. CASE CompareTicket(p)
  <2> DEFINE found == extractFrontmatterWorkTicket(job[p].tree)
  <2>1. Same /\ pc[p] = "compare"
        BY <1>8 DEF CompareTicket, Step, Same
  <2>2. CASE found # NoTicket /\ Go(p, "repair", Told(job[p], found))
    <3>1. /\ Carries(status', "repair", Told(job[p], found))
          /\ Needed(ticket', "repair", Told(job[p], found))
          BY <1>1, <1>2, <1>3, <2>1, <2>2 DEF Carries, Needed, TaskKnown
    <3> QED BY <1>1, <1>2, <1>3, <1>4, <2>1, <2>2, <3>1, GoKeepsOne DEF Same
  <2>3. CASE Go(p, "report", job[p])
        BY <1>1, <1>2, <2>1, <2>3, GoIdly DEF TaskKnown
  <2> QED BY <1>8, <2>2, <2>3 DEF CompareTicket, Told
<1>9. CASE RepairTicket(p)
  <2>1. /\ Go(p, "report", job[p]) /\ pc[p] = "repair" /\ issued' = issued
        /\ ticket' = job[p].ticket /\ unasked' = unasked
        BY <1>9 DEF RepairTicket, Step
  <2>2. ticket' # NoTicket /\ status # "none"
        BY <1>3, <2>1 DEF Carries, TaskKnown
  <2>3. Carries(status', "report", job[p]) /\ Needed(ticket', "report", job[p])
        BY DEF Carries, Needed, TaskKnown
  <2> QED BY <1>1, <1>2, <1>3, <1>4, <2>1, <2>2, <2>3, GoKeepsOne
<1> QED BY <1>5, <1>6, <1>7, <1>8, <1>9

\* Everything else a command does.
LEMMA StepsKeepOne ==
    ASSUME IInv, OneInv, NEW p \in Proc,
           \/ ReadFile(p) \/ TruncateFile(p) \/ WriteTicket(p)
           \/ InsertContextAck(p) \/ VerifyTicket(p) \/ VerifyAck(p) \/ CheckHarnessItem(p)
           \/ NextItem(p) \/ ItemsDone(p) \/ Collect(p) \/ CompleteTask(p)
           \/ Report(p) \/ Fail(p) \/ Kill(p)
    PROVE  OneInv'
<1>1. pc[p] # "idle" /\ Same /\ (status' = "none" => status = "none")
  <2>1. CASE Fail(p)
        BY <2>1 DEF Fail, MayFail, Same
  <2> QED BY <2>1 DEF ReadFile, TruncateFile, WriteTicket, InsertContextAck, VerifyTicket,
              VerifyAck, CheckHarnessItem, NextItem, ItemsDone, Collect, CompleteTask,
              Report, Kill, Step, Same
<1>2. ASSUME NEW c, c \notin TaskKnown
      PROVE  /\ Go(p, c, job[p]) => OneInv'
             /\ \A x : Go(p, c, Told(job[p], x)) => OneInv'
             /\ \A x : Go(p, c, Found(job[p], x)) => OneInv'
  <2>1. /\ IsJob(job[p])
        /\ \A x : IsJob(Told(job[p], x)) /\ IsJob(Found(job[p], x))
        BY <1>1, RunningJob, JobChanged
  <2>2. \A j : IsJob(j) /\ Go(p, c, j) => OneInv'
        BY <1>1, <1>2, GoIdly
  <2> QED BY <2>1, <2>2
<1>3. Return(p) => OneInv'
      BY <1>1, GoIdly, NoJobShape DEF Return, TaskKnown
<1>4. ASSUME Leave(p), status' = status PROVE OneInv'
      BY <1>1, <1>4, LeaveIdly
<1>5. CASE ReadFile(p)
      BY <1>2, <1>3, <1>5 DEF ReadFile, TaskKnown
<1>6. CASE TruncateFile(p)
      BY <1>2, <1>6 DEF TruncateFile, TaskKnown
<1>7. CASE WriteTicket(p) \/ CompleteTask(p) \/ Report(p) \/ Kill(p)
  <2>1. Return(p)
        BY <1>7 DEF WriteTicket, CompleteTask, Report, Kill
  <2> QED BY <1>3, <2>1
<1>8. CASE InsertContextAck(p)
      BY <1>2, <1>3, <1>8 DEF InsertContextAck, TaskKnown
<1>9. CASE VerifyTicket(p)
      BY <1>2, <1>4, <1>9 DEF VerifyTicket, Told, TaskKnown
<1>10. CASE VerifyAck(p)
      BY <1>2, <1>4, <1>10 DEF VerifyAck, TaskKnown
<1>11. CASE CheckHarnessItem(p)
      BY <1>4, <1>11 DEF CheckHarnessItem
<1>12. CASE NextItem(p)
      BY <1>2, <1>4, <1>12 DEF NextItem, Told, TaskKnown
<1>13. CASE ItemsDone(p)
      BY <1>2, <1>3, <1>13 DEF ItemsDone, TaskKnown
<1>14. CASE Collect(p)
      BY <1>2, <1>14 DEF Collect, Found, TaskKnown
<1>15. CASE Fail(p)
      BY <1>4, <1>15 DEF Fail
<1> QED BY <1>5, <1>6, <1>7, <1>8, <1>9, <1>10, <1>11, <1>12, <1>13, <1>14, <1>15

LEMMA InitOne ==
    ASSUME FirstTicket, Init
    PROVE  OneInv
<1>1. ticket \in {0, 1} /\ (status = "none" => ticket = NoTicket) /\ issued = ticket
      BY DEF Init, FirstTicket
<1>2. \A q \in Proc : pc[q] = "idle"
      BY DEF Init
<1>3. unasked = ticket
      BY DEF Init
<1>4. Undisturbed
      BY <1>1, <1>2, <1>3 DEF Undisturbed, Needed, NoTicket
<1> QED BY <1>1, <1>2, <1>4 DEF OneInv, Carries, TaskKnown

LEMMA NextOne ==
    ASSUME IInv, OneInv, [Next]_ticketVars
    PROVE  OneInv'
<1>1. CASE UNCHANGED <<status, ticket, pc, job, issued, overlapped, unasked>>
      BY <1>1 DEF OneInv, Undisturbed
<1>2. CASE \/ \E v, w \in Worktree : Pull(v, w)
           \/ Change \/ Tick \/ UNCHANGED ticketVars
      BY <1>1, <1>2 DEF Pull, Change, Tick, Event, ticketVars
<1> QED BY <1>2, BeginsKeepOne, IssueKeepsOne, StepsKeepOne DEF Next

\* As long as no two commands overlap, create and start together give a Task one
\* ticket, whatever else is issued, reconciled, reopened or killed.
THEOREM OneTicketAlways ==
    TtlAssumption /\ FirstTicket => (Spec => []OneTicketUnasked)
<1>1. TtlAssumption /\ FirstTicket /\ Init => IInv /\ OneInv
      BY InitSound, InitOne
<1>2. IInv /\ OneInv /\ [Next]_ticketVars => IInv' /\ OneInv'
      BY NextSound, NextOne
<1>3. OneInv => OneTicketUnasked
      BY DEF OneInv, Undisturbed, OneTicketUnasked
<1> QED BY <1>1, <1>2, <1>3, PTL DEF Spec

-----------------------------------------------------------------------------
(* The third theorem.  What a command that nobody disturbs knows at the    *)
(* label c with the local variables j: where the row holds the ticket t,   *)
(* the files f, the context is x and the time n.                           *)

Automatic == {"auto-check", "complete"}
Repairable(f, w) == f[w] \notin {Absent, Torn, NoTicket}
Settled(t, f, j) == t = IF j.fix /\ Repairable(f, j.tree) THEN f[j.tree] ELSE j.before

\* A repair is under way of a ticket the file holds.
Mending(f, j) == j.fix /\ Repairable(f, j.tree) /\ j.ticket = f[j.tree]

Known(t, f, A, x, n, c, j) ==
    /\ j.since = n
    /\ c = "compare" => j.ticket = t /\ j.before = t
    /\ c = "repair" => Mending(f, j)
    /\ c = "report" /\ j.cmd = "reconcile" => Settled(t, f, j)
    /\ j.cmd \in Automatic =>
          /\ c \in {"collect", "ack", "verify", "lookup"} => j.ticket = t
          /\ c \in {"ack", "verify", "lookup"} => j.hash = x
          /\ c \in {"verify", "lookup"} => \E a \in A : a.ticket = t /\ a.hash = x

CalmInv ==
    /\ calm = [q \in Proc |-> calm[q]]
    /\ \A q \in Proc : pc[q] # "idle" /\ calm[q] =>
          Known(ticket, file, acks, context, clock, pc[q], job[q])

LEMMA SeenRest ==
    ASSUME NEW j, IsJob(j), NEW x
    PROVE  /\ Seen(j, x).tree = j.tree /\ Seen(j, x).fix = j.fix
           /\ Seen(j, x).before = j.before
BY DEF IsJob, Seen

LEMMA KnownSeen ==
    ASSUME NEW j, IsJob(j), NEW y, NEW t, NEW f, NEW A, NEW x, NEW n, NEW c
    PROVE  Known(t, f, A, x, n, c, Seen(j, y)) <=> Known(t, f, A, x, n, c, j)
<1> DEFINE k == Seen(j, y)
<1>1. /\ k.since = j.since /\ k.cmd = j.cmd /\ k.hash = j.hash /\ k.ticket = j.ticket
      /\ k.tree = j.tree /\ k.fix = j.fix /\ k.before = j.before
      BY SeenShape, SeenRest
<1> HIDE DEF k
<1>2. Settled(t, f, k) <=> Settled(t, f, j)
      BY <1>1, ZenonT(30) DEF Settled
<1>3. Mending(f, k) <=> Mending(f, j)
      BY <1>1, ZenonT(30) DEF Mending
<1>4. Known(t, f, A, x, n, c, k) <=> Known(t, f, A, x, n, c, j)
      BY <1>1, <1>2, <1>3 DEF Known
<1> QED BY <1>4 DEF k

LEMMA JobRest ==
    ASSUME NEW j, IsJob(j), NEW x
    PROVE  /\ Told(j, x).tree = j.tree /\ Told(j, x).fix = j.fix
           /\ Told(j, x).before = j.before /\ Told(j, x).hash = j.hash
           /\ Told(j, x).left = j.left
           /\ Found(j, x).hash = x /\ Found(j, x).ticket = j.ticket
           /\ Found(j, x).tree = j.tree /\ Found(j, x).left = j.left
           /\ Past(j, x).left = x /\ Past(j, x).tree = j.tree
BY DEF IsJob, Told, Found, Past

\* A command that goes on while all others that run are disturbed.
LEMMA GoKnows ==
    ASSUME IInv, NEW p \in Proc, NEW c, NEW j, IsJob(j), Go(p, c, j),
           calm' = [q \in Proc |-> calm'[q]],
           \A q \in Proc : q # p /\ pc[q] # "idle" => ~calm'[q],
           c # "idle" /\ calm'[p] => Known(ticket', file', acks', context', clock', c, j)
    PROVE  CalmInv'
<1>1. /\ pc' = [r \in Proc |-> IF r = p THEN c ELSE pc[r]]
      /\ job' = [r \in Proc |-> Seen(IF r = p THEN j ELSE job[r], ticket')]
      BY DEF Go, See, Seen, Commands, IInv
<1>2. ASSUME NEW q \in Proc, pc'[q] # "idle", calm'[q]
      PROVE  Known(ticket', file', acks', context', clock', pc'[q], job'[q])
  <2>1. q = p
        BY <1>1, <1>2
  <2>2. pc'[q] = c /\ job'[q] = Seen(j, ticket')
        BY <1>1, <2>1
  <2>3. Known(ticket', file', acks', context', clock', c, j)
        BY <1>2, <2>1, <2>2
  <2>4. Known(ticket', file', acks', context', clock', c, Seen(j, ticket'))
        BY <2>3, KnownSeen
  <2> QED BY <2>2, <2>4
<1> QED BY <1>2 DEF CalmInv

LEMMA StepCalm ==
    ASSUME CalmInv, NEW p \in Proc, NEW l, l # "idle", Step(p, l)
    PROVE  /\ calm' = [q \in Proc |-> calm'[q]]
           /\ \A q \in Proc : q # p /\ pc[q] # "idle" => ~calm'[q]
           /\ pc[p] # "idle" /\ pc[p] = l /\ context' = context /\ clock' = clock
           /\ calm'[p] => calm[p] /\ Known(ticket, file, acks, context, clock, l, job[p])
<1>1. calm' = [q \in Proc |-> calm[q] /\ (q = p \/ pc[q] = "idle")]
      BY DEF Step, Disturb
<1>2. ASSUME NEW q \in Proc PROVE calm'[q] = (calm[q] /\ (q = p \/ pc[q] = "idle"))
      BY <1>1
<1>3. pc[p] = l /\ context' = context /\ clock' = clock
      BY DEF Step
<1>4. calm' = [q \in Proc |-> calm'[q]]
      BY <1>1, <1>2
<1>5. \A q \in Proc : q # p /\ pc[q] # "idle" => ~calm'[q]
      BY <1>2
<1>6. ASSUME calm'[p]
      PROVE  calm[p] /\ Known(ticket, file, acks, context, clock, l, job[p])
      BY <1>2, <1>3, <1>6 DEF CalmInv
<1> QED BY <1>3, <1>4, <1>5, <1>6

Telling == {"compare", "repair", "report", "collect", "ack", "verify", "lookup"}

\* A step to a label where a command knows nothing but when it began.
LEMMA PlainCalm ==
    ASSUME IInv, CalmInv, NEW p \in Proc, NEW l, l # "idle", Step(p, l),
           NEW c, c \notin Telling, NEW j, IsJob(j),
           c # "idle" => j.since = job[p].since, Go(p, c, j)
    PROVE  CalmInv'
<1>1. /\ calm' = [q \in Proc |-> calm'[q]] /\ clock' = clock
      /\ \A q \in Proc : q # p /\ pc[q] # "idle" => ~calm'[q]
      /\ calm'[p] => Known(ticket, file, acks, context, clock, l, job[p])
      BY StepCalm
<1>2. ASSUME c # "idle", calm'[p]
      PROVE  Known(ticket', file', acks', context', clock', c, j)
      BY <1>1, <1>2 DEF Known, Telling
<1> QED BY <1>1, <1>2, GoKnows

LEMMA ReturnCalm ==
    ASSUME IInv, CalmInv, NEW p \in Proc, NEW l, l # "idle", Step(p, l), Return(p)
    PROVE  CalmInv'
BY PlainCalm, NoJobShape DEF Return, Telling

LEMMA StayCalm ==
    ASSUME IInv, CalmInv, NEW p \in Proc, NEW l, l # "idle", Step(p, l),
           NEW c, c \notin Telling, NEW x,
           \/ Go(p, c, job[p]) \/ Go(p, c, Told(job[p], x)) \/ Go(p, c, Past(job[p], x))
    PROVE  CalmInv'
<1>1. /\ IsJob(job[p])
      /\ IsJob(Told(job[p], x)) /\ Told(job[p], x).since = job[p].since
      /\ IsJob(Past(job[p], x)) /\ Past(job[p], x).since = job[p].since
      BY RunningJob, JobChanged
<1>2. ASSUME NEW j, IsJob(j), j.since = job[p].since, Go(p, c, j) PROVE CalmInv'
      BY <1>2, PlainCalm
<1> QED BY <1>1, <1>2

LEMMA LeaveCalm ==
    ASSUME IInv, CalmInv, NEW p \in Proc, NEW l, l # "idle", Step(p, l), Leave(p)
    PROVE  CalmInv'
<1>1. CASE Return(p)
      BY <1>1, ReturnCalm
<1>2. CASE Go(p, "next", Past(job[p], Tail(job[p].left)))
      BY <1>2, StayCalm DEF Telling
<1> QED BY <1>1, <1>2 DEF Leave, Past

\* The steps within a command that tell nothing.
LEMMA QuietStepsCalm ==
    ASSUME IInv, CalmInv, NEW p \in Proc,
           \/ ReadExisting(p) \/ GenerateWorkTicket(p) \/ SetTaskWorkTicket(p)
           \/ ReadFile(p) \/ TruncateFile(p) \/ WriteTicket(p)
           \/ VerifyAck(p) \/ CheckHarnessItem(p) \/ ItemsDone(p)
           \/ CompleteTask(p) \/ Report(p)
    PROVE  CalmInv'
<1>1. CASE ReadExisting(p)
  <2>1. Step(p, "existing") /\ (Go(p, "issue", job[p]) \/ Return(p))
        BY <1>1 DEF ReadExisting
  <2> QED BY <2>1, StayCalm, ReturnCalm DEF Telling
<1>2. CASE GenerateWorkTicket(p)
  <2>1. Step(p, "issue") /\ Go(p, "set", Told(job[p], issued + 1))
        BY <1>2 DEF GenerateWorkTicket, Told
  <2> QED BY <2>1, StayCalm DEF Telling
<1>3. CASE SetTaskWorkTicket(p)
  <2>1. Step(p, "set") /\ Go(p, "read", job[p])
        BY <1>3 DEF SetTaskWorkTicket
  <2> QED BY <2>1, StayCalm DEF Telling
<1>4. CASE ReadFile(p)
  <2>1. Step(p, "read") /\ (Go(p, "truncate", job[p]) \/ Return(p))
        BY <1>4 DEF ReadFile
  <2> QED BY <2>1, StayCalm, ReturnCalm DEF Telling
<1>5. CASE TruncateFile(p)
  <2>1. Step(p, "truncate") /\ Go(p, "write", job[p])
        BY <1>5 DEF TruncateFile
  <2> QED BY <2>1, StayCalm DEF Telling
<1>6. CASE WriteTicket(p)
      BY <1>6, ReturnCalm DEF WriteTicket
<1>7. CASE VerifyAck(p)
  <2>1. Step(p, "lookup") /\ (Go(p, "mark", job[p]) \/ Leave(p))
        BY <1>7 DEF VerifyAck
  <2> QED BY <2>1, StayCalm, LeaveCalm DEF Telling
<1>8. CASE CheckHarnessItem(p)
      BY <1>8, LeaveCalm DEF CheckHarnessItem
<1>9. CASE ItemsDone(p)
  <2>1. Step(p, "next") /\ (Go(p, "gate", job[p]) \/ Return(p))
        BY <1>9 DEF ItemsDone
  <2> QED BY <2>1, StayCalm, ReturnCalm DEF Telling
<1>10. CASE CompleteTask(p)
      BY <1>10, ReturnCalm DEF CompleteTask
<1>11. CASE Report(p)
      BY <1>11, ReturnCalm DEF Report
<1> QED BY <1>1, <1>2, <1>3, <1>4, <1>5, <1>6, <1>7, <1>8, <1>9, <1>10, <1>11

\* What is found in the file and put into the row.
LEMMA CompareCalm ==
    ASSUME IInv, CalmInv, NEW p \in Proc, CompareTicket(p)
    PROVE  CalmInv'
<1> DEFINE found == extractFrontmatterWorkTicket(job[p].tree)
<1>1. Step(p, "compare") /\ ticket' = ticket /\ file' = file /\ acks' = acks
      BY DEF CompareTicket
<1>2. /\ calm' = [q \in Proc |-> calm'[q]] /\ clock' = clock /\ context' = context
      /\ \A q \in Proc : q # p /\ pc[q] # "idle" => ~calm'[q]
      /\ calm'[p] => Known(ticket, file, acks, context, clock, "compare", job[p])
      BY <1>1, StepCalm
<1>3. /\ IsJob(job[p]) /\ IsJob(Told(job[p], found)) /\ Told(job[p], found).ticket = found
      /\ Told(job[p], found).since = job[p].since /\ Told(job[p], found).cmd = job[p].cmd
      /\ Told(job[p], found).tree = job[p].tree
      BY RunningJob, JobChanged, JobRest
<1>4. Told(job[p], found).fix = job[p].fix
      BY RunningJob, JobRest
<1>5. CASE /\ job[p].fix /\ found \notin {Absent, NoTicket, job[p].ticket}
           /\ Go(p, "repair", Told(job[p], found))
  <2> DEFINE k == Told(job[p], found)
  <2>1. found = file[job[p].tree] /\ Repairable(file, job[p].tree)
        BY <1>5 DEF extractFrontmatterWorkTicket, Repairable
  <2>2. k.tree = job[p].tree /\ k.ticket = found /\ k.fix = job[p].fix /\ job[p].fix
        BY <1>3, <1>4, <1>5
  <2>3. IsJob(k) /\ k.since = job[p].since /\ Go(p, "repair", k)
        BY <1>3, <1>5
  <2> HIDE DEF k, found
  <2>4. Mending(file, k)
        BY <2>1, <2>2, ZenonT(30) DEF Mending
  <2>5. calm'[p] => Known(ticket', file', acks', context', clock', "repair", k)
        BY <1>1, <1>2, <2>3, <2>4 DEF Known
  <2> QED BY <1>2, <2>3, <2>5, GoKnows
<1>6. CASE /\ ~(job[p].fix /\ found \notin {Absent, NoTicket, job[p].ticket})
           /\ Go(p, "report", job[p])
  <2>1. ASSUME calm'[p]
        PROVE  Settled(ticket, file, job[p])
    <3>1. job[p].ticket = ticket /\ job[p].before = ticket
          BY <1>2, <2>1 DEF Known
    <3>2. CASE job[p].fix /\ Repairable(file, job[p].tree)
      <4>1. found = file[job[p].tree] /\ found \notin {Absent, NoTicket}
            BY <3>2 DEF extractFrontmatterWorkTicket, Repairable
      <4> QED BY <1>6, <3>1, <3>2, <4>1 DEF Settled
    <3>3. CASE ~(job[p].fix /\ Repairable(file, job[p].tree))
          BY <3>1, <3>3 DEF Settled
    <3> QED BY <3>2, <3>3
  <2>2. calm'[p] => Known(ticket', file', acks', context', clock', "report", job[p])
        BY <1>1, <1>2, <2>1 DEF Known
  <2> QED BY <1>2, <1>3, <1>6, <2>2, GoKnows
<1> QED BY <1>5, <1>6 DEF CompareTicket, Told

LEMMA RepairCalm ==
    ASSUME IInv, CalmInv, NEW p \in Proc, RepairTicket(p)
    PROVE  CalmInv'
<1>1. /\ Step(p, "repair") /\ ticket' = job[p].ticket /\ file' = file /\ acks' = acks
      /\ Go(p, "report", job[p])
      BY DEF RepairTicket
<1>2. /\ calm' = [q \in Proc |-> calm'[q]] /\ clock' = clock /\ context' = context
      /\ \A q \in Proc : q # p /\ pc[q] # "idle" => ~calm'[q]
      /\ calm'[p] => Known(ticket, file, acks, context, clock, "repair", job[p])
      BY <1>1, StepCalm
<1>3. ASSUME calm'[p]
      PROVE  job[p].since = clock /\ Settled(ticket', file', job[p])
      BY <1>1, <1>2, <1>3 DEF Known, Mending, Settled
<1>4. calm'[p] => Known(ticket', file', acks', context', clock', "report", job[p])
      BY <1>1, <1>2, <1>3 DEF Known
<1>5. IsJob(job[p])
      BY RunningJob
<1> QED BY <1>1, <1>2, <1>4, <1>5, GoKnows

\* The acknowledgement an automatic check gives and then looks for.
LEMMA NextItemCalm ==
    ASSUME IInv, CalmInv, NEW p \in Proc, NextItem(p)
    PROVE  CalmInv'
<1>1. Step(p, "next") /\ ticket' = ticket /\ file' = file /\ acks' = acks
      BY DEF NextItem
<1>2. /\ calm' = [q \in Proc |-> calm'[q]] /\ clock' = clock /\ context' = context
      /\ \A q \in Proc : q # p /\ pc[q] # "idle" => ~calm'[q]
      /\ calm'[p] => Known(ticket, file, acks, context, clock, "next", job[p])
      BY <1>1, StepCalm
<1>3. /\ IsJob(job[p]) /\ IsJob(Told(job[p], ticket))
      /\ Told(job[p], ticket).since = job[p].since /\ Told(job[p], ticket).ticket = ticket
      BY RunningJob, JobChanged
<1>4. CASE Go(p, "mark", job[p])
      BY <1>1, <1>4, StayCalm DEF Telling
<1>5. CASE Leave(p)
      BY <1>1, <1>5, LeaveCalm
<1>6. CASE job[p].cmd = "check-all" /\ Go(p, "verify", job[p])
  <2>1. calm'[p] => Known(ticket', file', acks', context', clock', "verify", job[p])
        BY <1>1, <1>2, <1>6 DEF Known, Automatic
  <2> QED BY <1>2, <1>3, <1>6, <2>1, GoKnows
<1>7. CASE Go(p, "collect", Told(job[p], ticket))
  <2> DEFINE k == Told(job[p], ticket)
  <2>1. IsJob(k) /\ k.since = job[p].since /\ k.ticket = ticket /\ Go(p, "collect", k)
        BY <1>3, <1>7
  <2> HIDE DEF k
  <2>2. calm'[p] => Known(ticket', file', acks', context', clock', "collect", k)
        BY <1>1, <1>2, <2>1 DEF Known
  <2> QED BY <1>2, <2>1, <2>2, GoKnows
<1> QED BY <1>4, <1>5, <1>6, <1>7 DEF NextItem, Told

LEMMA CollectCalm ==
    ASSUME IInv, CalmInv, NEW p \in Proc, Collect(p)
    PROVE  CalmInv'
<1> DEFINE k == Found(job[p], context)
<1>1. /\ Step(p, "collect") /\ ticket' = ticket /\ file' = file /\ acks' = acks
      /\ Go(p, "ack", k)
      BY DEF Collect, Found
<1>2. /\ calm' = [q \in Proc |-> calm'[q]] /\ clock' = clock /\ context' = context
      /\ \A q \in Proc : q # p /\ pc[q] # "idle" => ~calm'[q]
      /\ calm'[p] => Known(ticket, file, acks, context, clock, "collect", job[p])
      BY <1>1, StepCalm
<1>3. /\ IsJob(k) /\ k.since = job[p].since /\ k.cmd = job[p].cmd
      /\ k.ticket = job[p].ticket /\ k.hash = context
      BY RunningJob, JobChanged, JobRest
<1> HIDE DEF k
<1>4. calm'[p] => Known(ticket', file', acks', context', clock', "ack", k)
      BY <1>1, <1>2, <1>3 DEF Known
<1> QED BY <1>1, <1>2, <1>3, <1>4, GoKnows

LEMMA InsertCalm ==
    ASSUME IInv, CalmInv, NEW p \in Proc, InsertContextAck(p)
    PROVE  CalmInv'
<1>1. Step(p, "ack") /\ ticket' = ticket /\ file' = file
      BY DEF InsertContextAck
<1>2. /\ calm' = [q \in Proc |-> calm'[q]] /\ clock' = clock /\ context' = context
      /\ \A q \in Proc : q # p /\ pc[q] # "idle" => ~calm'[q]
      /\ calm'[p] => Known(ticket, file, acks, context, clock, "ack", job[p])
      BY <1>1, StepCalm
<1>3. CASE Return(p)
      BY <1>1, <1>3, ReturnCalm
<1>4. CASE Go(p, "verify", job[p])
  <2>1. \E a \in acks' : a.ticket = job[p].ticket /\ a.hash = job[p].hash
    <3>1. CASE \E a \in acks : a.ticket = job[p].ticket /\ a.hash = job[p].hash
          BY <3>1 DEF InsertContextAck
    <3>2. CASE ~ \E a \in acks : a.ticket = job[p].ticket /\ a.hash = job[p].hash
      <4>1. [ticket |-> job[p].ticket, hash |-> job[p].hash, at |-> clock] \in acks'
            BY <3>2 DEF InsertContextAck
      <4> QED BY <4>1
    <3> QED BY <3>1, <3>2
  <2>2. calm'[p] => Known(ticket', file', acks', context', clock', "verify", job[p])
        BY <1>1, <1>2, <2>1 DEF Known
  <2>3. IsJob(job[p])
        BY RunningJob
  <2> QED BY <1>2, <1>4, <2>2, <2>3, GoKnows
<1> QED BY <1>3, <1>4 DEF InsertContextAck

LEMMA VerifyCalm ==
    ASSUME IInv, CalmInv, NEW p \in Proc, VerifyTicket(p)
    PROVE  CalmInv'
<1> DEFINE k == Told(job[p], ticket)
<1>1. Step(p, "verify") /\ ticket' = ticket /\ file' = file /\ acks' = acks
      BY DEF VerifyTicket
<1>2. /\ calm' = [q \in Proc |-> calm'[q]] /\ clock' = clock /\ context' = context
      /\ \A q \in Proc : q # p /\ pc[q] # "idle" => ~calm'[q]
      /\ calm'[p] => Known(ticket, file, acks, context, clock, "verify", job[p])
      BY <1>1, StepCalm
<1>3. CASE Leave(p)
      BY <1>1, <1>3, LeaveCalm
<1>4. CASE Go(p, "lookup", k)
  <2>1. /\ IsJob(k) /\ k.since = job[p].since /\ k.cmd = job[p].cmd
        /\ k.ticket = ticket /\ k.hash = job[p].hash
        BY RunningJob, JobChanged, JobRest
  <2> HIDE DEF k
  <2>2. calm'[p] => Known(ticket', file', acks', context', clock', "lookup", k)
        BY <1>1, <1>2, <2>1 DEF Known
  <2> QED BY <1>2, <1>4, <2>1, <2>2, GoKnows
<1> QED BY <1>3, <1>4 DEF VerifyTicket, Told

LEMMA JobFields ==
    ASSUME Times, NEW cmd, NEW w, NEW t, NEW h, NEW fix, NEW left
    PROVE  /\ Job(cmd, w, t, h, fix, left).tree = w
           /\ Job(cmd, w, t, h, fix, left).ticket = t
           /\ Job(cmd, w, t, h, fix, left).before = ticket
BY DEF Job

\* A new command of this kind at this label can know nothing more.
Fresh(c, cmd, t) ==
    /\ c # "repair" /\ (c = "compare" => t = ticket)
    /\ c = "report" => cmd # "reconcile"
    /\ c \in {"collect", "ack", "verify", "lookup"} => cmd \notin Automatic

\* It has seen nothing change.
LEMMA BeginCalm ==
    ASSUME IInv, NEW p \in Proc, NEW c, NEW cmd, NEW w, NEW t, NEW h, NEW fix, NEW left,
           Begin(p, c, Job(cmd, w, t, h, fix, left)), ticket' = ticket, Fresh(c, cmd, t)
    PROVE  CalmInv'
<1> DEFINE j == Job(cmd, w, t, h, fix, left)
<1>1. /\ Go(p, c, j) /\ clock' = clock
      /\ calm' = [q \in Proc |-> IF q = p THEN \A r \in Proc : pc[r] = "idle"
                                 ELSE pc[q] = "idle"]
      BY DEF Begin
<1>2. /\ IsJob(j) /\ j.since = clock /\ j.cmd = cmd /\ j.ticket = t /\ j.before = ticket
      BY JobShape, JobFields DEF IInv
<1> HIDE DEF j
<1>3. ASSUME NEW q \in Proc, q # p PROVE calm'[q] = (pc[q] = "idle")
      BY <1>1, <1>3
<1>4. calm' = [q \in Proc |-> calm'[q]]
      BY <1>1
<1>5. \A q \in Proc : q # p /\ pc[q] # "idle" => ~calm'[q]
      BY <1>3
<1>6. Known(ticket', file', acks', context', clock', c, j)
      BY <1>1, <1>2 DEF Known, Fresh
<1> QED BY <1>1, <1>2, <1>4, <1>5, <1>6, GoKnows

LEMMA BeginsCalm ==
    ASSUME IInv, NEW p \in Proc,
           \/ \E w \in Worktree :
                 \/ CreateTask(p, w) \/ StartTask(p, w) \/ Checkpoint(p, w)
                 \/ \E fix \in BOOLEAN : CollectRows(p, w, fix)
           \/ \E x \in Tickets : CollectContext(p, x)
           \/ \E h \in Context : CheckAck(p, h) \/ CheckAll(p, h)
           \/ \E i \in Required : CheckOther(p, i)
           \/ \E cmd \in {"auto-check", "complete"} : AutoCheck(p, cmd)
           \/ Reopen(p)
    PROVE  CalmInv'
<1>1. ASSUME NEW w \in Worktree, CreateTask(p, w) PROVE CalmInv'
  <2>1. Begin(p, "issue", Job("create", w, NoTicket, NoHash, FALSE, <<>>)) /\ ticket' = ticket
        BY <1>1 DEF CreateTask, Plain
  <2>2. Fresh("issue", "create", NoTicket)
        BY DEF Fresh, Automatic
  <2> QED BY <2>1, <2>2, BeginCalm, ZenonT(60)
<1>2. ASSUME NEW w \in Worktree, StartTask(p, w) PROVE CalmInv'
  <2>1. Begin(p, "existing", Job("start", w, NoTicket, NoHash, FALSE, <<>>)) /\ ticket' = ticket
        BY <1>2 DEF StartTask, Plain
  <2>2. Fresh("existing", "start", NoTicket)
        BY DEF Fresh, Automatic
  <2> QED BY <2>1, <2>2, BeginCalm, ZenonT(60)
<1>3. ASSUME NEW w \in Worktree, Checkpoint(p, w) PROVE CalmInv'
  <2>1. Begin(p, "issue", Job("checkpoint", w, NoTicket, NoHash, FALSE, <<>>)) /\ ticket' = ticket
        BY <1>3 DEF Checkpoint, Plain
  <2>2. Fresh("issue", "checkpoint", NoTicket)
        BY DEF Fresh, Automatic
  <2> QED BY <2>1, <2>2, BeginCalm, ZenonT(60)
<1>4. ASSUME NEW w \in Worktree, NEW fix \in BOOLEAN, CollectRows(p, w, fix) PROVE CalmInv'
  <2>1. Begin(p, "compare", Job("reconcile", w, ticket, NoHash, fix, <<>>)) /\ ticket' = ticket
        BY <1>4 DEF CollectRows
  <2>2. Fresh("compare", "reconcile", ticket)
        BY DEF Fresh, Automatic
  <2> QED BY <2>1, <2>2, BeginCalm, ZenonT(60)
<1>5. ASSUME NEW x \in Tickets, CollectContext(p, x) PROVE CalmInv'
  <2>1. Begin(p, "ack", Job("context", AnyTree, x, context, FALSE, <<>>)) /\ ticket' = ticket
        BY <1>5 DEF CollectContext
  <2>2. Fresh("ack", "context", x)
        BY DEF Fresh, Automatic
  <2> QED BY <2>1, <2>2, BeginCalm, ZenonT(60)
<1>6. ASSUME NEW h \in Context, CheckAck(p, h) PROVE CalmInv'
  <2>1. Begin(p, "verify", Job("check", AnyTree, NoTicket, h, FALSE, <<ContextItem>>)) /\ ticket' = ticket
        BY <1>6 DEF CheckAck
  <2>2. Fresh("verify", "check", NoTicket)
        BY DEF Fresh, Automatic
  <2> QED BY <2>1, <2>2, BeginCalm, ZenonT(60)
<1>7. ASSUME NEW h \in Context, CheckAll(p, h) PROVE CalmInv'
  <2>1. Begin(p, "next", Job("check-all", AnyTree, NoTicket, h, FALSE, Unchecked)) /\ ticket' = ticket
        BY <1>7 DEF CheckAll
  <2>2. Fresh("next", "check-all", NoTicket)
        BY DEF Fresh, Automatic
  <2> QED BY <2>1, <2>2, BeginCalm, ZenonT(60)
<1>8. ASSUME NEW i \in Required, CheckOther(p, i) PROVE CalmInv'
  <2>1. Begin(p, "mark", Job("check", AnyTree, NoTicket, NoHash, FALSE, <<i>>)) /\ ticket' = ticket
        BY <1>8 DEF CheckOther
  <2>2. Fresh("mark", "check", NoTicket)
        BY DEF Fresh, Automatic
  <2> QED BY <2>1, <2>2, BeginCalm, ZenonT(60)
<1>9. ASSUME NEW cmd \in {"auto-check", "complete"}, AutoCheck(p, cmd) PROVE CalmInv'
  <2>1. PICK left : Begin(p, "next", Job(cmd, AnyTree, NoTicket, NoHash, FALSE, left))
        BY <1>9 DEF AutoCheck, Plain
  <2>2. Fresh("next", cmd, NoTicket) /\ ticket' = ticket
        BY <1>9 DEF AutoCheck, Fresh
  <2> QED BY <2>1, <2>2, BeginCalm, ZenonT(60)
<1>10. CASE Reopen(p)
  <2>1. Begin(p, "report", Job("reopen", AnyTree, NoTicket, NoHash, FALSE, <<>>)) /\ ticket' = ticket
        BY <1>10 DEF Reopen, Plain
  <2>2. Fresh("report", "reopen", NoTicket)
        BY DEF Fresh, Automatic
  <2> QED BY <2>1, <2>2, BeginCalm, ZenonT(60)
<1> QED BY <1>1, <1>2, <1>3, <1>4, <1>5, <1>6, <1>7, <1>8, <1>9, <1>10

\* A command that fails or is killed changes nothing others know.
LEMMA EndsCalm ==
    ASSUME IInv, CalmInv, NEW p \in Proc, Fail(p) \/ Kill(p)
    PROVE  CalmInv'
<1>1. /\ pc[p] # "idle" /\ ticket' = ticket /\ file' = file /\ acks' = acks
      /\ context' = context /\ clock' = clock
      /\ calm' = [q \in Proc |-> calm'[q]] /\ \A q \in Proc : calm'[q] => calm[q]
  <2>1. CASE Fail(p)
        BY <2>1 DEF Fail, MayFail, CalmInv
  <2>2. CASE Kill(p)
        BY <2>2 DEF Kill, CalmInv
  <2> QED BY <2>1, <2>2
<1>2. PICK c, j : Go(p, c, j) /\ (c # "idle" => ~calm'[p])
  <2>1. CASE Fail(p)
    <3>1. calm'[p] = FALSE
          BY <2>1 DEF Fail, CalmInv
    <3>2. \E c, j : Go(p, c, j)
          BY <2>1 DEF Fail, Leave, Return
    <3> QED BY <3>1, <3>2
  <2>2. CASE Kill(p)
        BY <2>2 DEF Kill, Return
  <2> QED BY <2>1, <2>2
<1>3. /\ pc' = [r \in Proc |-> IF r = p THEN c ELSE pc[r]]
      /\ job' = [r \in Proc |-> Seen(IF r = p THEN j ELSE job[r], ticket')]
      BY <1>2 DEF Go, See, Seen, Commands, IInv
<1>4. ASSUME NEW q \in Proc, pc'[q] # "idle", calm'[q]
      PROVE  Known(ticket', file', acks', context', clock', pc'[q], job'[q])
  <2>1. q # p
        BY <1>2, <1>3, <1>4
  <2>2. pc'[q] = pc[q] /\ job'[q] = Seen(job[q], ticket') /\ calm[q]
        BY <1>1, <1>3, <1>4, <2>1
  <2>3. Known(ticket, file, acks, context, clock, pc[q], job[q]) /\ IsJob(job[q])
        BY <1>4, <2>2, RunningJob DEF CalmInv
  <2>4. Known(ticket, file, acks, context, clock, pc[q], Seen(job[q], ticket'))
        BY <2>3, KnownSeen
  <2> QED BY <1>1, <2>2, <2>4
<1> QED BY <1>1, <1>4 DEF CalmInv

LEMMA EventCalm ==
    ASSUME CalmInv, Event
    PROVE  CalmInv'
<1>1. pc' = pc /\ calm' = [q \in Proc |-> calm[q] /\ pc[q] = "idle"]
      BY DEF Event
<1>2. \A q \in Proc : pc'[q] # "idle" => ~calm'[q]
      BY <1>1
<1> QED BY <1>1, <1>2 DEF CalmInv

LEMMA InitCalm == Init => CalmInv
BY DEF Init, CalmInv

LEMMA NextCalm ==
    ASSUME IInv, CalmInv, [Next]_ticketVars
    PROVE  CalmInv'
<1>1. CASE UNCHANGED ticketVars
      BY <1>1 DEF ticketVars, CalmInv
<1>2. CASE \/ \E v, w \in Worktree : Pull(v, w)
           \/ Change \/ Tick
      BY <1>2, EventCalm DEF Pull, Change, Tick
<1> QED BY <1>1, <1>2, BeginsCalm, QuietStepsCalm, CompareCalm, RepairCalm, NextItemCalm,
           CollectCalm, InsertCalm, VerifyCalm, EndsCalm DEF Next

\* What an automatic check looks for is there; if it has expired it had before.
LEMMA CalmPasses ==
    ASSUME IInv, CalmInv
    PROVE  ReconcileSettles /\ AutoCheckPasses
<1>1. ReconcileSettles
      BY DEF CalmInv, Known, Settled, Repairable, ReconcileSettles
<1>2. ASSUME NEW p \in Proc, pc[p] = "lookup", job[p].cmd \in Automatic, calm[p]
      PROVE  \/ HasContextAckFresh(job[p].ticket, job[p].hash)
             \/ \E a \in acks : /\ a.ticket = ticket /\ a.hash = context
                                /\ ttl > 0 /\ a.at + ttl < job[p].since
  <2>1. /\ job[p].since = clock /\ job[p].ticket = ticket /\ job[p].hash = context
        /\ \E a \in acks : a.ticket = ticket /\ a.hash = context
        BY <1>2 DEF CalmInv, Known
  <2>2. PICK a \in acks : a.ticket = ticket /\ a.hash = context
        BY <2>1
  <2>3. a.at \in Nat /\ clock \in Nat /\ ttl \in Nat
        BY DEF IInv, Times
  <2>4. CASE ttl > 0 => a.at >= clock - ttl
        BY <2>1, <2>2, <2>4 DEF HasContextAckFresh
  <2>5. CASE ttl > 0 /\ a.at + ttl < clock
        BY <2>1, <2>2, <2>5
  <2> QED BY <2>3, <2>4, <2>5
<1>3. AutoCheckPasses
      BY <1>2 DEF AutoCheckPasses, Automatic
<1> QED BY <1>1, <1>3

-----------------------------------------------------------------------------
(* The fourth theorem.  While no two commands overlap and nothing is lost, *)
(* some file holds the ticket of the row, or a command is about to write   *)
(* it into one; what is put into the row is what a file holds.             *)

\* The files are of the worktrees, and the one a Task begins with a ticket in
\* holds it.
TicketOnFile ==
    \A b \in Begins :
        /\ b.file = [w \in Worktree |-> b.file[w]]
        /\ b.ticket # NoTicket => \E w \in Worktree : b.file[w] = b.ticket

Handing == {"read", "truncate", "write"}
Placed(c, j) ==
    c \in {"existing", "issue", "set", "compare", "repair"} \cup Handing => j.tree \in Worktree

Followed == ticket # NoTicket => \E w \in Worktree : file[w] = ticket

\* What the one command that runs, at label c, still has to do for the file.
Handed(t, f, c, j) ==
    /\ c \in Handing => j.ticket = t
    /\ c = "repair" => j.ticket = f[j.tree]

FollowInv ==
    /\ file = [w \in Worktree |-> file[w]]
    /\ \A q \in Proc : Placed(pc[q], job[q])
    /\ ~overlapped /\ ~strayed =>
          /\ \A q \in Proc : Handed(ticket, file, pc[q], job[q])
          /\ (\A q \in Proc : pc[q] \notin Handing) => Followed

LEMMA GoFollows ==
    ASSUME IInv, FollowInv, NEW p \in Proc, NEW c, NEW j, IsJob(j), Go(p, c, j),
           file' = [w \in Worktree |-> file'[w]], Placed(c, j),
           ~overlapped' /\ ~strayed' =>
               /\ \A q \in Proc : q # p => pc[q] = "idle"
               /\ Handed(ticket', file', c, j)
               /\ c \notin Handing => Followed'
    PROVE  FollowInv'
<1>1. /\ pc' = [r \in Proc |-> IF r = p THEN c ELSE pc[r]]
      /\ job' = [r \in Proc |-> Seen(IF r = p THEN j ELSE job[r], ticket')]
      BY DEF Go, See, Seen, Commands, IInv
<1>2. ASSUME NEW q \in Proc
      PROVE  /\ q = p => pc'[q] = c /\ job'[q].ticket = j.ticket /\ job'[q].tree = j.tree
             /\ q # p => pc'[q] = pc[q] /\ job'[q].tree = job[q].tree
  <2>1. CASE q = p
        BY <1>1, <2>1, SeenShape, SeenRest
  <2>2. CASE q # p
        BY <1>1, <2>2, SeenRest, RunningJob
  <2> QED BY <2>1, <2>2
<1>3. ASSUME NEW q \in Proc PROVE Placed(pc'[q], job'[q])
      BY <1>2 DEF FollowInv, Placed
<1>4. ASSUME ~overlapped', ~strayed'
      PROVE  /\ \A q \in Proc : Handed(ticket', file', pc'[q], job'[q])
             /\ (\A q \in Proc : pc'[q] \notin Handing) => Followed'
  <2>1. ASSUME NEW q \in Proc PROVE Handed(ticket', file', pc'[q], job'[q])
        BY <1>2, <1>4 DEF Handed, Handing
  <2>2. ASSUME \A q \in Proc : pc'[q] \notin Handing PROVE Followed'
        BY <1>2, <1>4, <2>2
  <2> QED BY <2>1, <2>2
<1> QED BY <1>3, <1>4 DEF FollowInv

\* A step of a command alone, and what it rests on.
LEMMA AloneFollows ==
    ASSUME OneInv, FollowInv, NEW p \in Proc, pc[p] # "idle", ~overlapped, ~strayed
    PROVE  /\ \A q \in Proc : q # p => pc[q] = "idle"
           /\ Handed(ticket, file, pc[p], job[p])
           /\ pc[p] \notin Handing => Followed
<1>1. \A q \in Proc : q # p => pc[q] = "idle"
      BY AloneNow
<1>2. pc[p] \notin Handing => \A q \in Proc : pc[q] \notin Handing
      BY <1>1 DEF Handing
<1> QED BY <1>1, <1>2 DEF FollowInv

\* The steps that touch neither ticket nor file, of a command that is not writing.
Untouched == UNCHANGED <<ticket, file, overlapped>> /\ (strayed => strayed')

LEMMA PlainFollows ==
    ASSUME IInv, OneInv, FollowInv, NEW p \in Proc, pc[p] # "idle", Untouched,
           NEW c, c \notin Handing \cup {"repair"}, NEW j, IsJob(j), Go(p, c, j), Placed(c, j),
           pc[p] \notin Handing \/ strayed'
    PROVE  FollowInv'
<1>1. ASSUME ~overlapped', ~strayed'
      PROVE  /\ \A q \in Proc : q # p => pc[q] = "idle"
             /\ Handed(ticket', file', c, j)
             /\ Followed'
  <2>1. ~overlapped /\ ~strayed /\ pc[p] \notin Handing
        BY <1>1 DEF Untouched
  <2>2. Followed /\ \A q \in Proc : q # p => pc[q] = "idle"
        BY <2>1, AloneFollows
  <2> QED BY <2>2 DEF Followed, Untouched, Handed
<1>2. file' = [w \in Worktree |-> file'[w]]
      BY DEF FollowInv, Untouched
<1> QED BY <1>1, <1>2, GoFollows

\* At the labels of no file any local variables do.
LEMMA IdlyFollows ==
    ASSUME IInv, OneInv, FollowInv, NEW p \in Proc, pc[p] # "idle", Untouched,
           pc[p] \notin Handing \/ strayed'
    PROVE  /\ Return(p) \/ Leave(p) => FollowInv'
           /\ \A c \in {"verify", "collect", "ack", "lookup", "mark", "gate", "report", "next"} :
                 /\ Go(p, c, job[p]) => FollowInv'
                 /\ \A x : Go(p, c, Told(job[p], x)) \/ Go(p, c, Found(job[p], x)) => FollowInv'
<1>1. ASSUME NEW c, NEW j, IsJob(j), Go(p, c, j),
             c \in {"idle", "verify", "collect", "ack", "lookup", "mark", "gate", "report",
                    "next"}
      PROVE  FollowInv'
  <2>1. c \notin Handing \cup {"repair"} /\ Placed(c, j)
        BY <1>1 DEF Handing, Placed
  <2> QED BY <1>1, <2>1, PlainFollows
<1>2. /\ IsJob(job[p]) /\ IsJob(NoJob)
      /\ \A x : IsJob(Told(job[p], x)) /\ IsJob(Found(job[p], x)) /\ IsJob(Past(job[p], x))
      BY RunningJob, JobChanged, NoJobShape
<1>3. Return(p) => FollowInv'
      BY <1>1, <1>2 DEF Return
<1>4. Leave(p) => FollowInv'
  <2>1. \A x : Go(p, "next", Past(job[p], x)) => FollowInv'
        BY <1>1, <1>2
  <2> QED BY <1>3, <2>1 DEF Leave, Past
<1> QED BY <1>1, <1>2, <1>3, <1>4

\* The steps of a command that neither reads nor writes a ticket.
LEMMA IdleStepsFollow ==
    ASSUME IInv, OneInv, FollowInv, NEW p \in Proc,
           \/ InsertContextAck(p) \/ VerifyTicket(p) \/ VerifyAck(p) \/ CheckHarnessItem(p)
           \/ NextItem(p) \/ ItemsDone(p) \/ Collect(p) \/ CompleteTask(p)
           \/ Report(p) \/ Fail(p) \/ Kill(p)
    PROVE  FollowInv'
<1>1. pc[p] # "idle" /\ Untouched /\ (pc[p] \notin Handing \/ strayed')
  <2>1. CASE Fail(p)
        BY <2>1 DEF Fail, MayFail, Untouched
  <2>2. CASE Kill(p)
        BY <2>2 DEF Kill, Untouched
  <2> QED BY <2>1, <2>2 DEF InsertContextAck, VerifyTicket,
              VerifyAck, CheckHarnessItem, NextItem, ItemsDone, Collect, CompleteTask,
              Report, Step, Untouched, Handing
<1> DEFINE Labels == {"verify", "collect", "ack", "lookup", "mark", "gate", "report", "next"}
<1>2. /\ Return(p) \/ Leave(p) => FollowInv'
      /\ \A c \in Labels :
            /\ Go(p, c, job[p]) => FollowInv'
            /\ \A x : Go(p, c, Told(job[p], x)) \/ Go(p, c, Found(job[p], x)) => FollowInv'
      BY <1>1, IdlyFollows
<1>3. CASE CompleteTask(p) \/ Report(p) \/ Kill(p)
      BY <1>2, <1>3 DEF CompleteTask, Report, Kill
<1>4. CASE InsertContextAck(p)
      BY <1>2, <1>4 DEF InsertContextAck
<1>5. CASE VerifyTicket(p)
      BY <1>2, <1>5 DEF VerifyTicket, Told
<1>6. CASE VerifyAck(p)
      BY <1>2, <1>6 DEF VerifyAck
<1>7. CASE CheckHarnessItem(p) \/ Fail(p)
      BY <1>2, <1>7 DEF CheckHarnessItem, Fail
<1>8. CASE NextItem(p)
      BY <1>2, <1>8 DEF NextItem, Told
<1>9. CASE ItemsDone(p)
      BY <1>2, <1>9 DEF ItemsDone
<1>10. CASE Collect(p)
      BY <1>2, <1>10 DEF Collect, Found
<1> QED BY <1>3, <1>4, <1>5, <1>6, <1>7, <1>8, <1>9, <1>10

\* The steps that give a ticket, and those that bring row and file together.
LEMMA GivingStepsFollow ==
    ASSUME IInv, OneInv, FollowInv, NEW p \in Proc,
           \/ ReadExisting(p) \/ GenerateWorkTicket(p) \/ SetTaskWorkTicket(p)
           \/ CompareTicket(p) \/ RepairTicket(p)
    PROVE  FollowInv'
<1>1. /\ pc[p] # "idle" /\ file' = file /\ overlapped' = overlapped /\ strayed' = strayed
      /\ pc[p] \in {"existing", "issue", "set", "compare", "repair"}
      BY DEF ReadExisting, GenerateWorkTicket, SetTaskWorkTicket, CompareTicket,
             RepairTicket, Step
<1>2. /\ IsJob(job[p]) /\ job[p].tree \in Worktree
      /\ \A x : /\ IsJob(Told(job[p], x)) /\ Told(job[p], x).ticket = x
               /\ Told(job[p], x).tree = job[p].tree
      BY <1>1, RunningJob, JobChanged, JobRest DEF FollowInv, Placed
<1>3. file' = [w \in Worktree |-> file'[w]]
      BY <1>1 DEF FollowInv
<1>4. ASSUME ~overlapped', ~strayed'
      PROVE  /\ \A q \in Proc : q # p => pc[q] = "idle"
             /\ Handed(ticket, file, pc[p], job[p]) /\ Followed
  <2>1. ~overlapped /\ ~strayed /\ pc[p] \notin Handing
        BY <1>1, <1>4 DEF Handing
  <2> QED BY <1>1, <2>1, AloneFollows
<1>5. pc[p] \notin Handing
      BY <1>1 DEF Handing
<1>6. CASE ReadExisting(p)
  <2>1. Untouched
        BY <1>1, <1>6 DEF ReadExisting, Untouched
  <2>2. CASE Return(p)
        BY <1>1, <1>5, <2>1, <2>2, IdlyFollows
  <2>3. CASE Go(p, "issue", job[p])
    <3>1. Placed("issue", job[p]) /\ "issue" \notin Handing \cup {"repair"}
          BY <1>2 DEF Placed, Handing
    <3> QED BY <1>1, <1>2, <1>5, <2>1, <2>3, <3>1, PlainFollows
  <2> QED BY <1>6, <2>2, <2>3 DEF ReadExisting
<1>7. CASE GenerateWorkTicket(p)
  <2> DEFINE k == Told(job[p], issued + 1)
  <2>1. Untouched /\ Go(p, "set", k)
        BY <1>1, <1>7 DEF GenerateWorkTicket, Untouched, Told
  <2>2. IsJob(k) /\ k.tree \in Worktree
        BY <1>2
  <2> HIDE DEF k
  <2>3. Placed("set", k) /\ "set" \notin Handing \cup {"repair"}
        BY <2>2 DEF Placed, Handing
  <2> QED BY <1>1, <1>5, <2>1, <2>2, <2>3, PlainFollows
<1>8. CASE SetTaskWorkTicket(p)
  <2>1. Go(p, "read", job[p]) /\ ticket' = job[p].ticket
        BY <1>8 DEF SetTaskWorkTicket
  <2>2. Placed("read", job[p]) /\ Handed(ticket', file', "read", job[p]) /\ "read" \in Handing
        BY <1>2, <2>1 DEF Placed, Handed, Handing
  <2> QED BY <1>2, <1>3, <1>4, <2>1, <2>2, GoFollows
<1>9. CASE CompareTicket(p)
  <2> DEFINE found == extractFrontmatterWorkTicket(job[p].tree)
  <2>1. Untouched /\ ticket' = ticket
        BY <1>1, <1>9 DEF CompareTicket, Untouched
  <2>2. CASE found # NoTicket /\ Go(p, "repair", Told(job[p], found))
    <3>1. found = file[job[p].tree]
          BY <2>2 DEF extractFrontmatterWorkTicket
    <3> DEFINE k == Told(job[p], found)
    <3>2. IsJob(k) /\ k.tree = job[p].tree /\ k.ticket = found /\ Go(p, "repair", k)
          BY <1>2, <2>2
    <3> HIDE DEF k
    <3>3. Placed("repair", k) /\ Handed(ticket', file', "repair", k)
          BY <1>1, <1>2, <3>1, <3>2 DEF Placed, Handed, Handing
    <3>4. Followed => Followed'
          BY <1>1, <2>1 DEF Followed
    <3> QED BY <1>3, <1>4, <3>2, <3>3, <3>4, GoFollows
  <2>3. CASE Go(p, "report", job[p])
        BY <1>1, <1>5, <2>1, <2>3, IdlyFollows
  <2> QED BY <1>9, <2>2, <2>3 DEF CompareTicket, Told
<1>10. CASE RepairTicket(p)
  <2>1. Go(p, "report", job[p]) /\ ticket' = job[p].ticket /\ pc[p] = "repair"
        BY <1>10 DEF RepairTicket, Step
  <2>2. ASSUME ~overlapped', ~strayed' PROVE Followed'
        BY <1>1, <1>2, <1>4, <2>1, <2>2 DEF Handed, Followed
  <2>3. Placed("report", job[p]) /\ Handed(ticket', file', "report", job[p])
        BY DEF Placed, Handed, Handing
  <2> QED BY <1>2, <1>3, <1>4, <2>1, <2>2, <2>3, GoFollows
<1> QED BY <1>6, <1>7, <1>8, <1>9, <1>10

\* The file is truncated and written by the command that gave the ticket.
LEMMA WritingStepsFollow ==
    ASSUME IInv, OneInv, FollowInv, NEW p \in Proc,
           ReadFile(p) \/ TruncateFile(p) \/ WriteTicket(p)
    PROVE  FollowInv'
<1>1. /\ pc[p] # "idle" /\ ticket' = ticket /\ overlapped' = overlapped
      /\ strayed => strayed'
      /\ pc[p] \in Handing
  <2>1. CASE ReadFile(p)
    <3>1. strayed' = (strayed \/ ~HasFrontmatter(job[p].tree))
          BY <2>1 DEF ReadFile
    <3>2. strayed => strayed'
          BY <3>1, Zenon
    <3> QED BY <2>1, <3>2 DEF ReadFile, Step, Handing
  <2>2. CASE TruncateFile(p) \/ WriteTicket(p)
        BY <2>2 DEF TruncateFile, WriteTicket, Step, Handing
  <2> QED BY <2>1, <2>2
<1>2. IsJob(job[p]) /\ job[p].tree \in Worktree
      BY <1>1, RunningJob DEF FollowInv, Placed
<1>3. ASSUME ~overlapped', ~strayed'
      PROVE  (\A q \in Proc : q # p => pc[q] = "idle") /\ job[p].ticket = ticket
      BY <1>1, <1>3, AloneFollows DEF Handed
<1>4. Placed("truncate", job[p]) /\ Placed("write", job[p])
      BY <1>2 DEF Placed
<1>5. CASE ReadFile(p)
  <2>1. file' = file /\ Untouched
        BY <1>1, <1>5 DEF ReadFile, Untouched
  <2>2. CASE HasFrontmatter(job[p].tree)
    <3>1. Go(p, "truncate", job[p])
          BY <1>5, <2>2 DEF ReadFile
    <3>2. ~overlapped' /\ ~strayed' => Handed(ticket', file', "truncate", job[p])
          BY <1>1, <1>3 DEF Handed
    <3>3. file' = [w \in Worktree |-> file'[w]] /\ "truncate" \in Handing
          BY <2>1 DEF FollowInv, Handing
    <3> QED BY <1>2, <1>3, <1>4, <3>1, <3>2, <3>3, GoFollows
  <2>3. CASE ~HasFrontmatter(job[p].tree)
        BY <1>1, <1>5, <2>1, <2>3, IdlyFollows DEF ReadFile
  <2> QED BY <2>2, <2>3
<1>6. CASE TruncateFile(p)
  <2>1. Go(p, "write", job[p]) /\ file' = [file EXCEPT ![job[p].tree] = Torn]
        BY <1>6 DEF TruncateFile
  <2>2. ~overlapped' /\ ~strayed' => Handed(ticket', file', "write", job[p])
        BY <1>1, <1>3 DEF Handed
  <2>3. file' = [w \in Worktree |-> file'[w]] /\ "write" \in Handing
        BY <2>1 DEF FollowInv, Handing
  <2> QED BY <1>2, <1>3, <1>4, <2>1, <2>2, <2>3, GoFollows
<1>7. CASE WriteTicket(p)
  <2>1. /\ Go(p, "idle", NoJob) /\ IsJob(NoJob)
        /\ file' = [file EXCEPT ![job[p].tree] = job[p].ticket]
        BY <1>7, NoJobShape DEF WriteTicket, Return
  <2>2. file' = [w \in Worktree |-> file'[w]] /\ file'[job[p].tree] = job[p].ticket
        BY <1>2, <2>1 DEF FollowInv
  <2>3. Handed(ticket', file', "idle", NoJob) /\ Placed("idle", NoJob)
        BY DEF Handed, Handing, Placed
  <2>4. ~overlapped' /\ ~strayed' => Followed'
        BY <1>1, <1>2, <1>3, <2>2 DEF Followed
  <2> QED BY <1>3, <2>1, <2>2, <2>3, <2>4, GoFollows
<1> QED BY <1>5, <1>6, <1>7

\* A new command: only `create` touches a file, of a Task without a ticket.
LEMMA BeginFollows ==
    ASSUME IInv, OneInv, FollowInv, NEW p \in Proc, NEW c, c \notin Handing \cup {"repair"},
           NEW j, IsJob(j), Begin(p, c, j), Placed(c, j), ticket' = ticket,
           file' = [w \in Worktree |-> file'[w]], file' = file \/ status = "none"
    PROVE  FollowInv'
<1>1. Go(p, c, j) /\ strayed' = strayed
      BY DEF Begin
<1>2. ASSUME ~overlapped', ~strayed'
      PROVE  /\ \A q \in Proc : q # p => pc[q] = "idle"
             /\ Handed(ticket', file', c, j) /\ Followed'
  <2>1. ~overlapped /\ ~strayed /\ \A q \in Proc : pc[q] = "idle"
    <3>1. overlapped' = (overlapped \/ \E q \in Proc : pc[q] # "idle")
          BY DEF Begin
    <3> QED BY <1>1, <1>2, <3>1, ZenonT(30)
  <2>2. Followed
        BY <2>1 DEF FollowInv, Handing
  <2>3. status = "none" => ticket = NoTicket
        BY <2>1 DEF OneInv, Undisturbed
  <2> QED BY <2>1, <2>2, <2>3 DEF Followed, Handed
<1> QED BY <1>1, <1>2, GoFollows

LEMMA BeginsFollow ==
    ASSUME IInv, OneInv, FollowInv, NEW p \in Proc,
           \/ \E w \in Worktree :
                 \/ CreateTask(p, w) \/ StartTask(p, w) \/ Checkpoint(p, w)
                 \/ \E fix \in BOOLEAN : CollectRows(p, w, fix)
           \/ \E x \in Tickets : CollectContext(p, x)
           \/ \E h \in Context : CheckAck(p, h) \/ CheckAll(p, h)
           \/ \E i \in Required : CheckOther(p, i)
           \/ \E cmd \in {"auto-check", "complete"} : AutoCheck(p, cmd)
           \/ Reopen(p)
    PROVE  FollowInv'
<1>1. PICK c, j : /\ c \notin Handing \cup {"repair"} /\ IsJob(j) /\ Begin(p, c, j)
                  /\ Placed(c, j)
  <2> DEFINE Ready == \E c, j : /\ c \notin Handing \cup {"repair"} /\ IsJob(j)
                                /\ Begin(p, c, j) /\ Placed(c, j)
  <2> Times
      BY DEF IInv
  <2>1. ASSUME NEW c \in {"existing", "issue", "compare", "report", "ack", "verify", "mark",
                          "next"},
               NEW cmd, NEW w, NEW t, NEW h, NEW fix, NEW left,
               Begin(p, c, Job(cmd, w, t, h, fix, left)),
               w \in Worktree \/ c \notin {"existing", "issue", "compare"}
        PROVE  Ready
    <3> DEFINE j == Job(cmd, w, t, h, fix, left)
    <3>1. IsJob(j) /\ j.tree = w
          BY JobShape, JobFields
    <3>2. Begin(p, c, j)
          BY <2>1
    <3> HIDE DEF j
    <3>3. Placed(c, j) /\ c \notin Handing \cup {"repair"}
          BY <2>1, <3>1 DEF Placed, Handing
    <3> QED BY <3>1, <3>2, <3>3
  <2> HIDE DEF Ready
  <2>2. ASSUME NEW w \in Worktree, CreateTask(p, w) PROVE Ready
    <3>1. Begin(p, "issue", Job("create", w, NoTicket, NoHash, FALSE, <<>>))
          BY <2>2 DEF CreateTask, Plain
    <3> QED BY <2>1, <3>1, ZenonT(60)
  <2>3. ASSUME NEW w \in Worktree, StartTask(p, w) PROVE Ready
    <3>1. Begin(p, "existing", Job("start", w, NoTicket, NoHash, FALSE, <<>>))
          BY <2>3 DEF StartTask, Plain
    <3> QED BY <2>1, <3>1, ZenonT(60)
  <2>4. ASSUME NEW w \in Worktree, Checkpoint(p, w) PROVE Ready
    <3>1. Begin(p, "issue", Job("checkpoint", w, NoTicket, NoHash, FALSE, <<>>))
          BY <2>4 DEF Checkpoint, Plain
    <3> QED BY <2>1, <3>1, ZenonT(60)
  <2>5. ASSUME NEW w \in Worktree, NEW fix \in BOOLEAN, CollectRows(p, w, fix) PROVE Ready
    <3>1. Begin(p, "compare", Job("reconcile", w, ticket, NoHash, fix, <<>>))
          BY <2>5 DEF CollectRows
    <3> QED BY <2>1, <3>1, ZenonT(60)
  <2>6. ASSUME NEW x \in Tickets, CollectContext(p, x) PROVE Ready
    <3>1. Begin(p, "ack", Job("context", AnyTree, x, context, FALSE, <<>>))
          BY <2>6 DEF CollectContext
    <3> QED BY <2>1, <3>1, ZenonT(60)
  <2>7. ASSUME NEW h \in Context, CheckAck(p, h) PROVE Ready
    <3>1. Begin(p, "verify", Job("check", AnyTree, NoTicket, h, FALSE, <<ContextItem>>))
          BY <2>7 DEF CheckAck
    <3> QED BY <2>1, <3>1, ZenonT(60)
  <2>8. ASSUME NEW h \in Context, CheckAll(p, h) PROVE Ready
    <3>1. Begin(p, "next", Job("check-all", AnyTree, NoTicket, h, FALSE, Unchecked))
          BY <2>8 DEF CheckAll
    <3> QED BY <2>1, <3>1, ZenonT(60)
  <2>9. ASSUME NEW i \in Required, CheckOther(p, i) PROVE Ready
    <3>1. Begin(p, "mark", Job("check", AnyTree, NoTicket, NoHash, FALSE, <<i>>))
          BY <2>9 DEF CheckOther
    <3> QED BY <2>1, <3>1, ZenonT(60)
  <2>10. ASSUME NEW cmd \in {"auto-check", "complete"}, AutoCheck(p, cmd) PROVE Ready
    <3>1. PICK left : Begin(p, "next", Job(cmd, AnyTree, NoTicket, NoHash, FALSE, left))
          BY <2>10 DEF AutoCheck, Plain
    <3> QED BY <2>1, <3>1, ZenonT(60)
  <2>11. ASSUME Reopen(p) PROVE Ready
    <3>1. Begin(p, "report", Job("reopen", AnyTree, NoTicket, NoHash, FALSE, <<>>))
          BY <2>11 DEF Reopen, Plain
    <3> QED BY <2>1, <3>1, ZenonT(60)
  <2>12. Ready
        BY <2>2, <2>3, <2>4, <2>5, <2>6, <2>7, <2>8, <2>9, <2>10, <2>11
  <2> QED BY <2>12 DEF Ready
<1>2. /\ ticket' = ticket /\ file' = [w \in Worktree |-> file'[w]]
      /\ file' = file \/ status = "none"
  <2>1. CASE file' = file
        BY <2>1 DEF FollowInv, CreateTask, StartTask, Checkpoint, CollectRows, CollectContext,
           CheckAck, CheckAll, CheckOther, AutoCheck, Reopen
  <2>2. ASSUME NEW w \in Worktree, CreateTask(p, w)
        PROVE  /\ ticket' = ticket /\ file' = [v \in Worktree |-> file'[v]] /\ status = "none"
        BY <2>2 DEF CreateTask, FollowInv
  <2> QED BY <2>1, <2>2 DEF StartTask, Checkpoint, CollectRows, CollectContext,
           CheckAck, CheckAll, CheckOther, AutoCheck, Reopen
<1> QED BY <1>1, <1>2, BeginFollows

LEMMA EventFollows ==
    ASSUME FollowInv, (\E v, w \in Worktree : Pull(v, w)) \/ Change \/ Tick
    PROVE  FollowInv'
<1>1. pc' = pc /\ job' = job /\ ticket' = ticket /\ overlapped' = overlapped
      BY DEF Pull, Change, Tick, Event
<1>2. CASE Change \/ Tick
  <2>1. file' = file /\ strayed' = strayed
        BY <1>2 DEF Change, Tick
  <2> QED BY <1>1, <2>1 DEF FollowInv, Followed
<1>3. ASSUME NEW v \in Worktree, NEW w \in Worktree, Pull(v, w) PROVE FollowInv'
  <2>1. strayed' = TRUE /\ file' = [file EXCEPT ![w] = file[v]]
        BY <1>3 DEF Pull
  <2>2. file' = [u \in Worktree |-> file'[u]]
        BY <2>1 DEF FollowInv
  <2> QED BY <1>1, <2>1, <2>2 DEF FollowInv
<1> QED BY <1>2, <1>3

LEMMA InitFollows ==
    ASSUME TicketOnFile, Init
    PROVE  FollowInv
<1>1. /\ file = [w \in Worktree |-> file[w]]
      /\ ticket # NoTicket => \E w \in Worktree : file[w] = ticket
      BY DEF Init, TicketOnFile
<1>2. \A q \in Proc : pc[q] = "idle"
      BY DEF Init
<1> QED BY <1>1, <1>2 DEF FollowInv, Placed, Handed, Handing, Followed

LEMMA NextFollows ==
    ASSUME IInv, OneInv, FollowInv, [Next]_ticketVars
    PROVE  FollowInv'
<1>1. CASE UNCHANGED ticketVars
      BY <1>1 DEF ticketVars, FollowInv, Followed
<1> QED BY <1>1, EventFollows, BeginsFollow, IdleStepsFollow, GivingStepsFollow,
           WritingStepsFollow DEF Next

\* An undisturbed `reconcile-ticket --fix` leaves the row with the ticket of the
\* file, or as it was where the file has none, and a dry run leaves it as it was
\* (runHarnessReconcileTicket); an undisturbed auto-check finds the
\* acknowledgement it has just given, unless one given under the same ticket for
\* the same context has expired, for any number of processes and worktrees.
THEOREM CalmCommandsKeepTheirWord ==
    TtlAssumption => (Spec => [](ReconcileSettles /\ AutoCheckPasses))
<1>1. TtlAssumption /\ Init => IInv /\ CalmInv
      BY InitSound, InitCalm
<1>2. IInv /\ CalmInv /\ [Next]_ticketVars => IInv' /\ CalmInv'
      BY NextSound, NextCalm
<1>3. IInv /\ CalmInv => ReconcileSettles /\ AutoCheckPasses
      BY CalmPasses
<1> QED BY <1>1, <1>2, <1>3, PTL DEF Spec

\* Evidence that counts, one ticket unasked, row and file with the same ticket at
\* rest, and calm commands that keep their word: all at once, for a Task that
\* begins with at most the ticket create gave it, in some worktree's file.
THEOREM TicketsAlwaysSound ==
    TtlAssumption /\ FirstTicket /\ TicketOnFile => (Spec => []TicketsSound)
<1>1. TtlAssumption /\ FirstTicket /\ TicketOnFile /\ Init =>
          IInv /\ OneInv /\ CalmInv /\ FollowInv
      BY InitSound, InitOne, InitCalm, InitFollows
<1>2. IInv /\ OneInv /\ CalmInv /\ FollowInv /\ [Next]_ticketVars =>
          IInv' /\ OneInv' /\ CalmInv' /\ FollowInv'
      BY NextSound, NextOne, NextCalm, NextFollows
<1>3. FollowInv => FileFollowsRow
      BY DEF FollowInv, FileFollowsRow, Quiet, Handing, Followed
<1>4. OneInv => OneTicketUnasked
      BY DEF OneInv, Undisturbed, OneTicketUnasked
<1>5. IInv => EvidenceCounts
      BY DEF IInv
<1>6. IInv /\ OneInv /\ CalmInv /\ FollowInv => TicketsSound
      BY <1>3, <1>4, <1>5, CalmPasses DEF TicketsSound
<1> QED BY <1>1, <1>2, <1>6, PTL DEF Spec
=============================================================================
