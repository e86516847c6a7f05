------------------------------ MODULE WorkTicket ------------------------------
(***************************************************************************)
(* Work tickets, the acknowledgements given under them, and the item       *)
(* `context_acknowledged` of the Harness Gate that rests on both: of one   *)
(* Task, whose row all worktrees share and whose file each has for itself. *)
(* A step is one statement on the database or one access to a file.        *)
(***************************************************************************)
EXTENDS Integers, Sequences

CONSTANTS
    Proc, Worktree,
    Context,       \* what `context` collects, and what its hash stands for
    Template,      \* the required items of the Task, in order
    Begins,        \* what a behaviour begins with, and the commands it gives
    Absent, Torn,  \* no file; a file that was truncated and not yet written
    MaxCommands, MaxEvents, MaxFaults

VARIABLES
    status, ticket, checked, acks,      \* the database
    file,                               \* work_ticket of the file in each worktree
    context, clock,
    ttl,                                \* HSTL_CONTEXT_ACK_TTL_MIN; 0 is none
    menu, pc, job, issued, commands, events, faults,
    calm,          \* history: nothing happened beside the command of each process
    overlapped,    \* history: two commands have run at once
    strayed,       \* history: a ticket was not written, or a file was replaced
    unasked,       \* history: tickets that create and start gave
    basis          \* history: what the check of the item rests on

ticketVars == <<status, ticket, checked, acks, file, context, clock, ttl, menu, pc, job,
                issued, commands, events, faults, calm, overlapped, strayed, unasked, basis>>

NoTicket == 0
Tickets == 1..issued
NoHash == "none"
NoBasis == [hash |-> NoHash, live |-> {}, since |-> 0]
ContextItem == "context_acknowledged"
autoCheckGoItems == {"build_passed", "tests_passed", "lint_passed"}
Required == {Template[i] : i \in DOMAIN Template}

\* The local variables of a command, and what it has seen: the tickets the row
\* held meanwhile, the time and the ticket at its start.
Job(cmd, w, t, h, fix, left) ==
    [cmd |-> cmd, tree |-> w, ticket |-> t, hash |-> h, fix |-> fix, left |-> left,
     live |-> {ticket}, since |-> clock, before |-> ticket]
Plain(cmd, w) == Job(cmd, w, NoTicket, NoHash, FALSE, <<>>)
AnyTree == CHOOSE w \in Worktree : TRUE    \* for commands that touch no file
NoJob == [cmd |-> "none", tree |-> AnyTree, ticket |-> NoTicket, hash |-> NoHash,
          fix |-> FALSE, left |-> <<>>, live |-> {}, since |-> 0, before |-> NoTicket]

Init ==
    /\ \E b \in Begins :
          /\ status = b.status /\ ticket = b.ticket /\ file = b.file /\ issued = b.ticket
          /\ checked = b.checked /\ menu = b.menu
          /\ ttl = b.ttl /\ events = b.events /\ faults = b.faults
    /\ acks = {} /\ clock = 0
    /\ context = CHOOSE c \in Context : TRUE
    /\ pc = [p \in Proc |-> "idle"] /\ job = [p \in Proc |-> NoJob]
    /\ commands = 0
    /\ calm = [p \in Proc |-> TRUE] /\ overlapped = FALSE /\ strayed = FALSE
    /\ unasked = ticket /\ basis = NoBasis

-----------------------------------------------------------------------------
(* What every step does to the bookkeeping.                                *)

\* The other commands are disturbed; those that may be at the check have seen
\* the ticket that stands now.
Disturb(p) == calm' = [q \in Proc |-> calm[q] /\ (q = p \/ pc[q] = "idle")]
See(j) == [q \in Proc |-> IF j[q].cmd = "none" THEN j[q]
                          ELSE [j[q] EXCEPT !.live = @ \cup {ticket'}]]
Go(p, label, j) == pc' = [pc EXCEPT ![p] = label] /\ job' = See([job EXCEPT ![p] = j])
Return(p) == Go(p, "idle", NoJob)

Begin(p, label, j) ==
    /\ pc[p] = "idle" /\ j.cmd \in menu[p] /\ commands < MaxCommands
    /\ commands' = commands + 1
    /\ Go(p, label, j)
    /\ overlapped' = (overlapped \/ \E q \in Proc : pc[q] # "idle")
    /\ calm' = [q \in Proc |-> IF q = p THEN \A r \in Proc : pc[r] = "idle"
                               ELSE pc[q] = "idle"]
    /\ UNCHANGED <<context, clock, ttl, menu, issued, events, faults, strayed>>

Step(p, label) == pc[p] = label /\ Disturb(p) /\
    UNCHANGED <<context, clock, ttl, menu, commands, events, faults, overlapped>>

\* Whether it failed or not, a loop over the items goes on, another command ends.
Leave(p) ==
    IF job[p].cmd \in {"auto-check", "complete", "check-all"}
    THEN Go(p, "next", [job[p] EXCEPT !.left = Tail(@)])
    ELSE Return(p)

-----------------------------------------------------------------------------
(* Tickets: create, start, checkpoint.                                     *)

\* `Create` up to its INSERT; the file is written before.
CreateTask(p, w) ==
    /\ status = "none" /\ status' = "todo"
    /\ file' = [file EXCEPT ![w] = NoTicket]
    /\ UNCHANGED <<ticket, checked, acks, unasked, basis>>
    /\ Begin(p, "issue", Plain("create", w))

HasFrontmatter(w) == file[w] \notin {Absent, Torn}

\* The transition of `Start`.
StartTask(p, w) ==
    /\ status = "todo" /\ HasFrontmatter(w) /\ status' = "in-progress"
    /\ UNCHANGED <<ticket, file, checked, acks, unasked, basis>>
    /\ Begin(p, "existing", Plain("start", w))

\* A ticket is issued only where there is none.
ReadExisting(p) ==
    /\ Step(p, "existing")
    /\ UNCHANGED <<status, ticket, file, checked, acks, issued, strayed, unasked, basis>>
    /\ IF ticket = NoTicket THEN Go(p, "issue", job[p]) ELSE Return(p)

Checkpoint(p, w) ==
    /\ status = "in-progress"
    /\ UNCHANGED <<status, ticket, file, checked, acks, unasked, basis>>
    /\ Begin(p, "issue", Plain("checkpoint", w))

GenerateWorkTicket(p) ==
    /\ Step(p, "issue")
    /\ issued' = issued + 1
    /\ UNCHANGED <<status, ticket, file, checked, acks, strayed, unasked, basis>>
    /\ Go(p, "set", [job[p] EXCEPT !.ticket = issued + 1])

SetTaskWorkTicket(p) ==
    /\ Step(p, "set")
    /\ ticket' = job[p].ticket
    /\ unasked' = IF job[p].cmd = "checkpoint" THEN unasked ELSE unasked + 1
    /\ UNCHANGED <<status, file, checked, acks, issued, strayed, basis>>
    /\ Go(p, "read", job[p])

\* writeWorkTicketToFrontmatter: its errors are ignored.
ReadFile(p) ==
    /\ Step(p, "read")
    /\ strayed' = (strayed \/ ~HasFrontmatter(job[p].tree))
    /\ UNCHANGED <<status, ticket, file, checked, acks, issued, unasked, basis>>
    /\ IF HasFrontmatter(job[p].tree) THEN Go(p, "truncate", job[p]) ELSE Return(p)

TruncateFile(p) ==
    /\ Step(p, "truncate")
    /\ file' = [file EXCEPT ![job[p].tree] = Torn]
    /\ UNCHANGED <<status, ticket, checked, acks, issued, strayed, unasked, basis>>
    /\ Go(p, "write", job[p])

WriteTicket(p) ==
    /\ Step(p, "write")
    /\ file' = [file EXCEPT ![job[p].tree] = job[p].ticket]
    /\ UNCHANGED <<status, ticket, checked, acks, issued, strayed, unasked, basis>>
    /\ Return(p)

-----------------------------------------------------------------------------
(* Acknowledgements and checks.                                            *)

\* `context --ticket x` for any ticket somebody was given.
CollectContext(p, x) ==
    /\ UNCHANGED <<status, ticket, file, checked, acks, unasked, basis>>
    /\ Begin(p, "ack", Job("context", AnyTree, x, context, FALSE, <<>>))

\* INSERT OR IGNORE: the row of an earlier acknowledgement keeps its time.
InsertContextAck(p) ==
    LET known == \E a \in acks : a.ticket = job[p].ticket /\ a.hash = job[p].hash
    IN  /\ Step(p, "ack")
        /\ acks' = IF known THEN acks
                   ELSE acks \cup {[ticket |-> job[p].ticket, hash |-> job[p].hash,
                                    at |-> clock]}
        /\ UNCHANGED <<status, ticket, file, checked, issued, strayed, unasked, basis>>
        /\ IF job[p].cmd = "context" THEN Return(p) ELSE Go(p, "verify", job[p])

\* `harness check` of the item, with a hash `context` once printed.
CheckAck(p, h) ==
    /\ status # "none"
    /\ UNCHANGED <<status, ticket, file, checked, acks, unasked, basis>>
    /\ Begin(p, "verify", Job("check", AnyTree, NoTicket, h, FALSE, <<ContextItem>>))

\* `harness check` of any other item takes any evidence.
CheckOther(p, i) ==
    /\ status # "none" /\ i \in Required \ {ContextItem}
    /\ UNCHANGED <<status, ticket, file, checked, acks, unasked, basis>>
    /\ Begin(p, "mark", Job("check", AnyTree, NoTicket, NoHash, FALSE, <<i>>))

VerifyTicket(p) ==
    /\ Step(p, "verify")
    /\ UNCHANGED <<status, ticket, file, checked, acks, issued, strayed, unasked, basis>>
    /\ IF ticket = NoTicket THEN Leave(p)
       ELSE Go(p, "lookup", [job[p] EXCEPT !.ticket = ticket])

HasContextAckFresh(t, h) ==
    \E a \in acks : a.ticket = t /\ a.hash = h /\ (ttl > 0 => a.at >= clock - ttl)

VerifyAck(p) ==
    /\ Step(p, "lookup")
    /\ UNCHANGED <<status, ticket, file, checked, acks, issued, strayed, unasked, basis>>
    /\ IF HasContextAckFresh(job[p].ticket, job[p].hash)
       THEN Go(p, "mark", job[p]) ELSE Leave(p)

CheckHarnessItem(p) ==
    LET i == Head(job[p].left)
    IN  /\ Step(p, "mark")
        /\ checked' = checked \cup {i}
        /\ basis' = IF i # ContextItem THEN basis
                    ELSE [hash |-> job[p].hash, live |-> job[p].live, since |-> job[p].since]
        /\ UNCHANGED <<status, ticket, file, acks, issued, strayed, unasked>>
        /\ Leave(p)

-----------------------------------------------------------------------------
(* auto-check, complete, reopen.                                           *)

Unchecked == SelectSeq(Template, LAMBDA i : i \notin checked)

\* `harness check-all` gives every unchecked item the same evidence.
CheckAll(p, h) ==
    /\ status # "none"
    /\ UNCHANGED <<status, ticket, file, checked, acks, unasked, basis>>
    /\ Begin(p, "next", Job("check-all", AnyTree, NoTicket, h, FALSE, Unchecked))

\* runAutoCheckGo reads the items once; `complete` runs it first unless told not to.
AutoCheck(p, cmd) ==
    /\ status # "none" /\ cmd = "complete" => status = "in-progress"
    /\ UNCHANGED <<status, ticket, file, checked, acks, unasked, basis>>
    /\ \/ Begin(p, "next", Job(cmd, AnyTree, NoTicket, NoHash, FALSE, Unchecked))
       \/ cmd = "complete" /\ Begin(p, "next", Plain(cmd, AnyTree))

\* What the two loops do with an item: an automatic check acknowledges the context
\* itself, runs the tool of a Go item, and skips what needs a person.
NextItem(p) ==
    LET i == Head(job[p].left)
        auto == job[p].cmd # "check-all"
    IN  /\ Step(p, "next") /\ job[p].left # <<>>
        /\ UNCHANGED <<status, ticket, file, checked, acks, issued, strayed, unasked, basis>>
        /\ \/ i # ContextItem /\ (auto => i \in autoCheckGoItems) /\ Go(p, "mark", job[p])
           \/ i # ContextItem /\ auto /\ Leave(p)
           \/ i = ContextItem /\ ~auto /\ Go(p, "verify", job[p])
           \/ i = ContextItem /\ auto /\ ticket = NoTicket /\ Leave(p)
           \/ /\ i = ContextItem /\ auto /\ ticket # NoTicket
              /\ Go(p, "collect", [job[p] EXCEPT !.ticket = ticket])

ItemsDone(p) ==
    /\ Step(p, "next") /\ job[p].left = <<>>
    /\ UNCHANGED <<status, ticket, file, checked, acks, issued, strayed, unasked, basis>>
    /\ IF job[p].cmd = "complete" THEN Go(p, "gate", job[p]) ELSE Return(p)

Collect(p) ==
    /\ Step(p, "collect")
    /\ UNCHANGED <<status, ticket, file, checked, acks, issued, strayed, unasked, basis>>
    /\ Go(p, "ack", [job[p] EXCEPT !.hash = context])

\* The gate and the transition of `complete` in one step.
CompleteTask(p) ==
    /\ Step(p, "gate")
    /\ status' = IF Required \subseteq checked /\ status = "in-progress" THEN "done" ELSE status
    /\ UNCHANGED <<ticket, file, checked, acks, issued, strayed, unasked, basis>>
    /\ Return(p)

\* The items are reset, the ticket stays.
Reopen(p) ==
    /\ status = "done" /\ status' \in {"todo", "in-progress"}
    /\ checked' = {} /\ basis' = NoBasis
    /\ UNCHANGED <<ticket, file, acks, unasked>>
    /\ Begin(p, "report", Plain("reopen", AnyTree))

-----------------------------------------------------------------------------
(* reconcile-ticket: the rows first, then each file, which is believed.    *)

CollectRows(p, w, fix) ==
    /\ status # "none"
    /\ UNCHANGED <<status, ticket, file, checked, acks, unasked, basis>>
    /\ Begin(p, "compare", Job("reconcile", w, ticket, NoHash, fix, <<>>))

\* A torn file reads as one without a ticket.
extractFrontmatterWorkTicket(w) == IF file[w] = Torn THEN NoTicket ELSE file[w]

CompareTicket(p) ==
    LET found == extractFrontmatterWorkTicket(job[p].tree)
        fixed == job[p].fix /\ found \notin {Absent, NoTicket, job[p].ticket}
    IN  /\ Step(p, "compare")
        /\ UNCHANGED <<status, ticket, file, checked, acks, issued, strayed, unasked, basis>>
        /\ IF fixed THEN Go(p, "repair", [job[p] EXCEPT !.ticket = found])
           ELSE Go(p, "report", job[p])

RepairTicket(p) ==
    /\ Step(p, "repair")
    /\ ticket' = job[p].ticket
    /\ UNCHANGED <<status, file, checked, acks, issued, strayed, unasked, basis>>
    /\ Go(p, "report", job[p])

Report(p) ==
    /\ Step(p, "report")
    /\ UNCHANGED <<status, ticket, file, checked, acks, issued, strayed, unasked, basis>>
    /\ Return(p)

-----------------------------------------------------------------------------
(* What fails, and what others do.                                         *)

MayFail == {"issue", "set", "ack", "mark", "repair"}

Fail(p) ==
    /\ pc[p] \in MayFail /\ faults < MaxFaults /\ faults' = faults + 1
    /\ strayed' = TRUE /\ calm' = [calm EXCEPT ![p] = FALSE]
    /\ UNCHANGED <<status, ticket, file, checked, acks, context, clock, ttl, menu, issued,
                   commands, events, overlapped, unasked, basis>>
    /\ Leave(p)

Kill(p) ==
    /\ pc[p] # "idle" /\ faults < MaxFaults /\ faults' = faults + 1
    /\ strayed' = TRUE
    /\ UNCHANGED <<status, ticket, file, checked, acks, context, clock, ttl, menu, issued,
                   commands, events, calm, overlapped, unasked, basis>>
    /\ Return(p)

Event ==
    /\ events < MaxEvents /\ events' = events + 1
    /\ calm' = [q \in Proc |-> calm[q] /\ pc[q] = "idle"]
    /\ UNCHANGED <<status, ticket, checked, acks, ttl, menu, pc, job, issued, commands, faults,
                   overlapped, unasked, basis>>

\* git brings the file of another worktree.
Pull(v, w) ==
    /\ file[v] \notin {Absent, Torn} /\ file[v] # file[w]
    /\ Event /\ strayed' = TRUE
    /\ file' = [file EXCEPT ![w] = file[v]]
    /\ UNCHANGED <<context, clock>>

\* The project changes, perhaps back to what it was; a minute passes.
Change == Event /\ context' \in Context \ {context} /\ UNCHANGED <<file, clock, strayed>>
Tick == Event /\ clock' = clock + 1 /\ UNCHANGED <<file, context, strayed>>

Next ==
    \/ \E p \in Proc, w \in Worktree :
          \/ CreateTask(p, w) \/ StartTask(p, w) \/ Checkpoint(p, w)
          \/ \E fix \in BOOLEAN : CollectRows(p, w, fix)
    \/ \E p \in Proc :
          \/ ReadExisting(p) \/ GenerateWorkTicket(p) \/ SetTaskWorkTicket(p)
          \/ ReadFile(p) \/ TruncateFile(p) \/ WriteTicket(p)
          \/ \E x \in Tickets : CollectContext(p, x)
          \/ \E h \in Context : CheckAck(p, h) \/ CheckAll(p, h)
          \/ \E i \in Required : CheckOther(p, i)
          \/ InsertContextAck(p) \/ VerifyTicket(p) \/ VerifyAck(p) \/ CheckHarnessItem(p)
          \/ \E cmd \in {"auto-check", "complete"} : AutoCheck(p, cmd)
          \/ NextItem(p) \/ ItemsDone(p) \/ Collect(p) \/ CompleteTask(p) \/ Reopen(p)
          \/ CompareTicket(p) \/ RepairTicket(p) \/ Report(p)
          \/ Fail(p) \/ Kill(p)
    \/ \E v, w \in Worktree : Pull(v, w)
    \/ Change \/ Tick

Spec == Init /\ [][Next]_ticketVars

-----------------------------------------------------------------------------
(* Properties.                                                             *)

TypeOK ==
    /\ status \in {"none", "todo", "in-progress", "done"}
    /\ ticket \in 0..issued /\ checked \subseteq Required
    /\ \A a \in acks : a.ticket \in Tickets /\ a.hash \in Context /\ a.at \in 0..clock
    /\ \A w \in Worktree : file[w] \in {Absent, Torn} \/ file[w] \in 0..issued
    /\ context \in Context

\* The item is checked only on an acknowledgement of a context under a ticket
\* the Task held while the check ran, and no older than its time to live when
\* the check began.
EvidenceCounts ==
    basis # NoBasis =>
        \E a \in acks : /\ a.hash = basis.hash /\ a.ticket \in basis.live
                        /\ ttl > 0 => a.at >= basis.since - ttl

\* As long as no two commands overlap, create and start give a Task one ticket,
\* however often it is reopened and started again.
OneTicketUnasked == ~overlapped => unasked <= 1

Quiet == \A p \in Proc : pc[p] = "idle"

\* While commands do not overlap and nothing is lost, some worktree's file holds
\* the ticket of the row.
FileFollowsRow ==
    Quiet /\ ~overlapped /\ ~strayed /\ ticket # NoTicket =>
        \E w \in Worktree : file[w] = ticket

\* An undisturbed `reconcile-ticket --fix` leaves the row with the file's ticket,
\* or as it was where the file has none; a dry run leaves it as it was.
ReconcileSettles ==
    \A p \in Proc : pc[p] = "report" /\ job[p].cmd = "reconcile" /\ calm[p] =>
        LET found == file[job[p].tree]
        IN  ticket = IF job[p].fix /\ found \notin {Absent, Torn, NoTicket}
                     THEN found ELSE job[p].before

\* An undisturbed auto-check finds its own acknowledgement, but for one given
\* under the same ticket for the same context so long ago that it has expired.
AutoCheckPasses ==
    \A p \in Proc :
        pc[p] = "lookup" /\ job[p].cmd \in {"auto-check", "complete"} /\ calm[p] =>
            \/ HasContextAckFresh(job[p].ticket, job[p].hash)
            \/ \E a \in acks : /\ a.ticket = ticket /\ a.hash = context
                               /\ ttl > 0 /\ a.at + ttl < job[p].since

TicketsSound ==
    /\ EvidenceCounts /\ OneTicketUnasked /\ FileFollowsRow
    /\ ReconcileSettles /\ AutoCheckPasses
=============================================================================
