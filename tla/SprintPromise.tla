--------------------------- MODULE SprintPromise ---------------------------
(***************************************************************************)
(* What the commands about Sprints promise of the database, whatever       *)
(* happens to the folders: the statuses a Sprint may go through, when a    *)
(* Task may join or leave one, and how a Task comes to be done.  A Sprint  *)
(* that is completed stays so, and its Tasks are then taken to be done.    *)
(***************************************************************************)
CONSTANTS Sprint, Task, NoSprint

VARIABLES
    status,    \* of each Sprint
    member,    \* the Sprint of each Task
    work       \* the status of each Task

vars == <<status, member, work>>

Init ==
    /\ status \in [Sprint -> {"none", "backlog"}]
    /\ member \in [Task -> Sprint \cup {NoSprint}]
    /\ work = [t \in Task |-> "todo"]

\* create, start, complete, discard.
Moves == {<<"none", "backlog">>,
          <<"backlog", "active">>, <<"discarded", "active">>,
          <<"backlog", "completed">>, <<"active", "completed">>,
          <<"discarded", "completed">>,
          <<"backlog", "discarded">>, <<"active", "discarded">>}

Advance(s) ==
    /\ \E st \in {"backlog", "active", "completed", "discarded"} :
          /\ <<status[s], st>> \in Moves
          /\ status' = [status EXCEPT ![s] = st]
    /\ UNCHANGED <<member, work>>

\* The Task is not done when the command begins; it may be when it ends.
Join(t, s) ==
    /\ member[t] = NoSprint /\ status[s] # "none"
    /\ member' = [member EXCEPT ![t] = s]
    /\ UNCHANGED <<status, work>>

Leave(t) ==
    /\ member[t] # NoSprint
    /\ member' = [member EXCEPT ![t] = NoSprint]
    /\ UNCHANGED <<status, work>>

DoWork(t) ==
    /\ \/ work[t] = "todo" /\ work' = [work EXCEPT ![t] = "in-progress"]
       \/ work[t] = "in-progress" /\ work' = [work EXCEPT ![t] = "done"]
    /\ UNCHANGED <<status, member>>

\* The completion of a Sprint finishes its Tasks.
Finish(t) ==
    /\ member[t] # NoSprint /\ status[member[t]] = "completed"
    /\ work' = [work EXCEPT ![t] = "done"]
    /\ UNCHANGED <<status, member>>

Next ==
    \/ \E s \in Sprint : Advance(s)
    \/ \E t \in Task : Leave(t) \/ DoWork(t) \/ Finish(t) \/ \E s \in Sprint : Join(t, s)

Spec == Init /\ [][Next]_vars
=============================================================================
