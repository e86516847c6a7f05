-------------------------- MODULE TaskStateMachine --------------------------
(***************************************************************************)
(* What the guides promise of a Task: it goes todo -> in-progress -> done, *)
(* one atomic step at a time; it reaches done only with every required     *)
(* harness item checked; reopening it is the one way back from done and    *)
(* takes its checks away; only a todo Task is deleted.  TaskLifecycle is   *)
(* the code that is meant to keep this promise.                            *)
(***************************************************************************)
CONSTANTS Task, Item

VARIABLES status,   \* a Task's status, "absent" once deleted
          earned    \* the harness items that count for it

vars == <<status, earned>>

Init == /\ status = [t \in Task |-> "todo"]
        /\ earned = [t \in Task |-> {}]

Become(t, from, to) == /\ status[t] = from
                       /\ status' = [status EXCEPT ![t] = to]

Start(t)    == Become(t, "todo", "in-progress") /\ UNCHANGED earned
Check(t, i) == /\ earned' = [earned EXCEPT ![t] = @ \cup {i}]
               /\ UNCHANGED status
Complete(t) == /\ earned[t] = Item
               /\ Become(t, "in-progress", "done")
               /\ UNCHANGED earned

\* From in-progress the checks stay: nothing was accepted on their strength.
StepBack(t) == Become(t, "in-progress", "todo") /\ UNCHANGED earned
Reopen(t)   == /\ \E s \in {"todo", "in-progress"} : Become(t, "done", s)
               /\ earned' = [earned EXCEPT ![t] = {}]
Delete(t)   == Become(t, "todo", "absent") /\ UNCHANGED earned

Next == \E t \in Task :
          \/ Start(t) \/ Complete(t) \/ StepBack(t) \/ Reopen(t) \/ Delete(t)
          \/ \E i \in Item : Check(t, i)

Spec == Init /\ [][Next]_vars
=============================================================================
