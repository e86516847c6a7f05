-------------------------- MODULE MCSprintLifecycle --------------------------
(* Small instances of SprintLifecycle for TLC.                             *)
EXTENDS SprintLifecycle, TLC

CONSTANTS s1, t1, u1

Independent == [a \in Task |-> {}]
Loose       == [a \in Task |-> NoSprint]        \* no Task is in a Sprint yet
OneInside   == [a \in Task |-> IF a = t1 THEN s1 ELSE NoSprint]
AllInside   == [a \in Task |-> s1]
Symmetry == Permutations(Proc)
=============================================================================
