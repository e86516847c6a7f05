------------------------------- MODULE MCStores -------------------------------
(* The two stores from empty tables; MCParts also starts them from others.     *)
EXTENDS Stores

Priorities == <<"p0", "p2">>
Empty ==
    {[tasks |-> [t \in TaskId |-> NoRow], sprints |-> [p \in SprintId |-> NoRow],
      counter |-> 1, items |-> [t \in TaskId |-> noItems],
      tickets |-> [t \in TaskId |-> ""], acked |-> NoRow, secret |-> NoRow]}
=============================================================================
