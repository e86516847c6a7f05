---------------------------- MODULE MCTaskCreate ----------------------------
(* Small instances of TaskCreate for TLC.                                  *)
EXTENDS TaskCreate, TLC

CONSTANTS p, q, w, x

\* Every process in worktree w; one of them in x.
OneTree  == [a \in Proc |-> w]
TwoTrees == [a \in Proc |-> IF a = q THEN x ELSE w]
=============================================================================
