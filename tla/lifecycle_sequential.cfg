CONSTANTS
  Proc = {p}
  Task = {t, u}
  SprintTask = {u}
  Prepared = {t}
  Misplaced = {t, u}
  Item = {i, j}
  Command = {"start", "checkpoint", "complete", "reopen", "delete", "check", "update"}
  MaxFaults = 0
  NoProc = NoProc
  NoTask = NoTask
  NoItem = NoItem
SPECIFICATION Spec
INVARIANTS RestAgrees
PROPERTIES PromiseButForUpdate
