CONSTANTS
  Proc = {p, q}
  Task = {t}
  SprintTask = {}
  Prepared = {t}
  Misplaced = {}
  Item = {i}
  Command = {"complete", "reopen", "check"}
  MaxFaults = 0
  NoProc = NoProc
  NoTask = NoTask
  NoItem = NoItem
SPECIFICATION Spec
INVARIANTS GateHolds
