CONSTANTS
  Proc = {p, q}
  Task = {t}
  SprintTask = {}
  Prepared = {t}
  Misplaced = {}
  Item = {i}
  Command = {"start", "complete", "reopen", "delete", "update"}
  MaxFaults = 0
  NoProc = NoProc
  NoTask = NoTask
  NoItem = NoItem
SPECIFICATION FairSpec
INVARIANTS TypeOK TestedStatusHolds
PROPERTIES StatusPath CommandsReturn
