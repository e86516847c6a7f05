CONSTANTS
  Proc = {p, q}
  Task = {t, u}
  SprintTask = {u}
  Prepared = {t, u}
  Misplaced = {t, u}
  Item = {i}
  Command = {"start", "complete", "check"}
  MaxFaults = 1
  NoProc = NoProc
  NoTask = NoTask
  NoItem = NoItem
SYMMETRY Symmetry
SPECIFICATION Spec
INVARIANTS WriterHoldsLock GateHolds TransitionsAgree
PROPERTIES PromiseKept
