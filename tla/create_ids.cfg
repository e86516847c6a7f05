CONSTANTS
  p = p
  q = q
  w = w
  x = x
  Proc = {p, q}
  Tree <- TwoTrees
  Worktree = {w, x}
  Title = {a}
  Command = {"create"}
  KnownRows = {1, 3}
  KnownFiles = {2}
  KnownTitle = old
  Counter = 0
  TaskIDSanityMax = 9
  Window = 2
  Day = 2
  Zone = 1
  MaxTime = 2
  MaxId = 5
  MaxFaults = 2
SPECIFICATION Spec
CHECK_DEADLOCK FALSE
INVARIANTS DistinctIds UnusedIds
PROPERTIES NoTwinToday
