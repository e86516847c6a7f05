CONSTANTS
  p = p
  q = q
  w = w
  x = x
  Proc = {p, q}
  Tree <- TwoTrees
  Worktree = {w, x}
  Title = {a, b}
  Command = {"create", "sync"}
  KnownRows = {1}
  KnownFiles = {2}
  KnownTitle = old
  Counter = 1
  TaskIDSanityMax = 9
  Window = 0
  Day = 1
  Zone = 0
  MaxTime = 0
  MaxId = 4
  MaxFaults = 1
SPECIFICATION Spec
INVARIANTS TypeOK OwnId FilesHaveRows
PROPERTIES DeletesOnlyOrphans
