CONSTANTS
  p1 = p1
  p2 = p2
  t1 = t1
  s1 = s1
  Proc = {p1, p2}
  Commands <- Duties
  Task = {t1}
  Sprint = {s1}
  Untracked = {}
  FirstCommit <- Commits
  Legacy = 1
  Day = 2
  Zone = 1
  RetryMax = 1
  MaxTime = 3
  MaxEvents = 3
  MaxFaults = 1
  NoProc = NoProc
  NoKey = NoKey
  Null = Null
SPECIFICATION Spec
CHECK_DEADLOCK FALSE
INVARIANTS TypeOK HashCoversHistory SchemaReady EventsAccounted NewestFirstWithinADay
PROPERTIES RestoreCompletes
