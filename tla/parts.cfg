CONSTANTS
  p1 = p1
  p2 = p2
  p3 = p3
  w1 = w1
  w2 = w2
  t1 = t1
  s1 = s1
  Proc = {p1, p2, p3}
  Task = {t1}
  Sprint = {s1}
  Worktree = {w1, w2}
  Tree <- Trees
  Starts <- Everything
  MaxFaults = 1
  Missing = Missing
  Torn = Torn
  NoEnv = NoEnv
  NoValue = NoValue
  Absent = Absent
  Garbled = Garbled
  NoTaskRow = NoTaskRow
  NoRegistry = NoRegistry
  Null = Null
  NoSource = NoSource
  Broken = Broken
  NoMessage = NoMessage
  Parked = Parked
SPECIFICATION PartsSpec
CHECK_DEADLOCK FALSE
INVARIANTS PartsTyped Converges RecordsKept StoresAlike RulesSound EvidenceSound ConfigSound
PROPERTIES CleanMeansAgree NeverRegresses ImportSound
