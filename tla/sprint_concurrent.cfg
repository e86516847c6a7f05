CONSTANTS
  s1 = s1
  t1 = t1
  u1 = u1
  Proc = {p, q}
  Sprint = {s1}
  Task = {t1}
  NoSprint = NoSprint
  NoTask = NoTask
  Depends <- Independent
  Created = {s1}
  Enrolled <- OneInside
  Menus = {{"start", "complete", "unassign", "update", "--force"}, {"start", "discard", "assign"}, {"start", "db-only", "force"}}
  MaxFaults = 1
SPECIFICATION Spec
INVARIANTS TypeOK OneFolder
