CONSTANTS
  s1 = s1
  t1 = t1
  u1 = u1
  Proc = {p}
  Sprint = {s1, r1}
  Task = {t1}
  NoSprint = NoSprint
  NoTask = NoTask
  Depends <- Independent
  Created = {}
  Enrolled <- Loose
  Menus = {{"create", "start", "complete", "update", "reconcile", "assign", "unassign", "--force"}, {"create", "start", "complete", "discard", "return", "reconcile", "assign", "unassign"}}
  MaxFaults = 1
SPECIFICATION Spec
INVARIANTS RestAgrees
PROPERTIES ReconcileHeals CompensationRestores SprintPromiseKept
