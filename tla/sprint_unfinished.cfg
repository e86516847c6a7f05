CONSTANTS
  s1 = s1
  t1 = t1
  u1 = u1
  Proc = {p}
  Sprint = {s1}
  Task = {t1}
  NoSprint = NoSprint
  NoTask = NoTask
  Depends <- Independent
  Created = {s1}
  Enrolled <- OneInside
  Menus = {{"complete"}}
  MaxFaults = 0
SPECIFICATION Spec
PROPERTIES UnfinishedUntouched
