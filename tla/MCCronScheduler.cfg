CONSTANTS
  tick = tick
  once = once
  decl = decl
  bad = bad
  Job = {tick, once, decl, bad}
  NoJob = NoJob
  Declared = {decl}
  EnabledDecl = {decl}
  Unreadable = {bad}
  FirstSchedule <- Schedules
  NewSchedule <- Edited
  Editor = {e1}
  max_tasks = 2
  max_concurrent = 2
  MaxTime = 2
  MaxEdits = 1
  MaxFaults = 1
SPECIFICATION Spec
INVARIANTS TypeOK NoOverlap NoStarvation OneShotStaysDone PauseHolds
PROPERTIES DueIsServed
CHECK_DEADLOCK FALSE
