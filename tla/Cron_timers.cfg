SPECIFICATION FairSpec
CONSTANTS
  r1 = r1
  r2 = r2
  r3 = r3
  t1 = t1
  t2 = t2
  Requests = {r1, r2, r3}
  Kind <- KindAll
  Timers = {t1, t2}
  Capacity = 1
  Drainable = TRUE
  Calls = {"stop", "save_error", "drain_mailbox", "resume_task", "pause_task"}
INVARIANTS
  OneTimer
PROPERTIES
  TaskRepeats
  StopTakesEffect
  IntervalRespected
CHECK_DEADLOCK FALSE
