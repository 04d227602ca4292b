SPECIFICATION Spec
CONSTANTS
  Run = {r1, r2}
  Msg = {m1}
  Worker = {w1}
  NoRun = NoRun
  NoMsg = NoMsg
  MaxRetries = 1
  Eager = FALSE
  MaxCrashes = 1
  MaxExpiries = 0
INVARIANTS
  CronRunRecovers
CHECK_DEADLOCK FALSE
