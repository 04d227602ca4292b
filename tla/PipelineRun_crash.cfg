SPECIFICATION Spec
CONSTANTS
  Run = {r1, r2}
  Msg = {m1, m2}
  Worker = {w1, w2}
  NoRun = NoRun
  NoMsg = NoMsg
  MaxRetries = 1
  Eager = TRUE
  MaxCrashes = 1
  MaxExpiries = 1
SYMMETRY Symmetry
INVARIANTS
  TypeOK
  SettledRunIsComplete
  OneExecutor
  FailureIsJustified
PROPERTIES
  SettledIsForever
  ImplementsContract
CHECK_DEADLOCK FALSE
