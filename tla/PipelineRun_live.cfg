SPECIFICATION LiveSpec
CONSTANTS
  Run = {r1, r2}
  Msg = {m1}
  Worker = {w1, w2}
  NoRun = NoRun
  NoMsg = NoMsg
  MaxRetries = 1
  Eager = FALSE
  MaxCrashes = 1
  MaxExpiries = 0
  Pipeline = {p1, p2}
  NoPipeline = NoPipeline
  Home = p1
  PageRun = {s1, s2}
  Earlier = {s1}
  Reported = {"RUNNING", "SUCCEEDED"}
  MaxMoves = 2
  MaxCalls = 2
  MaxPolls = 2
PROPERTIES
  EveryRunSettles
  StartedRunIsSeenToEnd
CHECK_DEADLOCK FALSE
