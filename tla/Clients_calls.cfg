SPECIFICATION ClientsSpec
CONSTANTS
  Request = {q1, q2, q3}
  User = {u1, u2}
  Pipeline = {p1, p2}
  Key = {key1}
  NoKey = NoKey
  Run = {r1, r2, r3}
  NoRun = NoRun
  Error = Error
  Tab = {r1, r2}
  Account = {q1, q2}
  Nobody = Nobody
  NoToken = NoToken
  Form = {f, g}
  Panel = {a}
  NoPipeline = NoPipeline
  Home = p1
  PageRun = {s1, s2}
  Earlier = {}
  Reported = {"RUNNING", "SUCCEEDED"}
  MaxMoves = 3
  MaxCalls = 2
  MaxPolls = 1
SYMMETRY Symmetry
INVARIANTS
  TypeOK
  RetryIsReplayed
  AnswerIsOwn
  PartsTypeOK
  SessionIsOfOneUser
  PageIsInStep
PROPERTIES
  LiveSessionIsKept
CHECK_DEADLOCK FALSE
