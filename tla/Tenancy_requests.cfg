SPECIFICATION Spec
CONSTANTS
  None = None
  User = {u1, u2}
  Engineer = {u1, u2}
  Workspace = {w1, w2}
  Source = {s1, s2}
  Pipeline = {p1, p2}
  Request = {r1, r2}
  Suffix = {1, 2}
  New = {s2, p2}
SYMMETRY Symmetry
INVARIANTS
  TypeOK
  PipelineFollowsSource
  OwnerRemains
  AuditTrail
PROPERTIES
  LandsWhereAdmitted
CHECK_DEADLOCK FALSE
