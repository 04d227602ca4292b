SPECIFICATION Spec
CONSTANTS
  None = None
  User = {u1, u2}
  Engineer = {u1, u2}
  Workspace = {w1, w2}
  Source = {s1, s2}
  Pipeline = {p1}
  Request = {r1}
  Suffix = {1, 2}
  New = {}
SYMMETRY Symmetry
INVARIANTS
  AlwaysOfItsSource
CHECK_DEADLOCK FALSE
