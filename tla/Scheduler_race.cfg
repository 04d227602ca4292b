SPECIFICATION Spec
CONSTANTS
  Pipeline = {p1, p2}
  Schedule = {s1, s2}
  NoSchedule = NoSchedule
  Request = {q1, q2, q3}
  Kills = TRUE
SYMMETRY Symmetry
INVARIANTS
  TypeOK
PROPERTIES
  LoneSaveRepairs
CHECK_DEADLOCK FALSE
