SPECIFICATION Spec
CONSTANTS
  Row = {x1, x2}
  Run = {r1, r2}
  Grace = 2
  InitialValue = 1
  DateColumn = TRUE
  MaxValue = 4
SYMMETRY Symmetry
INVARIANTS
  TypeOK
  NoRowIsPassedOver
  CurrentIsServed
CHECK_DEADLOCK FALSE
