SPECIFICATION Spec
CONSTANTS
  Row = {x1, x2}
  Run = {r1}
  Grace = 0
  InitialValue = 0
  DateColumn = FALSE
  MaxValue = 10
INVARIANTS
  NoRowIsPassedOver
CHECK_DEADLOCK FALSE
