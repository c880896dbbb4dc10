CONSTANTS
  FillIds = {f1}
  CashIds = {c1}
  Bodies = {b1, b2}
  MaxTime = 1
  MaxHist = 3
  MaxGen = 3
SPECIFICATION Spec
INVARIANTS TypeOK ContradictionStops CursorCovers ReopenAccepts
PROPERTIES ImplementsContract
CHECK_DEADLOCK FALSE
