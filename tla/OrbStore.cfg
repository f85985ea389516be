CONSTANTS
  MaxRevisions = 3
  Proc = {p1, p2}
  OrbId = {x, y}
  NewOrbs <- MCNewOrbs
  Bad = Bad
  MaxLines = 3
  MaxFails = 2
SPECIFICATION Spec
INVARIANTS
  TypeOK
  HistoryIsLegal
  DeletedStaysDeleted
  OneLossPerFailure
PROPERTY AppendOnly
CHECK_DEADLOCK FALSE
