CONSTANTS
  MaxRevisions = 3
  Proc = {p1}
  OrbId = {x, y}
  NewOrbs <- MCNewOrbs
  Bad = Bad
  MaxLines = 3
  MaxFails = 0
SPECIFICATION Spec
PROPERTY CreateIsFresh
CHECK_DEADLOCK FALSE
