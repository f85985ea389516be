CONSTANTS
  Proc = {p1, p2}
  Key = {k1}
  Offered <- MCOffered
  Torn = Torn
  Garbled = Garbled
  MaxLines = 2
  MaxSnaps = 1
  MaxNow = 1
  MaxFaults = 2
SPECIFICATION Spec
CONSTRAINTS
  Regular
  LateFaults
SYMMETRY Symmetry
INVARIANTS
  TypeOK
  DamageIsMarked
  OldLinesArchived
PROPERTIES
  RecoveryRestores
CHECK_DEADLOCK FALSE
