CONSTANTS
  Proc = {p1, p2}
  Key = {k1}
  Offered <- MCOffered
  Torn = Torn
  Garbled = Garbled
  MaxLines = 2
  MaxSnaps = 1
  MaxNow = 1
  MaxFaults = 1
SPECIFICATION Spec
CONSTRAINT Regular
SYMMETRY Symmetry
PROPERTY OnlyStaleLocks
CHECK_DEADLOCK FALSE
