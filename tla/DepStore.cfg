CONSTANTS
  a = a
  b = b
  c = c
  OrbId = {a, b, c}
  Proc = {p1, p2}
  Offered <- MCOffered
  Bad = Bad
  MaxLog = 4
  MaxFails = 1
SPECIFICATION Spec
INVARIANTS
  TypeOK
  NoCycle
PROPERTIES
  CallsTakeEffect
  KeepsPromise
CHECK_DEADLOCK FALSE
