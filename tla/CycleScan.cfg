CONSTANTS
  OrbId = {a, b, c}
  NoOrb = NoOrb
SPECIFICATION Spec
INVARIANTS
  TypeOK
  VerdictIsRight
  ReportIsCycle
PROPERTY Terminates
CHECK_DEADLOCK FALSE
