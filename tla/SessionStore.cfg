CONSTANTS
  Proc = {p1, p2}
  Id = {s1, s2}
  Currency = {EUR, USD}
  MaxCount = 3
  Offered <- MCOffered
  Header = Header
  Bad = Bad
  MaxFileBytes = 3
  RotateAfter = 1
  Month = 1
  MaxFiles = 2
  MaxNow = 2
  MaxFails = 1
SPECIFICATION Spec
CONSTRAINT Small
SYMMETRY Symmetry
INVARIANTS
  TypeOK
  CapOvershoot
  ClosedIsFinal
  ArchivedWasClosed
  TranscriptsKept
  SnapshotAgrees
CHECK_DEADLOCK FALSE
