CONSTANTS
  a = a
  b = b
  c = c
  d = d
  OrbId <- MCOrbId
  MaxRevisions = 3
  Input <- Forks
  NoParent = NoParent
  StackLimit = 4
SPECIFICATION CommandSpec
INVARIANT LevelsByPriority
CHECK_DEADLOCK FALSE
