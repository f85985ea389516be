CONSTANTS
  a = a
  b = b
  c = c
  d = d
  OrbId <- MCOrbId
  MaxRevisions = 3
  Input <- MCInput
  NoParent = NoParent
  StackLimit = 4
SPECIFICATION CommandSpec
INVARIANTS
  CommandTypeOK
  SomeReady
  PipelineOrder
  LevelsInOrder
  UrgencyPasses
  TreeIsRight
PROPERTIES
  CommandEnds
CHECK_DEADLOCK FALSE
