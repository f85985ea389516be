CONSTANT MaxRevisions = 3
SPECIFICATION Spec
INVARIANTS
  TypeOK
  LifecycleMatchesType
  FinishedIsStamped
  ReviewedBeforeWork
PROPERTIES
  TombstoneFinal
  GivenUpIsFinal
  RevisionsStop
