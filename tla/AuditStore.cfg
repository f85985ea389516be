CONSTANTS
  Proc = {p1, p2}
  CommentId = {c1, c2}
  NoComment = NoComment
  Logged = {"StatusChanged"}
  Bad = Bad
  MaxEvents = 2
  MaxNow = 1
  MaxFails = 2
  MaxRecoveries = 2
SPECIFICATION Spec
CONSTRAINT Irregular
SYMMETRY Symmetry
INVARIANTS
  TypeOK
  Chronological
  CommentsAnnounced
CHECK_DEADLOCK FALSE
