----------------------------- MODULE MCAuditStore -----------------------------
(* AuditStore for TLC.                                                     *)
EXTENDS AuditStore, TLC

\* Two irregular things are enough, failed writes or recoveries; and with one of
\* each there is only one comment.
Irregular ==
  /\ fails + recoveries <= 2
  /\ fails = 1 /\ recoveries = 1 => \E c \in CommentId : call[c] = "new"

Symmetry == Permutations(Proc) \cup Permutations(CommentId)
=============================================================================
