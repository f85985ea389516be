------------------------------ MODULE OrbRecord ------------------------------
(***************************************************************************)
(* The lifecycle rules of one orb (src/orb.rs): the two transition tables, *)
(* the setters that consult them, deferral, soft deletion and revision.    *)
(*                                                                         *)
(* The module has no variables: each mutator of `impl Orb` is an operator  *)
(* from the orb before the call to the orb after it, beside the guard      *)
(* under which the call does not return an error.  A refused call leaves   *)
(* the orb as it was.  Of an orb's fields the model keeps those the rules  *)
(* read or write; a time stamp is kept as "is it set".                     *)
(***************************************************************************)
EXTENDS Integers

CONSTANT MaxRevisions      \* MAX_REVISIONS, 3 in the code

ASSUME MaxRevisionsAssumption == MaxRevisions \in Nat

None == "None"             \* Option::None of `status` and of `phase`

OrbStatus == {"Draft", "Pending", "Active", "Review", "Done", "Failed",
              "Cancelled", "Deferred", "Tombstone"}

OrbPhase == {"Draft", "Pending", "Speccing", "Decomposing", "Refining",
             "Review", "Waiting", "ExecutingChildren", "Executing",
             "Reevaluating", "Done", "Failed", "Cancelled", "Deferred",
             "Tombstone"}

\* usesPhase: the orb's type is Epic or Feature (OrbType::uses_phase);
\* hasParent: parent_id is set; closed, deleted: closed_at, deleted_at are set.
Orb == [usesPhase : BOOLEAN, hasParent : BOOLEAN,
        status : OrbStatus \cup {None}, phase : OrbPhase \cup {None},
        closed : BOOLEAN, deleted : BOOLEAN, revisions : 0 .. MaxRevisions]

Closing == {"Done", "Failed", "Cancelled"}     \* the states that stamp closed_at
Terminal == Closing \cup {"Tombstone"}         \* is_terminal

-----------------------------------------------------------------------------
(* The transition tables.                                                  *)

StatusMoves ==
  {"Draft"}   \X {"Pending", "Deferred", "Cancelled"} \cup
  {"Pending"} \X {"Active", "Deferred", "Cancelled"} \cup
  {"Deferred"} \X {"Pending"} \cup
  {"Active"}  \X {"Review", "Done", "Failed", "Cancelled"} \cup
  {"Review"}  \X {"Done", "Active", "Failed", "Cancelled"} \cup
  {"Done"}    \X {"Active"}

\* Mutant: every finished state reopens, not Done alone.
StatusTransitionAllowed_Retry(from, to) ==
  \/ to = "Tombstone"
  \/ from = to
  \/ from \in Closing /\ to = "Active"
  \/ <<from, to>> \in StatusMoves

StatusTransitionAllowed(from, to) ==
  \/ to = "Tombstone"
  \/ from = None /\ to = "Draft"
  \/ from = to
  \/ <<from, to>> \in StatusMoves

PhaseMoves ==
  {"Draft"} \X {"Pending"} \cup
  {"Pending"} \X {"Speccing"} \cup
  {"Speccing"} \X {"Decomposing"} \cup
  {"Decomposing", "Review", "Reevaluating", "Done"} \X {"Refining"} \cup
  {"Refining", "Reevaluating", "Executing"} \X {"Review"} \cup
  {"Review", "Reevaluating"} \X {"Waiting"} \cup
  {"Waiting"} \X {"ExecutingChildren", "Reevaluating"} \cup
  {"Review", "Waiting", "Reevaluating", "Done", "ExecutingChildren"}
      \X {"Executing"} \cup
  {"Review", "Executing", "ExecutingChildren"} \X {"Done"}

\* Mutants: the universal moves forget the test for a terminal phase; a
\* refined plan is executed without its review.
PhaseTransitionAllowed_FromTerminal(from, to) ==
  \/ from = to
  \/ to \in {"Tombstone", "Cancelled", "Failed", "Deferred"}
  \/ from = "Deferred" /\ to \in {"Pending", "Waiting"}
  \/ <<from, to>> \in PhaseMoves

PhaseTransitionAllowed_SkipReview(from, to) ==
  \/ to = "Tombstone"
  \/ from = to
  \/ from = "Refining" /\ to = "Executing"
  \/ <<from, to>> \in PhaseMoves

PhaseTransitionAllowed(from, to) ==
  \/ to = "Tombstone"
  \/ from = None /\ to = "Draft"
  \/ from = to
  \/ /\ to \in {"Cancelled", "Failed", "Deferred"}
     /\ from # None /\ from \notin Terminal
  \/ from = "Deferred" /\ to \in {"Pending", "Waiting"}
  \/ <<from, to>> \in PhaseMoves

-----------------------------------------------------------------------------
(* The mutators.                                                           *)

SetStatus(o, s) ==
  [o EXCEPT !.status = s, !.closed = @ \/ s \in Closing]

\* Mutant: only success is stamped.
SetPhase_StampsDone(o, p) ==
  [o EXCEPT !.phase = p, !.closed = @ \/ p = "Done"]

SetPhase(o, p) ==
  [o EXCEPT !.phase = p, !.closed = @ \/ p \in Closing]

CanDefer(o) ==
  IF o.status # None THEN o.status \in {"Pending", "Draft"}
                     ELSE o.phase \in {"Pending", "Waiting", "Draft"}

Defer(o) ==
  IF o.status # None THEN [o EXCEPT !.status = "Deferred"]
                     ELSE [o EXCEPT !.phase = "Deferred"]

\* A child goes back to Waiting, an orb without a parent to Pending; an orb
\* that is not deferred only gets a new updated_at.
Undefer(o) ==
  CASE o.status = "Deferred" -> [o EXCEPT !.status = "Pending"]
    [] o.status # "Deferred" /\ o.phase = "Deferred" ->
         [o EXCEPT !.phase = IF o.hasParent THEN "Waiting" ELSE "Pending"]
    [] OTHER -> o

\* Mutant: the lifecycle field is taken to be `status`.
TombstoneOrb_Status(o) ==
  [o EXCEPT !.deleted = TRUE, !.status = "Tombstone"]

TombstoneOrb(o) ==
  IF o.status # None
  THEN [o EXCEPT !.deleted = TRUE, !.status = "Tombstone"]
  ELSE [o EXCEPT !.deleted = TRUE, !.phase = "Tombstone"]

IsTombstoned(o) ==
  o.deleted \/ o.status = "Tombstone" \/ o.phase = "Tombstone"

\* Where a Revise verdict sends the orb: a task has no Refining phase, so both
\* scopes send it back to Active.
ReviseScope == {"Execution", "Decomposition"}

RevisionTarget(o, scope) ==
  CASE ~ o.usesPhase -> "Active"
    [] o.usesPhase /\ scope = "Execution" -> "Executing"
    [] o.usesPhase /\ scope = "Decomposition" -> "Refining"

\* Mutant: off by one at the cap.
CanBeginRevision_OneMore(o, scope) ==
  /\ o.revisions <= MaxRevisions
  /\ IF o.usesPhase
     THEN PhaseTransitionAllowed(o.phase, RevisionTarget(o, scope))
     ELSE StatusTransitionAllowed(o.status, RevisionTarget(o, scope))

CanBeginRevision(o, scope) ==
  /\ o.revisions < MaxRevisions
  /\ IF o.usesPhase
     THEN PhaseTransitionAllowed(o.phase, RevisionTarget(o, scope))
     ELSE StatusTransitionAllowed(o.status, RevisionTarget(o, scope))

\* Mutant: re-planning is not counted as a revision.
BeginRevision_FreeReplan(o, scope) ==
  LET moved == IF o.usesPhase THEN SetPhase(o, RevisionTarget(o, scope))
                              ELSE SetStatus(o, RevisionTarget(o, scope))
  IN [moved EXCEPT !.revisions = IF scope = "Execution" THEN @ + 1 ELSE @,
                   !.closed = FALSE]

BeginRevision(o, scope) ==
  LET moved == IF o.usesPhase THEN SetPhase(o, RevisionTarget(o, scope))
                              ELSE SetStatus(o, RevisionTarget(o, scope))
  IN [moved EXCEPT !.revisions = @ + 1, !.closed = FALSE]

-----------------------------------------------------------------------------
(* Construction, and what the rest of the system reads.                    *)

\* Orb::new, with_type, with_parent, and the --draft flag of `orb create`.
NewOrb(usesPhase, hasParent, draft) ==
  LET start == IF draft THEN "Draft" ELSE "Pending"
  IN [usesPhase |-> usesPhase, hasParent |-> hasParent,
      status |-> IF usesPhase THEN None ELSE start,
      phase  |-> IF usesPhase THEN start ELSE None,
      closed |-> FALSE, deleted |-> FALSE, revisions |-> 0]

\* The state of an orb whichever of the two fields holds it.
State(o) == IF o.status # None THEN o.status ELSE o.phase

EffectiveStatus(o) ==
  CASE State(o) \in {"None", "Draft", "Pending", "Deferred", "Waiting"} -> "Pending"
    [] State(o) \in {"Active", "Speccing", "Decomposing", "Refining",
                     "ExecutingChildren", "Executing", "Reevaluating"} -> "Active"
    [] State(o) \in {"Cancelled", "Tombstone"} -> "Cancelled"
    [] OTHER -> State(o)
=============================================================================
