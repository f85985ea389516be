---------------------------- MODULE OrbLifecycle -----------------------------
(***************************************************************************)
(* One orb in memory and every call of its public API (src/orb.rs), in any *)
(* order.  The command line picks the setter by the orb's type             *)
(* (apply_lifecycle in cli/src/main.rs); a library caller may call either  *)
(* setter on any orb, and the model lets it.                               *)
(***************************************************************************)
EXTENDS OrbRecord

VARIABLES
  orb,          \* the orb
  disciplined,  \* ghost: built by a constructor, and set by its type's setter only
  reviewed,     \* ghost: the orb has been in phase Review
  postponed     \* ghost: the orb has been Deferred

vars == <<orb, disciplined, reviewed, postponed>>

\* A record written before orbs had a lifecycle field, read as a task: neither
\* field is set.
LegacyOrb == [NewOrb(FALSE, FALSE, FALSE) EXCEPT !.status = None]

Init ==
  /\ \/ /\ \E u, h, d \in BOOLEAN : orb = NewOrb(u, h, d)
        /\ disciplined = TRUE
     \/ /\ orb = LegacyOrb
        /\ disciplined = FALSE
  /\ reviewed = FALSE
  /\ postponed = FALSE

\* Every call ends by replacing the orb; the ghosts watch what it became.
Become(o) ==
  /\ orb' = o
  /\ reviewed' = (reviewed \/ o.phase = "Review")
  /\ postponed' = (postponed \/ State(o) = "Deferred")

CallSetStatus(s) ==
  /\ StatusTransitionAllowed(orb.status, s)
  /\ Become(SetStatus(orb, s))
  /\ disciplined' = (disciplined /\ ~ orb.usesPhase)

CallSetPhase(p) ==
  /\ PhaseTransitionAllowed(orb.phase, p)
  /\ Become(SetPhase(orb, p))
  /\ disciplined' = (disciplined /\ orb.usesPhase)

CallDefer ==
  /\ CanDefer(orb)
  /\ Become(Defer(orb))
  /\ UNCHANGED disciplined

CallUndefer ==
  /\ Become(Undefer(orb))
  /\ UNCHANGED disciplined

CallTombstone ==
  /\ Become(TombstoneOrb(orb))
  /\ UNCHANGED disciplined

CallBeginRevision(scope) ==
  /\ CanBeginRevision(orb, scope)
  /\ Become(BeginRevision(orb, scope))
  /\ UNCHANGED disciplined

Next ==
  \/ \E s \in OrbStatus : CallSetStatus(s)
  \/ \E p \in OrbPhase : CallSetPhase(p)
  \/ CallDefer
  \/ CallUndefer
  \/ CallTombstone
  \/ \E scope \in ReviseScope : CallBeginRevision(scope)

Spec == Init /\ [][Next]_vars

-----------------------------------------------------------------------------
TypeOK ==
  /\ orb \in Orb
  /\ disciplined \in BOOLEAN
  /\ reviewed \in BOOLEAN
  /\ postponed \in BOOLEAN

\* A disciplined orb keeps one lifecycle, its type's, through deferral, soft
\* deletion and revision (which all choose the field to write by looking at
\* `status`, never at the type), and once deleted it reads as Cancelled.
LifecycleMatchesType ==
  disciplined =>
    /\ orb.usesPhase <=> orb.status = None
    /\ orb.usesPhase <=> orb.phase # None
    /\ IsTombstoned(orb) => EffectiveStatus(orb) = "Cancelled"

\* A deleted orb stays deleted whatever is called on it afterwards, even by
\* callers that mix the two setters: no setter, undefer or revision revives it.
TombstoneFinal == [][IsTombstoned(orb) => IsTombstoned(orb')]_vars

\* Failed and Cancelled really are final: only soft deletion leaves them.  (Done
\* does not have this property: a revision reopens it.)
GivenUpIsFinal ==
  [][disciplined /\ disciplined' /\ State(orb) \in {"Failed", "Cancelled"}
       => State(orb') \in {State(orb), "Tombstone"}]_vars

\* A finished orb carries its completion stamp: a revision, which clears the
\* stamp, always moves the orb out of the states that need one.
FinishedIsStamped ==
  disciplined /\ State(orb) \in Closing => orb.closed

\* No plan runs unreviewed: an epic or feature that is waiting, executing,
\* re-evaluating or done has been in Review, unless it was once deferred
\* (Deferred may go to Waiting directly).
ReviewedBeforeWork ==
  /\ disciplined /\ ~ postponed
  /\ orb.phase \in {"Waiting", "ExecutingChildren", "Executing",
                    "Reevaluating", "Done"}
  => reviewed

\* The reviewer cannot send an orb back for ever: MAX_REVISIONS ends the loop,
\* however revisions and other calls alternate.
RevisionsStop ==
  <>[][~ \E scope \in ReviseScope : CallBeginRevision(scope)]_vars

=============================================================================
