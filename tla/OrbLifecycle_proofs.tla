------------------------- MODULE OrbLifecycle_proofs -------------------------
(***************************************************************************)
(* Proofs about OrbLifecycle, for every MaxRevisions.  The inductive       *)
(* invariant IInv adds to the properties what the ghosts remember of the   *)
(* phases the orb is in now.                                               *)
(***************************************************************************)
EXTENDS OrbLifecycle, TLAPS

\* The ghosts cover the present: an orb now in Review was reviewed, one now
\* deferred was postponed.
GhostsCurrent ==
  /\ orb.phase = "Review" => reviewed
  /\ State(orb) = "Deferred" => postponed

\* The two fields as the type prescribes, and a deletion stamp only on an orb
\* whose lifecycle field says Tombstone.
OneLifecycle ==
  disciplined =>
    /\ orb.usesPhase => orb.status = None /\ orb.phase # None
    /\ ~ orb.usesPhase => orb.phase = None /\ orb.status # None

DeletedIsTombstone ==
  disciplined /\ orb.deleted => State(orb) = "Tombstone"

IInv == /\ TypeOK
        /\ OneLifecycle
        /\ DeletedIsTombstone
        /\ GhostsCurrent
        /\ FinishedIsStamped
        /\ ReviewedBeforeWork

-----------------------------------------------------------------------------
(* What each mutator does to each field.                                   *)

\* The fields a status change writes, and those it leaves alone.
LEMMA SetStatusFields ==
  ASSUME NEW o \in Orb, NEW s \in OrbStatus
  PROVE  /\ SetStatus(o, s) \in Orb
         /\ SetStatus(o, s).status = s
         /\ SetStatus(o, s).closed = (o.closed \/ s \in Closing)
         /\ SetStatus(o, s).usesPhase = o.usesPhase
         /\ SetStatus(o, s).phase = o.phase
         /\ SetStatus(o, s).deleted = o.deleted
         /\ SetStatus(o, s).revisions = o.revisions
  BY DEF SetStatus, Orb

\* The fields a phase change writes, and those it leaves alone.
LEMMA SetPhaseFields ==
  ASSUME NEW o \in Orb, NEW p \in OrbPhase
  PROVE  /\ SetPhase(o, p) \in Orb
         /\ SetPhase(o, p).phase = p
         /\ SetPhase(o, p).closed = (o.closed \/ p \in Closing)
         /\ SetPhase(o, p).usesPhase = o.usesPhase
         /\ SetPhase(o, p).status = o.status
         /\ SetPhase(o, p).deleted = o.deleted
         /\ SetPhase(o, p).revisions = o.revisions
  BY DEF SetPhase, Orb

\* The fields a revision writes, and those it leaves alone.
LEMMA BeginRevisionFields ==
  ASSUME NEW o \in Orb, NEW scope \in ReviseScope, CanBeginRevision(o, scope)
  PROVE  LET r == BeginRevision(o, scope)
         IN  /\ r \in Orb
             /\ r.closed = FALSE
             /\ r.usesPhase = o.usesPhase
             /\ r.deleted = o.deleted
             /\ o.usesPhase => /\ r.phase = RevisionTarget(o, scope)
                               /\ r.status = o.status
             /\ ~ o.usesPhase => /\ r.status = RevisionTarget(o, scope)
                                 /\ r.phase = o.phase
             /\ r.revisions = o.revisions + 1
<1> DEFINE t == RevisionTarget(o, scope)
           moved == IF o.usesPhase THEN SetPhase(o, t) ELSE SetStatus(o, t)
<1>1. /\ o.usesPhase => t \in {"Executing", "Refining"}
      /\ ~ o.usesPhase => t = "Active"
  BY DEF RevisionTarget, ReviseScope, Orb
<1>2. /\ moved \in Orb
      /\ moved.usesPhase = o.usesPhase
      /\ moved.deleted = o.deleted
      /\ moved.revisions = o.revisions
      /\ o.usesPhase => moved.phase = t /\ moved.status = o.status
      /\ ~ o.usesPhase => moved.status = t /\ moved.phase = o.phase
  <2>1. CASE o.usesPhase
    <3>1. moved = SetPhase(o, t) /\ t \in OrbPhase
      BY <2>1, <1>1 DEF OrbPhase
    <3> HIDE DEF moved, t
    <3> QED BY <2>1, <3>1, SetPhaseFields
  <2>2. CASE ~ o.usesPhase
    <3>1. moved = SetStatus(o, t) /\ t \in OrbStatus
      BY <2>2, <1>1 DEF OrbStatus
    <3> HIDE DEF moved, t
    <3> QED BY <2>2, <3>1, SetStatusFields
  <2> QED BY <2>1, <2>2
<1>3. BeginRevision(o, scope) = [moved EXCEPT !.revisions = @ + 1, !.closed = FALSE]
  BY DEF BeginRevision
<1>4. o.revisions + 1 \in 0 .. MaxRevisions
  BY MaxRevisionsAssumption DEF CanBeginRevision, Orb
<1> HIDE DEF moved, t
<1>5. /\ BeginRevision(o, scope) \in Orb
      /\ BeginRevision(o, scope).closed = FALSE
      /\ BeginRevision(o, scope).usesPhase = moved.usesPhase
      /\ BeginRevision(o, scope).deleted = moved.deleted
      /\ BeginRevision(o, scope).status = moved.status
      /\ BeginRevision(o, scope).phase = moved.phase
      /\ BeginRevision(o, scope).revisions = o.revisions + 1
  BY <1>2, <1>3, <1>4 DEF Orb
<1> QED BY <1>2, <1>5 DEF t

\* Deferral, its undoing and soft deletion stay inside the type.
LEMMA MutatorTypes ==
  ASSUME NEW o \in Orb
  PROVE  Defer(o) \in Orb /\ Undefer(o) \in Orb /\ TombstoneOrb(o) \in Orb
<1>1. Defer(o) \in Orb
  BY DEF Defer, Orb, OrbStatus, OrbPhase
<1>2. Undefer(o) \in Orb
  BY DEF Undefer, Orb, OrbStatus, OrbPhase
<1>3. TombstoneOrb(o) \in Orb
  BY DEF TombstoneOrb, Orb, OrbStatus, OrbPhase
<1> QED BY <1>1, <1>2, <1>3

\* What the constructors build.
LEMMA NewOrbFields ==
  ASSUME NEW u \in BOOLEAN, NEW h \in BOOLEAN, NEW d \in BOOLEAN
  PROVE  LET o == NewOrb(u, h, d)
         IN  /\ o \in Orb
             /\ o.usesPhase = u
             /\ u => o.status = None /\ o.phase \in {"Draft", "Pending"}
             /\ ~ u => o.phase = None /\ o.status \in {"Draft", "Pending"}
             /\ o.closed = FALSE
             /\ o.deleted = FALSE
<1>1. 0 \in 0 .. MaxRevisions
  BY MaxRevisionsAssumption
<1>2. CASE u
  BY <1>1, <1>2 DEF NewOrb, Orb, OrbStatus, OrbPhase
<1>3. CASE ~ u
  BY <1>1, <1>3 DEF NewOrb, Orb, OrbStatus, OrbPhase
<1> QED BY <1>2, <1>3

-----------------------------------------------------------------------------
(* Type correctness.                                                       *)

\* Every initial state is well typed.
LEMMA InitType == Init => TypeOK
<1> SUFFICES ASSUME Init PROVE TypeOK
  OBVIOUS
<1>1. LegacyOrb \in Orb
  <2> DEFINE n == NewOrb(FALSE, FALSE, FALSE)
  <2>1. n \in Orb
    BY NewOrbFields
  <2>2. LegacyOrb = [n EXCEPT !.status = None]
    BY DEF LegacyOrb
  <2> HIDE DEF n
  <2> QED BY <2>1, <2>2 DEF Orb
<1>2. orb \in Orb
  <2>1. CASE \E u, h, d \in BOOLEAN : orb = NewOrb(u, h, d)
    <3>1. PICK u \in BOOLEAN, h \in BOOLEAN, d \in BOOLEAN : orb = NewOrb(u, h, d)
      BY <2>1
    <3> QED BY <3>1, NewOrbFields
  <2>2. CASE orb = LegacyOrb
    BY <1>1, <2>2
  <2> QED BY <2>1, <2>2 DEF Init
<1> QED BY <1>2 DEF Init, TypeOK

\* Become keeps the type when it is given an orb.
LEMMA BecomeType ==
  ASSUME TypeOK, NEW o \in Orb, Become(o), disciplined' \in BOOLEAN
  PROVE  TypeOK'
  BY DEF TypeOK, Become

\* Every call, and a stutter, keeps the type.
LEMMA NextType == TypeOK /\ [Next]_vars => TypeOK'
<1> SUFFICES ASSUME TypeOK, [Next]_vars PROVE TypeOK'
  OBVIOUS
<1>0. orb \in Orb /\ disciplined \in BOOLEAN
  BY DEF TypeOK
<1>1. ASSUME NEW s \in OrbStatus, CallSetStatus(s) PROVE TypeOK'
  BY <1>0, <1>1, SetStatusFields, BecomeType DEF CallSetStatus
<1>2. ASSUME NEW p \in OrbPhase, CallSetPhase(p) PROVE TypeOK'
  BY <1>0, <1>2, SetPhaseFields, BecomeType DEF CallSetPhase
<1>3. CASE CallDefer
  BY <1>0, <1>3, MutatorTypes, BecomeType DEF CallDefer
<1>4. CASE CallUndefer
  BY <1>0, <1>4, MutatorTypes, BecomeType DEF CallUndefer
<1>5. CASE CallTombstone
  BY <1>0, <1>5, MutatorTypes, BecomeType DEF CallTombstone
<1>6. ASSUME NEW scope \in ReviseScope, CallBeginRevision(scope) PROVE TypeOK'
  BY <1>0, <1>6, BeginRevisionFields, BecomeType DEF CallBeginRevision
<1>7. CASE UNCHANGED vars
  BY <1>7 DEF vars, TypeOK
<1> QED BY <1>1, <1>2, <1>3, <1>4, <1>5, <1>6, <1>7 DEF Next

\* Every reachable orb is well typed; in particular revision_count never
\* passes MAX_REVISIONS, whatever the cap is.
THEOREM TypeCorrect == Spec => []TypeOK
  BY InitType, NextType, PTL DEF Spec
-----------------------------------------------------------------------------
(* The inductive invariant.                                                *)

\* The part of IInv that speaks of disciplined orbs.
Disciplined == /\ OneLifecycle
               /\ DeletedIsTombstone
               /\ FinishedIsStamped
               /\ ReviewedBeforeWork

\* The initial states satisfy the invariant.
LEMMA InitIInv == Init => IInv
<1> SUFFICES ASSUME Init PROVE IInv
  OBVIOUS
<1>1. TypeOK
  BY InitType
<1>2. CASE disciplined
  <2>1. PICK u \in BOOLEAN, h \in BOOLEAN, d \in BOOLEAN : orb = NewOrb(u, h, d)
    BY <1>2 DEF Init
  <2>2. /\ orb.usesPhase = u
        /\ u => orb.status = None /\ orb.phase \in {"Draft", "Pending"}
        /\ ~ u => orb.phase = None /\ orb.status \in {"Draft", "Pending"}
        /\ orb.deleted = FALSE
    BY <2>1, NewOrbFields
  <2>3. /\ State(orb) \in {"Draft", "Pending"}
        /\ orb.phase \in {None, "Draft", "Pending"}
    BY <2>2 DEF State, None
  <2>4. OneLifecycle
    BY <2>2 DEF OneLifecycle, None
  <2>5. DeletedIsTombstone /\ GhostsCurrent
    BY <2>2, <2>3 DEF DeletedIsTombstone, GhostsCurrent, None
  <2>6. FinishedIsStamped /\ ReviewedBeforeWork
    BY <2>3 DEF FinishedIsStamped, Closing, ReviewedBeforeWork, None
  <2> QED BY <1>1, <2>4, <2>5, <2>6 DEF IInv
<1>3. CASE ~ disciplined
  <2>1. orb = LegacyOrb
    BY <1>3 DEF Init
  <2>2. /\ NewOrb(FALSE, FALSE, FALSE) \in Orb
        /\ NewOrb(FALSE, FALSE, FALSE).phase = None
    BY NewOrbFields
  <2>3. orb.status = None /\ orb.phase = None
    BY <2>1, <2>2 DEF LegacyOrb, Orb
  <2>4. GhostsCurrent
    BY <2>3 DEF GhostsCurrent, State, None
  <2> QED BY <1>1, <1>3, <2>4
          DEF IInv, OneLifecycle, DeletedIsTombstone, FinishedIsStamped,
              ReviewedBeforeWork
<1> QED BY <1>2, <1>3

\* The ghosts are brought up to date by every call.
LEMMA BecomeGhosts ==
  ASSUME NEW o, Become(o)
  PROVE  GhostsCurrent'
  BY DEF Become, GhostsCurrent, State

\* A task's status change keeps the invariant: its phase stays unset, and a
\* deleted task is already in Tombstone, which no row of the table leaves.
LEMMA SetStatusKeeps ==
  ASSUME IInv, NEW s \in OrbStatus, CallSetStatus(s)
  PROVE  Disciplined'
<1> SUFFICES ASSUME disciplined' PROVE Disciplined'
  BY DEF Disciplined, OneLifecycle, DeletedIsTombstone, FinishedIsStamped,
         ReviewedBeforeWork
<1>1. orb \in Orb /\ orb' = SetStatus(orb, s)
  BY DEF IInv, TypeOK, CallSetStatus, Become
<1>2. disciplined /\ ~ orb.usesPhase
  BY DEF CallSetStatus
<1>3. orb.phase = None /\ orb.status # None /\ State(orb) = orb.status
  BY <1>2 DEF IInv, OneLifecycle, State
<1>4. /\ orb'.usesPhase = orb.usesPhase
      /\ orb'.phase = None
      /\ orb'.status = s
      /\ orb'.deleted = orb.deleted
      /\ orb'.closed = (orb.closed \/ s \in Closing)
  BY <1>1, <1>3, SetStatusFields
<1>5. s # None /\ State(orb') = s
  BY <1>4 DEF OrbStatus, None, State
<1>6. OneLifecycle'
  BY <1>2, <1>4, <1>5 DEF OneLifecycle
<1>7. DeletedIsTombstone'
  <2> SUFFICES ASSUME orb.deleted PROVE s = "Tombstone"
    BY <1>4, <1>5 DEF DeletedIsTombstone
  <2>1. orb.status = "Tombstone"
    BY <1>2, <1>3 DEF IInv, DeletedIsTombstone
  <2> QED BY <2>1 DEF CallSetStatus, StatusTransitionAllowed, StatusMoves, None
<1>8. FinishedIsStamped'
  BY <1>4, <1>5 DEF FinishedIsStamped
<1>9. ReviewedBeforeWork'
  BY <1>4 DEF ReviewedBeforeWork, None
<1> QED BY <1>6, <1>7, <1>8, <1>9 DEF Disciplined

\* An epic's or feature's phase change keeps the invariant: every way into the
\* working phases comes from Review, from another of them, or from Deferred.
LEMMA SetPhaseKeeps ==
  ASSUME IInv, NEW p \in OrbPhase, CallSetPhase(p)
  PROVE  Disciplined'
<1> SUFFICES ASSUME disciplined' PROVE Disciplined'
  BY DEF Disciplined, OneLifecycle, DeletedIsTombstone, FinishedIsStamped,
         ReviewedBeforeWork
<1>1. orb \in Orb /\ orb' = SetPhase(orb, p)
  BY DEF IInv, TypeOK, CallSetPhase, Become
<1>2. disciplined /\ orb.usesPhase
  BY DEF CallSetPhase
<1>3. orb.status = None /\ orb.phase # None /\ State(orb) = orb.phase
  BY <1>2 DEF IInv, OneLifecycle, State
<1>4. /\ orb'.usesPhase = orb.usesPhase
      /\ orb'.status = None
      /\ orb'.phase = p
      /\ orb'.deleted = orb.deleted
      /\ orb'.closed = (orb.closed \/ p \in Closing)
  BY <1>1, <1>3, SetPhaseFields
<1>5. p # None /\ State(orb') = p
  BY <1>4 DEF OrbPhase, None, State
<1>6. OneLifecycle'
  BY <1>2, <1>4, <1>5 DEF OneLifecycle
<1>7. DeletedIsTombstone'
  <2> SUFFICES ASSUME orb.deleted PROVE p = "Tombstone"
    BY <1>4, <1>5 DEF DeletedIsTombstone
  <2>1. orb.phase = "Tombstone"
    BY <1>2, <1>3 DEF IInv, DeletedIsTombstone
  <2> QED BY <2>1 DEF CallSetPhase, PhaseTransitionAllowed, PhaseMoves,
                     Terminal, Closing, None
<1>8. FinishedIsStamped'
  BY <1>4, <1>5 DEF FinishedIsStamped
<1>9. ReviewedBeforeWork'
  <2> DEFINE W == {"Waiting", "ExecutingChildren", "Executing",
                   "Reevaluating", "Done"}
  <2> SUFFICES ASSUME ~ postponed', p \in W PROVE reviewed'
    BY <1>4 DEF ReviewedBeforeWork
  <2>1. orb.phase \in W \cup {"Review", "Deferred"}
    BY <1>3 DEF CallSetPhase, PhaseTransitionAllowed, PhaseMoves, None
  <2>2. ~ postponed /\ (reviewed => reviewed')
    BY DEF CallSetPhase, Become
  <2>3. orb.phase # "Deferred"
    BY <1>3, <2>2 DEF IInv, GhostsCurrent
  <2>4. orb.phase \in W \cup {"Review"} => reviewed
    BY <1>2, <2>2 DEF IInv, ReviewedBeforeWork, GhostsCurrent
  <2> QED BY <2>1, <2>2, <2>3, <2>4
<1> QED BY <1>6, <1>7, <1>8, <1>9 DEF Disciplined

\* Deferral and its undoing keep the invariant: a deferred child that goes back
\* to Waiting has been postponed.
LEMMA DeferUndeferKeep ==
  ASSUME IInv, CallDefer \/ CallUndefer
  PROVE  Disciplined'
<1> SUFFICES ASSUME disciplined' PROVE Disciplined'
  BY DEF Disciplined, OneLifecycle, DeletedIsTombstone, FinishedIsStamped,
         ReviewedBeforeWork
<1>1. orb \in Orb /\ disciplined
  BY DEF IInv, TypeOK, CallDefer, CallUndefer
<1>2. /\ orb.usesPhase => orb.status = None /\ orb.phase # None
      /\ ~ orb.usesPhase => orb.phase = None /\ orb.status # None
  BY <1>1 DEF IInv, OneLifecycle
<1>3. CASE orb' = orb /\ reviewed' = (reviewed \/ orb.phase = "Review")
           /\ postponed' = (postponed \/ State(orb) = "Deferred")
  <2>1. OneLifecycle' /\ DeletedIsTombstone' /\ FinishedIsStamped'
    BY <1>1, <1>3 DEF IInv, OneLifecycle, DeletedIsTombstone,
                      FinishedIsStamped, State
  <2>2. ReviewedBeforeWork'
    BY <1>1, <1>3 DEF IInv, ReviewedBeforeWork
  <2> QED BY <2>1, <2>2 DEF Disciplined
<1>4. CASE CallDefer
  <2>1. orb' = Defer(orb)
    BY <1>4 DEF CallDefer, Become
  <2>2. /\ orb'.usesPhase = orb.usesPhase
        /\ orb'.deleted = orb.deleted
        /\ orb.usesPhase => orb'.phase = "Deferred" /\ orb'.status = None
        /\ ~ orb.usesPhase => orb'.phase = None /\ orb'.status = "Deferred"
    BY <1>1, <1>2, <2>1 DEF Defer, Orb
  <2>3. State(orb') = "Deferred" /\ orb'.phase \in {None, "Deferred"}
    BY <2>2 DEF State, None
  <2>4. ~ orb.deleted
    <3>1. State(orb) # "Tombstone"
      BY <1>4 DEF CallDefer, CanDefer, State
    <3> QED BY <1>1, <3>1 DEF IInv, DeletedIsTombstone
  <2>5. OneLifecycle'
    BY <2>2 DEF OneLifecycle, None
  <2>6. DeletedIsTombstone' /\ FinishedIsStamped' /\ ReviewedBeforeWork'
    BY <2>2, <2>3, <2>4
       DEF DeletedIsTombstone, FinishedIsStamped, Closing,
           ReviewedBeforeWork, None
  <2> QED BY <2>5, <2>6 DEF Disciplined
<1>5. CASE CallUndefer
  <2>1. /\ orb' = Undefer(orb)
        /\ reviewed' = (reviewed \/ orb'.phase = "Review")
        /\ postponed' = (postponed \/ State(orb') = "Deferred")
    BY <1>5 DEF CallUndefer, Become
  <2>2. CASE State(orb) # "Deferred"
    <3>1. orb' = orb
      BY <1>2, <2>1, <2>2 DEF Undefer, State, None
    <3> QED BY <2>1, <3>1, <1>3
  <2>3. CASE State(orb) = "Deferred"
    <3>1. postponed /\ postponed'
      BY <2>1, <2>3 DEF IInv, GhostsCurrent
    <3>2. /\ orb'.usesPhase = orb.usesPhase
          /\ orb'.deleted = orb.deleted
          /\ orb.usesPhase => orb'.phase \in {"Waiting", "Pending"}
                              /\ orb'.status = None
          /\ ~ orb.usesPhase => orb'.phase = None /\ orb'.status = "Pending"
      <4>1. CASE orb.usesPhase
        <5>1. orb.phase = "Deferred" /\ orb.status # "Deferred"
          BY <1>2, <2>3, <4>1 DEF State, None
        <5>2. orb' = [orb EXCEPT !.phase = IF orb.hasParent THEN "Waiting"
                                                           ELSE "Pending"]
          BY <2>1, <5>1 DEF Undefer
        <5> QED BY <1>1, <1>2, <4>1, <5>2 DEF Orb
      <4>2. CASE ~ orb.usesPhase
        <5>1. orb.status = "Deferred"
          BY <1>2, <2>3, <4>2 DEF State, None
        <5>2. orb' = [orb EXCEPT !.status = "Pending"]
          BY <2>1, <5>1 DEF Undefer
        <5> QED BY <1>1, <1>2, <4>2, <5>2 DEF Orb
      <4> QED BY <4>1, <4>2
    <3>3. ~ orb.deleted
      BY <1>1, <2>3 DEF IInv, DeletedIsTombstone
    <3>4. State(orb') \in {"Waiting", "Pending"}
      BY <3>2 DEF State, None
    <3>5. OneLifecycle'
      BY <3>2 DEF OneLifecycle, None
    <3>6. DeletedIsTombstone' /\ FinishedIsStamped' /\ ReviewedBeforeWork'
      BY <3>1, <3>2, <3>3, <3>4
         DEF DeletedIsTombstone, FinishedIsStamped, Closing, ReviewedBeforeWork
    <3> QED BY <3>5, <3>6 DEF Disciplined
  <2> QED BY <2>2, <2>3
<1> QED BY <1>4, <1>5

\* Soft deletion keeps the invariant: it writes the field the orb uses.
LEMMA TombstoneKeeps ==
  ASSUME IInv, CallTombstone
  PROVE  Disciplined'
<1> SUFFICES ASSUME disciplined' PROVE Disciplined'
  BY DEF Disciplined, OneLifecycle, DeletedIsTombstone, FinishedIsStamped,
         ReviewedBeforeWork
<1>1. orb \in Orb /\ disciplined /\ orb' = TombstoneOrb(orb)
  BY DEF IInv, TypeOK, CallTombstone, Become
<1>2. /\ orb.usesPhase => orb.status = None /\ orb.phase # None
      /\ ~ orb.usesPhase => orb.phase = None /\ orb.status # None
  BY <1>1 DEF IInv, OneLifecycle
<1>3. /\ orb'.usesPhase = orb.usesPhase
      /\ orb.usesPhase => orb'.phase = "Tombstone" /\ orb'.status = None
      /\ ~ orb.usesPhase => orb'.phase = None /\ orb'.status = "Tombstone"
  BY <1>1, <1>2 DEF TombstoneOrb, Orb
<1>4. State(orb') = "Tombstone" /\ orb'.phase \in {None, "Tombstone"}
  BY <1>3 DEF State, None
<1>5. OneLifecycle'
  BY <1>3 DEF OneLifecycle, None
<1>6. DeletedIsTombstone' /\ FinishedIsStamped' /\ ReviewedBeforeWork'
  BY <1>4 DEF DeletedIsTombstone, FinishedIsStamped, Closing,
              ReviewedBeforeWork, None
<1> QED BY <1>5, <1>6 DEF Disciplined

\* A revision keeps the invariant: it leaves the finished states, so the stamp
\* it clears is not missed, and re-executes only what Review let through.
LEMMA RevisionKeeps ==
  ASSUME IInv, NEW scope \in ReviseScope, CallBeginRevision(scope)
  PROVE  Disciplined'
<1> DEFINE t == RevisionTarget(orb, scope)
<1> SUFFICES ASSUME disciplined' PROVE Disciplined'
  BY DEF Disciplined, OneLifecycle, DeletedIsTombstone, FinishedIsStamped,
         ReviewedBeforeWork
<1>1. /\ orb \in Orb
      /\ disciplined
      /\ orb' = BeginRevision(orb, scope)
      /\ CanBeginRevision(orb, scope)
  BY DEF IInv, TypeOK, CallBeginRevision, Become
<1>2. /\ orb.usesPhase => orb.status = None /\ orb.phase # None
      /\ ~ orb.usesPhase => orb.phase = None /\ orb.status # None
  BY <1>1 DEF IInv, OneLifecycle
<1>3. /\ orb.usesPhase => t \in {"Executing", "Refining"}
      /\ ~ orb.usesPhase => t = "Active"
  BY <1>1 DEF RevisionTarget, ReviseScope, Orb
<1> HIDE DEF t
<1>4. /\ orb'.usesPhase = orb.usesPhase
      /\ orb'.deleted = orb.deleted
      /\ orb.usesPhase => orb'.phase = t /\ orb'.status = None
      /\ ~ orb.usesPhase => orb'.phase = None /\ orb'.status = t
  <2>1. /\ orb'.usesPhase = orb.usesPhase
        /\ orb'.deleted = orb.deleted
        /\ orb.usesPhase => /\ orb'.phase = RevisionTarget(orb, scope)
                            /\ orb'.status = orb.status
        /\ ~ orb.usesPhase => /\ orb'.status = RevisionTarget(orb, scope)
                              /\ orb'.phase = orb.phase
    BY <1>1, BeginRevisionFields, Zenon
  <2> QED BY <1>2, <2>1, Zenon DEF t
<1>5. State(orb') = t /\ State(orb') \in {"Executing", "Refining", "Active"}
  BY <1>3, <1>4 DEF State, None
<1>6. OneLifecycle'
  BY <1>3, <1>4 DEF OneLifecycle, None
<1>7. State(orb) # "Tombstone"
  <2>1. CASE orb.usesPhase
    <3>1. PhaseTransitionAllowed(orb.phase, t)
      BY <1>1, <2>1 DEF CanBeginRevision, t
    <3> QED BY <1>2, <1>3, <2>1, <3>1
            DEF PhaseTransitionAllowed, PhaseMoves, State, None
  <2>2. CASE ~ orb.usesPhase
    <3>1. StatusTransitionAllowed(orb.status, t)
      BY <1>1, <2>2 DEF CanBeginRevision, t
    <3> QED BY <1>2, <1>3, <2>2, <3>1
            DEF StatusTransitionAllowed, StatusMoves, State, None
  <2> QED BY <2>1, <2>2
<1>8. DeletedIsTombstone' /\ FinishedIsStamped'
  BY <1>1, <1>4, <1>5, <1>7
     DEF IInv, DeletedIsTombstone, FinishedIsStamped, Closing
<1>9. ReviewedBeforeWork'
  <2> DEFINE W == {"Waiting", "ExecutingChildren", "Executing",
                   "Reevaluating", "Done"}
  <2> SUFFICES ASSUME ~ postponed', orb'.phase \in W PROVE reviewed'
    BY DEF ReviewedBeforeWork
  <2>1. orb.usesPhase /\ t = "Executing"
    BY <1>3, <1>4 DEF None
  <2>2. PhaseTransitionAllowed(orb.phase, "Executing")
    BY <1>1, <2>1 DEF CanBeginRevision, t
  <2>3. orb.phase \in W \cup {"Review"}
    BY <1>2, <2>1, <2>2 DEF PhaseTransitionAllowed, PhaseMoves, None
  <2>4. ~ postponed /\ (reviewed => reviewed')
    BY DEF CallBeginRevision, Become
  <2> QED BY <1>1, <2>3, <2>4 DEF IInv, ReviewedBeforeWork, GhostsCurrent
<1> QED BY <1>6, <1>8, <1>9 DEF Disciplined

\* Every step preserves the invariant.
LEMMA NextIInv == IInv /\ [Next]_vars => IInv'
<1> SUFFICES ASSUME IInv, [Next]_vars PROVE IInv'
  OBVIOUS
<1>1. TypeOK'
  BY NextType DEF IInv
<1>2. CASE UNCHANGED vars
  BY <1>1, <1>2
     DEF vars, IInv, OneLifecycle, DeletedIsTombstone, GhostsCurrent,
         FinishedIsStamped, ReviewedBeforeWork, State
<1>3. CASE Next
  <2>1. GhostsCurrent'
    BY <1>3, BecomeGhosts
       DEF Next, CallSetStatus, CallSetPhase, CallDefer, CallUndefer,
           CallTombstone, CallBeginRevision
  <2>2. Disciplined'
    BY <1>3, SetStatusKeeps, SetPhaseKeeps, DeferUndeferKeep, TombstoneKeeps,
       RevisionKeeps
       DEF Next
  <2> QED BY <1>1, <2>1, <2>2 DEF IInv, Disciplined
<1> QED BY <1>2, <1>3

\* The invariant holds in every reachable state.
LEMMA IInvInvariant == Spec => []IInv
  BY InitIInv, NextIInv, PTL DEF Spec

\* In a well-typed disciplined orb the invariant gives the property.
LEMMA IInvMatches == IInv => LifecycleMatchesType
<1> SUFFICES ASSUME IInv, disciplined
             PROVE  /\ orb.usesPhase <=> orb.status = None
                    /\ orb.usesPhase <=> orb.phase # None
                    /\ IsTombstoned(orb) => EffectiveStatus(orb) = "Cancelled"
  BY DEF LifecycleMatchesType
<1>1. orb \in Orb
  BY DEF IInv, TypeOK
<1>2. /\ orb.usesPhase => orb.status = None /\ orb.phase # None
      /\ ~ orb.usesPhase => orb.phase = None /\ orb.status # None
  BY DEF IInv, OneLifecycle
<1>3. IsTombstoned(orb) => State(orb) = "Tombstone"
  BY <1>2 DEF IInv, DeletedIsTombstone, IsTombstoned, State, None
<1>4. State(orb) = "Tombstone" => EffectiveStatus(orb) = "Cancelled"
  BY DEF EffectiveStatus
<1> QED BY <1>2, <1>3, <1>4

\* A disciplined orb keeps its type's lifecycle field and a deleted one reads
\* as Cancelled, for every cap.
THEOREM LifecycleMatches == Spec => []LifecycleMatchesType
  BY IInvInvariant, IInvMatches, PTL

\* A disciplined orb in Done, Failed or Cancelled has its completion stamp.
THEOREM FinishedStamped == Spec => []FinishedIsStamped
<1>1. IInv => FinishedIsStamped
  BY DEF IInv
<1> QED BY <1>1, IInvInvariant, PTL

\* No epic or feature that was never deferred works off an unreviewed plan.
THEOREM WorkIsReviewed == Spec => []ReviewedBeforeWork
<1>1. IInv => ReviewedBeforeWork
  BY DEF IInv
<1> QED BY <1>1, IInvInvariant, PTL

-----------------------------------------------------------------------------
(* Deletion is final, for callers of every kind.                           *)

\* No call takes away all three marks of deletion at once.
LEMMA StepKeepsTombstone ==
  TypeOK /\ [Next]_vars /\ IsTombstoned(orb) => IsTombstoned(orb')
<1> SUFFICES ASSUME TypeOK, [Next]_vars, IsTombstoned(orb)
             PROVE  IsTombstoned(orb')
  OBVIOUS
<1>0. orb \in Orb
  BY DEF TypeOK
<1>1. ASSUME NEW s \in OrbStatus, CallSetStatus(s) PROVE IsTombstoned(orb')
  <2>1. /\ orb'.deleted = orb.deleted
        /\ orb'.phase = orb.phase
        /\ orb'.status = s
    BY <1>0, <1>1, SetStatusFields DEF CallSetStatus, Become
  <2>2. orb.status = "Tombstone" => s = "Tombstone"
    BY <1>1 DEF CallSetStatus, StatusTransitionAllowed, StatusMoves, None
  <2> QED BY <2>1, <2>2 DEF IsTombstoned
<1>2. ASSUME NEW p \in OrbPhase, CallSetPhase(p) PROVE IsTombstoned(orb')
  <2>1. /\ orb'.deleted = orb.deleted
        /\ orb'.status = orb.status
        /\ orb'.phase = p
    BY <1>0, <1>2, SetPhaseFields DEF CallSetPhase, Become
  <2>2. orb.phase = "Tombstone" => p = "Tombstone"
    BY <1>2 DEF CallSetPhase, PhaseTransitionAllowed, PhaseMoves, Terminal,
                Closing, None
  <2> QED BY <2>1, <2>2 DEF IsTombstoned
<1>3. CASE CallDefer
  <2>1. orb' = Defer(orb) /\ CanDefer(orb)
    BY <1>3 DEF CallDefer, Become
  <2>2. CASE orb.status # None
    <3>1. orb' = [orb EXCEPT !.status = "Deferred"]
      BY <2>1, <2>2 DEF Defer
    <3>2. orb.status # "Tombstone"
      BY <2>1, <2>2 DEF CanDefer
    <3> QED BY <1>0, <3>1, <3>2 DEF IsTombstoned, Orb
  <2>3. CASE orb.status = None
    <3>1. orb' = [orb EXCEPT !.phase = "Deferred"]
      BY <2>1, <2>3 DEF Defer
    <3>2. orb.phase # "Tombstone" /\ orb.status # "Tombstone"
      BY <2>1, <2>3 DEF CanDefer, None
    <3> QED BY <1>0, <3>1, <3>2 DEF IsTombstoned, Orb
  <2> QED BY <2>2, <2>3
<1>4. CASE CallUndefer
  BY <1>0, <1>4 DEF CallUndefer, Become, Undefer, IsTombstoned, Orb
<1>5. CASE CallTombstone
  <2>1. orb' = TombstoneOrb(orb)
    BY <1>5 DEF CallTombstone, Become
  <2> QED BY <1>0, <2>1 DEF TombstoneOrb, IsTombstoned, Orb
<1>6. ASSUME NEW scope \in ReviseScope, CallBeginRevision(scope)
      PROVE  IsTombstoned(orb')
  <2> DEFINE t == RevisionTarget(orb, scope)
  <2>1. CanBeginRevision(orb, scope) /\ orb' = BeginRevision(orb, scope)
    BY <1>6 DEF CallBeginRevision, Become
  <2>2. t \in {"Executing", "Refining", "Active"}
    BY <1>0, <1>6 DEF RevisionTarget, ReviseScope, Orb
  <2>3. /\ orb'.deleted = orb.deleted
        /\ orb.usesPhase => orb'.status = orb.status
        /\ ~ orb.usesPhase => orb'.phase = orb.phase
    BY <1>0, <2>1, BeginRevisionFields, Zenon
  <2>4. CASE orb.usesPhase
    <3>1. PhaseTransitionAllowed(orb.phase, t)
      BY <2>1, <2>4 DEF CanBeginRevision
    <3>2. orb.phase # "Tombstone"
      <4> HIDE DEF t
      <4> QED BY <2>2, <3>1 DEF PhaseTransitionAllowed, PhaseMoves
    <3> QED BY <2>3, <2>4, <3>2 DEF IsTombstoned
  <2>5. CASE ~ orb.usesPhase
    <3>1. StatusTransitionAllowed(orb.status, t)
      BY <2>1, <2>5 DEF CanBeginRevision
    <3>2. orb.status # "Tombstone"
      <4> HIDE DEF t
      <4> QED BY <2>2, <3>1 DEF StatusTransitionAllowed, StatusMoves
    <3> QED BY <2>3, <2>5, <3>2 DEF IsTombstoned
  <2> QED BY <2>4, <2>5
<1>7. CASE UNCHANGED vars
  BY <1>7 DEF vars, IsTombstoned
<1> QED BY <1>1, <1>2, <1>3, <1>4, <1>5, <1>6, <1>7 DEF Next

\* No sequence of calls, disciplined or not, brings a deleted orb back.
THEOREM DeletionIsFinal == Spec => TombstoneFinal
<1>1. TypeOK /\ [Next]_vars => [IsTombstoned(orb) => IsTombstoned(orb')]_vars
  BY StepKeepsTombstone
<1> QED BY <1>1, TypeCorrect, PTL DEF Spec, TombstoneFinal

\* Only soft deletion leaves Failed or Cancelled.
THEOREM GivingUpIsFinal == Spec => GivenUpIsFinal
<1> DEFINE A == disciplined /\ disciplined' /\ State(orb) \in {"Failed", "Cancelled"}
                  => State(orb') \in {State(orb), "Tombstone"}
<1>1. IInv /\ [Next]_vars => [A]_vars
  <2> SUFFICES ASSUME IInv, Next, disciplined, disciplined',
                      State(orb) \in {"Failed", "Cancelled"}
               PROVE  State(orb') \in {State(orb), "Tombstone"}
    OBVIOUS
  <2>0. orb \in Orb
    BY DEF IInv, TypeOK
  <2>1. /\ orb.usesPhase => orb.status = None /\ State(orb) = orb.phase
        /\ ~ orb.usesPhase => orb.phase = None /\ State(orb) = orb.status
    BY DEF IInv, OneLifecycle, State
  <2>2. ASSUME NEW s \in OrbStatus, CallSetStatus(s)
        PROVE  State(orb') \in {State(orb), "Tombstone"}
    <3>1. ~ orb.usesPhase /\ orb'.status = s
      BY <2>0, <2>2, SetStatusFields DEF CallSetStatus, Become
    <3>2. s \in {orb.status, "Tombstone"} /\ s # None
      BY <2>1, <2>2, <3>1 DEF CallSetStatus, StatusTransitionAllowed,
                              StatusMoves, None, OrbStatus
    <3> QED BY <2>1, <3>1, <3>2 DEF State
  <2>3. ASSUME NEW p \in OrbPhase, CallSetPhase(p)
        PROVE  State(orb') \in {State(orb), "Tombstone"}
    <3>1. orb.usesPhase /\ orb'.phase = p /\ orb'.status = orb.status
      BY <2>0, <2>3, SetPhaseFields DEF CallSetPhase, Become
    <3>2. p \in {orb.phase, "Tombstone"}
      BY <2>1, <2>3, <3>1 DEF CallSetPhase, PhaseTransitionAllowed, PhaseMoves,
                              Terminal, Closing, None
    <3> QED BY <2>1, <3>1, <3>2 DEF State
  <2>4. CASE CallDefer
    BY <2>1, <2>4 DEF CallDefer, CanDefer, State
  <2>5. CASE CallUndefer
    <3>1. orb' = orb
      BY <2>1, <2>5 DEF CallUndefer, Become, Undefer, State, None
    <3> QED BY <3>1
  <2>6. CASE CallTombstone
    <3>1. orb' = TombstoneOrb(orb)
      BY <2>6 DEF CallTombstone, Become
    <3> QED BY <2>0, <3>1 DEF TombstoneOrb, State, None, Orb
  <2>7. ASSUME NEW scope \in ReviseScope, CallBeginRevision(scope)
        PROVE  State(orb') \in {State(orb), "Tombstone"}
    <3>1. RevisionTarget(orb, scope) \in {"Executing", "Refining", "Active"}
      BY <2>0, <2>7 DEF RevisionTarget, ReviseScope, Orb
    <3> QED BY <2>1, <2>7, <3>1
            DEF CallBeginRevision, CanBeginRevision, StatusTransitionAllowed,
                StatusMoves, PhaseTransitionAllowed, PhaseMoves
  <2> QED BY <2>2, <2>3, <2>4, <2>5, <2>6, <2>7 DEF Next
<1> QED BY <1>1, IInvInvariant, PTL DEF Spec, GivenUpIsFinal
=============================================================================
