--------------------------- MODULE OrbStore_proofs ---------------------------
(***************************************************************************)
(* Proofs about OrbStore, for any processes, ids and new orbs and without  *)
(* the bounds on lines and failures that TLC needs.  The inductive         *)
(* invariant IInv adds to the properties what a process knows of the line  *)
(* it is about to append, and how many losses the failures so far allow.   *)
(***************************************************************************)
EXTENDS OrbStore, SequenceTheorems, FiniteSetTheorems, TLAPS

Text == Line \cup {Bad}

Bads(s) == {i \in DOMAIN s : s[i] = Bad}
Sounds(s) == {i \in DOMAIN s : s[i] # Bad}

\* A line about to be appended is one legal edit away from the line it was read
\* from, should that line still parse; and that line was not a deletion.
HeldIsEdit ==
  \A p \in Proc :
    held[p] # Bad =>
      /\ TypedLifecycle(held[p].orb)
      /\ base[p] # 0 =>
           /\ base[p] \in DOMAIN lines
           /\ lines[base[p]] # Bad =>
                /\ lines[base[p]].id = held[p].id
                /\ ~ IsTombstoned(lines[base[p]].orb)
                /\ held[p].orb \in Edits(lines[base[p]].orb)

\* The losses allowed by the failures so far; an end without its newline is a
\* loss (of its own line or of the next) not yet suffered.
Slack ==
  /\ Cardinality(Bads(lines)) <= fails
  /\ Cardinality(Sounds(lines)) >= acked - fails
  /\ open /\ lines[Len(lines)] = Bad =>
       Cardinality(Sounds(lines)) >= acked - fails + 1
  /\ open /\ lines[Len(lines)] # Bad =>
       /\ Cardinality(Bads(lines)) <= fails - 1
       /\ Cardinality(Sounds(lines)) >= acked - fails + 2

IInv == TypeOK /\ HeldIsEdit /\ HistoryIsLegal /\ DeletedStaysDeleted /\ Slack

-----------------------------------------------------------------------------
(* What the operators of OrbRecord do to each field.                       *)

\* The fields a status change writes, and those it leaves alone.
LEMMA SetStatusFields ==
  ASSUME NEW o \in Orb, NEW s \in OrbStatus
  PROVE  /\ SetStatus(o, s) \in Orb
         /\ SetStatus(o, s).status = s
         /\ SetStatus(o, s).closed = (o.closed \/ s \in Closing)
         /\ SetStatus(o, s).usesPhase = o.usesPhase
         /\ SetStatus(o, s).phase = o.phase
         /\ SetStatus(o, s).deleted = o.deleted
         /\ SetStatus(o, s).revisions = o.revisions
  BY DEF SetStatus, Orb

\* The fields a phase change writes, and those it leaves alone.
LEMMA SetPhaseFields ==
  ASSUME NEW o \in Orb, NEW p \in OrbPhase
  PROVE  /\ SetPhase(o, p) \in Orb
         /\ SetPhase(o, p).phase = p
         /\ SetPhase(o, p).closed = (o.closed \/ p \in Closing)
         /\ SetPhase(o, p).usesPhase = o.usesPhase
         /\ SetPhase(o, p).status = o.status
         /\ SetPhase(o, p).deleted = o.deleted
         /\ SetPhase(o, p).revisions = o.revisions
  BY DEF SetPhase, Orb

\* Deferral, its undoing and soft deletion stay inside the type.
LEMMA MutatorTypes ==
  ASSUME NEW o \in Orb
  PROVE  Defer(o) \in Orb /\ Undefer(o) \in Orb /\ TombstoneOrb(o) \in Orb
<1>1. Defer(o) \in Orb
  BY DEF Defer, Orb, OrbStatus, OrbPhase
<1>2. Undefer(o) \in Orb
  BY DEF Undefer, Orb, OrbStatus, OrbPhase
<1>3. TombstoneOrb(o) \in Orb
  BY DEF TombstoneOrb, Orb, OrbStatus, OrbPhase
<1> QED BY <1>1, <1>2, <1>3

\* What the constructors build.
LEMMA NewOrbFields ==
  ASSUME NEW u \in BOOLEAN, NEW h \in BOOLEAN, NEW d \in BOOLEAN
  PROVE  LET o == NewOrb(u, h, d)
         IN  /\ o \in Orb
             /\ o.usesPhase = u
             /\ u => o.status = None /\ o.phase \in {"Draft", "Pending"}
             /\ ~ u => o.phase = None /\ o.status \in {"Draft", "Pending"}
             /\ o.closed = FALSE
             /\ o.deleted = FALSE
<1>1. 0 \in 0 .. MaxRevisions
  BY MaxRevisionsAssumption
<1>2. CASE u
  BY <1>1, <1>2 DEF NewOrb, Orb, OrbStatus, OrbPhase
<1>3. CASE ~ u
  BY <1>1, <1>3 DEF NewOrb, Orb, OrbStatus, OrbPhase
<1> QED BY <1>2, <1>3

-----------------------------------------------------------------------------
(* The file.                                                               *)

\* t is s with line l written at its end, which is open or not.
Grown(s, t, torn, l) ==
  /\ s \in Seq(Text) /\ t \in Seq(Text) /\ t # <<>>
  /\ DOMAIN s = 1 .. Len(s) /\ Len(s) \in Nat
  /\ DOMAIN t = 1 .. Len(t) /\ Len(t) \in Nat
  /\ ~ torn => /\ Len(t) = Len(s) + 1
               /\ t[Len(s) + 1] = l
               /\ \A i \in 1 .. Len(s) : t[i] = s[i]
  /\ torn => /\ Len(t) = Len(s)
             /\ Len(s) >= 1
             /\ t[Len(s)] = Bad
             /\ \A i \in 1 .. Len(s) - 1 : t[i] = s[i]

\* The end had its newline: the line is added.
LEMMA GrownByAppend ==
  ASSUME NEW s \in Seq(Text), NEW l \in Text
  PROVE  Grown(s, Append(s, l), FALSE, l)
<1> DEFINE t == Append(s, l)
<1>1. Len(s) \in Nat /\ DOMAIN s = 1 .. Len(s)
  BY LenProperties
<1>2. /\ t \in Seq(Text)
      /\ Len(t) = Len(s) + 1
      /\ t[Len(s) + 1] = l
      /\ \A i \in 1 .. Len(s) : t[i] = s[i]
  BY <1>1
<1> HIDE DEF t
<1>3. DOMAIN t = 1 .. Len(t)
  BY <1>2, LenProperties
<1>4. t # <<>>
  BY <1>1, <1>2, EmptySeq
<1>5. Len(t) \in Nat
  BY <1>1, <1>2
<1>6. Grown(s, t, FALSE, l)
  BY <1>1, <1>2, <1>3, <1>4, <1>5 DEF Grown
<1> QED BY <1>6 DEF t

\* The end had none: the two lines become one that does not parse.
LEMMA GrownBySpoiling ==
  ASSUME NEW s \in Seq(Text), s # <<>>, NEW l \in Text
  PROVE  Grown(s, [s EXCEPT ![Len(s)] = Bad], TRUE, l)
<1> DEFINE t == [s EXCEPT ![Len(s)] = Bad]
<1>1. Len(s) \in Nat /\ DOMAIN s = 1 .. Len(s) /\ Len(s) >= 1
  BY LenProperties, EmptySeq
<1>2. Len(s) \in 1 .. Len(s) /\ Bad \in Text
  BY <1>1 DEF Text
<1>3. /\ t \in Seq(Text)
      /\ Len(t) = Len(s)
      /\ \A j \in 1 .. Len(s) : t[j] = IF j = Len(s) THEN Bad ELSE s[j]
  BY <1>2, ExceptSeq
<1> HIDE DEF t
<1>4. DOMAIN t = 1 .. Len(t)
  BY <1>3, LenProperties
<1>5. t # <<>>
  BY <1>1, <1>3, EmptySeq
<1>6. t[Len(s)] = Bad
  BY <1>2, <1>3
<1>7. ASSUME NEW i \in 1 .. Len(s) - 1 PROVE t[i] = s[i]
  <2> DEFINE n == Len(s)
  <2>1. n \in Nat /\ i \in 1 .. n - 1
    BY <1>1, <1>7
  <2> HIDE DEF n
  <2>2. i \in 1 .. n /\ i # n
    BY <2>1
  <2> QED BY <1>3, <2>2 DEF n
<1>8. Grown(s, t, TRUE, l)
  BY <1>1, <1>3, <1>4, <1>5, <1>6, <1>7 DEF Grown
<1> QED BY <1>8 DEF t

\* Writing a line makes the file grow in this sense.
LEMMA ExtendedGrows ==
  ASSUME TypeOK, NEW l \in Text, lines' = Extended(l)
  PROVE  Grown(lines, lines', open, l)
<1>1. lines \in Seq(Text) /\ open \in BOOLEAN /\ (open => lines # <<>>)
  BY DEF TypeOK, Text
<1>2. CASE open
  <2>1. lines' = [lines EXCEPT ![Len(lines)] = Bad] /\ open = TRUE
    BY <1>1, <1>2 DEF Extended
  <2>2. Grown(lines, [lines EXCEPT ![Len(lines)] = Bad], TRUE, l)
    BY <1>1, <1>2, GrownBySpoiling
  <2> QED BY <2>1, <2>2
<1>3. CASE ~ open
  <2>1. lines' = Append(lines, l) /\ open = FALSE
    BY <1>1, <1>3 DEF Extended
  <2>2. Grown(lines, Append(lines, l), FALSE, l)
    BY <1>1, GrownByAppend
  <2> QED BY <2>1, <2>2
<1> QED BY <1>2, <1>3

\* A line that parses afterwards was there before or is the one written, and
\* only an open end changes.
LEMMA GrownLines ==
  ASSUME NEW s, NEW t, NEW torn, NEW l, Grown(s, t, torn, l)
  PROVE  /\ DOMAIN s \subseteq DOMAIN t
         /\ \A i \in DOMAIN t :
              t[i] # Bad => \/ i \in DOMAIN s /\ t[i] = s[i]
                            \/ i = Len(s) + 1 /\ t[i] = l
         /\ \A i \in DOMAIN s : t[i] = s[i] \/ (torn /\ i = Len(s) /\ t[i] = Bad)
         /\ torn => Len(t) = Len(s)
<1> DEFINE n == Len(s)
<1>1. CASE torn
  BY <1>1 DEF Grown
<1>2. CASE ~ torn
  <2>1. /\ n \in Nat /\ DOMAIN s = 1 .. n /\ DOMAIN t = 1 .. n + 1
        /\ t[n + 1] = l
        /\ \A i \in 1 .. n : t[i] = s[i]
    BY <1>2 DEF Grown
  <2> HIDE DEF n
  <2>2. 1 .. n + 1 = (1 .. n) \cup {n + 1}
    BY <2>1
  <2> QED BY <1>2, <2>1, <2>2 DEF n
<1> QED BY <1>1, <1>2

-----------------------------------------------------------------------------
(* The edits.                                                              *)

\* Whatever a command makes of an orb is an orb of the same kind of lifecycle.
LEMMA EditsTyped ==
  ASSUME NEW o \in Orb, TypedLifecycle(o)
  PROVE  \A x \in Edits(o) : x \in Orb /\ TypedLifecycle(x)
<1>1. ASSUME NEW x \in ApplyLifecycle(o) PROVE x \in Orb /\ TypedLifecycle(x)
  <2>1. CASE o.usesPhase
    <3>1. PICK p \in NamedPhase : x = SetPhase(o, p)
      BY <1>1, <2>1 DEF ApplyLifecycle
    <3>2. p \in OrbPhase /\ p # None
      BY DEF NamedPhase, OrbPhase, None
    <3>3. /\ x \in Orb /\ x.phase = p
          /\ x.usesPhase = o.usesPhase /\ x.status = o.status
      BY <3>1, <3>2, SetPhaseFields
    <3> QED BY <2>1, <3>2, <3>3 DEF TypedLifecycle
  <2>2. CASE ~ o.usesPhase
    <3>1. PICK s \in OrbStatus : x = SetStatus(o, s)
      BY <1>1, <2>2 DEF ApplyLifecycle
    <3>2. s # None
      BY DEF OrbStatus, None
    <3>3. /\ x \in Orb /\ x.status = s
          /\ x.usesPhase = o.usesPhase /\ x.phase = o.phase
      BY <3>1, SetStatusFields
    <3> QED BY <2>2, <3>2, <3>3 DEF TypedLifecycle
  <2> QED BY <2>1, <2>2
<1>2. ASSUME NEW y \in Orb, TypedLifecycle(y)
      PROVE  /\ Defer(y) \in Orb /\ TypedLifecycle(Defer(y))
             /\ Undefer(y) \in Orb /\ TypedLifecycle(Undefer(y))
             /\ TombstoneOrb(y) \in Orb /\ TypedLifecycle(TombstoneOrb(y))
  <2>1. Defer(y) \in Orb /\ Undefer(y) \in Orb /\ TombstoneOrb(y) \in Orb
    BY MutatorTypes
  <2>2. CASE y.usesPhase
    <3>1. y.status = None /\ y.phase # None
      BY <1>2, <2>2 DEF TypedLifecycle
    <3>2. TypedLifecycle(Defer(y))
      BY <2>2, <3>1 DEF Defer, TypedLifecycle, Orb, None
    <3>3. TypedLifecycle(Undefer(y))
      BY <2>2, <3>1 DEF Undefer, TypedLifecycle, Orb, None
    <3>4. TypedLifecycle(TombstoneOrb(y))
      BY <2>2, <3>1 DEF TombstoneOrb, TypedLifecycle, Orb, None
    <3> QED BY <2>1, <3>2, <3>3, <3>4
  <2>3. CASE ~ y.usesPhase
    <3>1. y.status # None /\ y.phase = None
      BY <1>2, <2>3 DEF TypedLifecycle
    <3>2. TypedLifecycle(Defer(y))
      BY <2>3, <3>1 DEF Defer, TypedLifecycle, Orb, None
    <3>3. TypedLifecycle(Undefer(y))
      BY <2>3, <3>1 DEF Undefer, TypedLifecycle, Orb, None
    <3>4. TypedLifecycle(TombstoneOrb(y))
      BY <2>3, <3>1 DEF TombstoneOrb, TypedLifecycle, Orb, None
    <3> QED BY <2>1, <3>2, <3>3, <3>4
  <2> QED BY <2>2, <2>3
<1> DEFINE set == {o} \cup ApplyLifecycle(o)
<1>3. \A x \in set : x \in Orb /\ TypedLifecycle(x)
  BY <1>1
<1>4. Edits(o) = set \cup {Defer(x) : x \in {y \in set : CanDefer(y)}}
                     \cup {Undefer(x) : x \in set} \cup {TombstoneOrb(o)}
  BY DEF Edits, Updates
<1> HIDE DEF set
<1> QED BY <1>2, <1>3, <1>4

-----------------------------------------------------------------------------
(* Counting the lines that parse and those that do not.                    *)

\* What writing one line does to the two counts.
LEMMA GrownCounts ==
  ASSUME NEW s, NEW t, NEW torn, NEW l, Grown(s, t, torn, l)
  PROVE  /\ Cardinality(Bads(s)) \in Nat /\ Cardinality(Sounds(s)) \in Nat
         /\ ~ torn /\ l = Bad =>
              /\ Cardinality(Bads(t)) = Cardinality(Bads(s)) + 1
              /\ Cardinality(Sounds(t)) = Cardinality(Sounds(s))
         /\ ~ torn /\ l # Bad =>
              /\ Cardinality(Bads(t)) = Cardinality(Bads(s))
              /\ Cardinality(Sounds(t)) = Cardinality(Sounds(s)) + 1
         /\ torn /\ s[Len(s)] = Bad =>
              /\ Cardinality(Bads(t)) = Cardinality(Bads(s))
              /\ Cardinality(Sounds(t)) = Cardinality(Sounds(s))
         /\ torn /\ s[Len(s)] # Bad =>
              /\ Cardinality(Bads(t)) = Cardinality(Bads(s)) + 1
              /\ Cardinality(Sounds(t)) = Cardinality(Sounds(s)) - 1
         /\ t[Len(t)] = IF torn THEN Bad ELSE l
<1> DEFINE n == Len(s)
<1>1. n \in Nat /\ DOMAIN s = 1 .. n
  BY DEF Grown
<1>2. /\ IsFiniteSet(Bads(s)) /\ Cardinality(Bads(s)) \in Nat
      /\ IsFiniteSet(Sounds(s)) /\ Cardinality(Sounds(s)) \in Nat
  <2>1. IsFiniteSet(1 .. n)
    BY <1>1, FS_Interval
  <2>2. Bads(s) \in SUBSET (1 .. n) /\ Sounds(s) \in SUBSET (1 .. n)
    BY <1>1 DEF Bads, Sounds
  <2>3. IsFiniteSet(Bads(s)) /\ IsFiniteSet(Sounds(s))
    BY <2>1, <2>2, FS_Subset
  <2> QED BY <2>3, FS_CardinalityType
<1>3. CASE ~ torn
  <2>1. /\ Len(t) = n + 1 /\ DOMAIN t = 1 .. n + 1
        /\ t[n + 1] = l
        /\ \A i \in 1 .. n : t[i] = s[i]
    BY <1>3 DEF Grown
  <2> HIDE DEF n
  <2>2. 1 .. n + 1 = (1 .. n) \cup {n + 1} /\ n + 1 \notin 1 .. n
    BY <1>1
  <2>3. CASE l = Bad
    <3>1. Bads(t) = Bads(s) \cup {n + 1} /\ Sounds(t) = Sounds(s)
      BY <1>1, <2>1, <2>2, <2>3 DEF Bads, Sounds
    <3>2. n + 1 \notin Bads(s)
      BY <1>1, <2>2 DEF Bads
    <3>3. Cardinality(Bads(t)) = Cardinality(Bads(s)) + 1
      BY <3>1, <3>2, <1>2, FS_AddElement
    <3> QED BY <1>2, <1>3, <2>1, <2>3, <3>1, <3>3
  <2>4. CASE l # Bad
    <3>1. Sounds(t) = Sounds(s) \cup {n + 1} /\ Bads(t) = Bads(s)
      BY <1>1, <2>1, <2>2, <2>4 DEF Bads, Sounds
    <3>2. n + 1 \notin Sounds(s)
      BY <1>1, <2>2 DEF Sounds
    <3>3. Cardinality(Sounds(t)) = Cardinality(Sounds(s)) + 1
      BY <3>1, <3>2, <1>2, FS_AddElement
    <3> QED BY <1>2, <1>3, <2>1, <2>4, <3>1, <3>3
  <2> QED BY <2>3, <2>4
<1>4. CASE torn
  <2>1. /\ Len(t) = n /\ DOMAIN t = 1 .. n /\ n >= 1
        /\ t[n] = Bad
        /\ \A i \in 1 .. n - 1 : t[i] = s[i]
    BY <1>4 DEF Grown
  <2> HIDE DEF n
  <2>2. 1 .. n = (1 .. n - 1) \cup {n} /\ n \in 1 .. n /\ n \notin 1 .. n - 1
    BY <1>1, <2>1
  <2>3. CASE s[n] = Bad
    <3>1. Bads(t) = Bads(s) /\ Sounds(t) = Sounds(s)
      BY <1>1, <2>1, <2>2, <2>3 DEF Bads, Sounds
    <3> QED BY <1>2, <1>4, <2>1, <2>3, <3>1 DEF n
  <2>4. CASE s[n] # Bad
    <3>1. Bads(t) = Bads(s) \cup {n} /\ Sounds(t) = Sounds(s) \ {n}
      BY <1>1, <2>1, <2>2, <2>4 DEF Bads, Sounds
    <3>2. n \notin Bads(s) /\ n \in Sounds(s)
      BY <1>1, <2>2, <2>4 DEF Bads, Sounds
    <3>3. Cardinality(Bads(t)) = Cardinality(Bads(s)) + 1
      BY <3>1, <3>2, <1>2, FS_AddElement
    <3>4. Cardinality(Sounds(t)) = Cardinality(Sounds(s)) - 1
      BY <3>1, <3>2, <1>2, FS_RemoveElement
    <3> QED BY <1>2, <1>4, <2>1, <2>4, <3>3, <3>4 DEF n
  <2> QED BY <2>3, <2>4 DEF n
<1> QED BY <1>3, <1>4

-----------------------------------------------------------------------------
(* The steps.                                                              *)

\* Nothing has been written and nobody holds anything.
LEMMA InitIInv == Init => IInv
<1> SUFFICES ASSUME Init PROVE IInv
  OBVIOUS
<1>1. lines \in Seq(Text) /\ DOMAIN lines = {}
  BY DEF Init
<1>2. TypeOK
  BY <1>1 DEF Init, TypeOK, Text
<1>3. HeldIsEdit
  BY DEF Init, HeldIsEdit
<1>4. HistoryIsLegal /\ DeletedStaysDeleted
  BY <1>1 DEF HistoryIsLegal, DeletedStaysDeleted
<1>5. Slack
  <2>1. Bads(lines) = {} /\ Sounds(lines) = {}
    BY <1>1 DEF Bads, Sounds
  <2>2. Cardinality({}) = 0
    BY FS_EmptySet
  <2>3. Cardinality(Bads(lines)) = 0 /\ Cardinality(Sounds(lines)) = 0
    BY <2>1, <2>2
  <2>4. ~ open /\ fails = 0 /\ acked = 0
    BY DEF Init
  <2> QED BY <2>3, <2>4 DEF Slack
<1> QED BY <1>2, <1>3, <1>4, <1>5 DEF IInv

\* A command that holds a legal edit of the line it read keeps the invariant
\* up to its append.
LEMMA BeginIInv ==
  ASSUME IInv, NEW p \in Proc, NEW line \in Line, NEW from \in Nat,
         Begin(p, line, from),
         TypedLifecycle(line.orb),
         from # 0 => /\ from \in DOMAIN lines
                     /\ lines[from] # Bad
                     /\ lines[from].id = line.id
                     /\ ~ IsTombstoned(lines[from].orb)
                     /\ line.orb \in Edits(lines[from].orb)
  PROVE  IInv'
<1>1. /\ held' = [held EXCEPT ![p] = line]
      /\ base' = [base EXCEPT ![p] = from]
      /\ UNCHANGED <<lines, open, acked, fails, stale>>
  BY DEF Begin
<1>2. held \in [Proc -> Line \cup {Bad}] /\ base \in [Proc -> Nat]
  BY DEF IInv, TypeOK
<1>3. TypeOK'
  BY <1>1, <1>2 DEF IInv, TypeOK, Sound
<1>4. HeldIsEdit'
  <2> SUFFICES ASSUME NEW q \in Proc, held'[q] # Bad
               PROVE  /\ TypedLifecycle(held'[q].orb)
                      /\ base'[q] # 0 =>
                           /\ base'[q] \in DOMAIN lines'
                           /\ lines'[base'[q]] # Bad =>
                                /\ lines'[base'[q]].id = held'[q].id
                                /\ ~ IsTombstoned(lines'[base'[q]].orb)
                                /\ held'[q].orb \in Edits(lines'[base'[q]].orb)
    BY DEF HeldIsEdit
  <2>1. CASE q = p
    BY <1>1, <1>2, <2>1
  <2>2. CASE q # p
    <3>1. held'[q] = held[q] /\ base'[q] = base[q]
      BY <1>1, <1>2, <2>2
    <3> QED BY <1>1, <3>1 DEF IInv, HeldIsEdit
  <2> QED BY <2>1, <2>2
<1>5. (HistoryIsLegal /\ DeletedStaysDeleted /\ Slack)'
  BY <1>1 DEF IInv, HistoryIsLegal, DeletedStaysDeleted, Slack, SameOrb, Sound,
              Bads, Sounds
<1> QED BY <1>3, <1>4, <1>5 DEF IInv

\* Each command begins with a new orb or with a legal edit of the line it read.
LEMMA CommandIInv ==
  ASSUME IInv, NEW p \in Proc,
         \/ \E id \in OrbId, o \in NewOrbs : Create(p, id, o)
         \/ \E i \in DOMAIN lines : Update(p, i) \/ Delete(p, i)
  PROVE  IInv'
<1>1. ASSUME NEW id \in OrbId, NEW o \in NewOrbs, Create(p, id, o) PROVE IInv'
  <2> DEFINE line == [id |-> id, orb |-> o]
  <2>1. PICK u \in BOOLEAN, h \in BOOLEAN, d \in BOOLEAN : o = NewOrb(u, h, d)
    BY NewOrbsAssumption
  <2>2. /\ o \in Orb /\ o.usesPhase = u
        /\ u => o.status = None /\ o.phase \in {"Draft", "Pending"}
        /\ ~ u => o.phase = None /\ o.status \in {"Draft", "Pending"}
    BY <2>1, NewOrbFields
  <2>9. TypedLifecycle(o)
    BY <2>2 DEF TypedLifecycle, None
  <2>3. line \in Line /\ line.orb = o
    BY <2>2 DEF Line
  <2>4. Begin(p, line, 0)
    BY <1>1 DEF Create
  <2> HIDE DEF line
  <2> QED BY <2>9, <2>3, <2>4, BeginIInv
<1>2. ASSUME NEW i \in DOMAIN lines, Loaded(i),
             NEW x \in Edits(lines[i].orb), Begin(p, [id |-> lines[i].id, orb |-> x], i)
      PROVE  IInv'
  <2> DEFINE line == [id |-> lines[i].id, orb |-> x]
  <2>1. /\ lines[i] \in Line /\ lines[i] # Bad
        /\ TypedLifecycle(lines[i].orb)
        /\ i \in Nat
    BY <1>2, LenProperties DEF IInv, TypeOK, Sound, Loaded, Readable
  <2>2. lines[i].id \in OrbId /\ lines[i].orb \in Orb
    BY <2>1 DEF Line
  <2>3. x \in Orb /\ TypedLifecycle(x)
    BY <1>2, <2>1, <2>2, EditsTyped
  <2>4. line \in Line /\ line.id = lines[i].id /\ line.orb = x
    BY <2>2, <2>3 DEF Line
  <2>5. ~ IsTombstoned(lines[i].orb)
    BY <1>2 DEF Loaded
  <2>6. Begin(p, line, i)
    BY <1>2
  <2> HIDE DEF line
  <2> QED BY <1>2, <2>1, <2>3, <2>4, <2>5, <2>6, BeginIInv
<1>3. ASSUME NEW i \in DOMAIN lines, Update(p, i) PROVE IInv'
  <2>1. PICK x \in Updates(lines[i].orb) : Begin(p, [id |-> lines[i].id, orb |-> x], i)
    BY <1>3 DEF Update
  <2>2. x \in Edits(lines[i].orb)
    BY <2>1 DEF Edits
  <2> QED BY <1>2, <1>3, <2>1, <2>2 DEF Update
<1>4. ASSUME NEW i \in DOMAIN lines, Delete(p, i) PROVE IInv'
  <2>1. TombstoneOrb(lines[i].orb) \in Edits(lines[i].orb)
    BY DEF Edits
  <2> QED BY <1>2, <1>4, <2>1 DEF Delete
<1> QED BY <1>1, <1>3, <1>4

\* Writing a line keeps the histories legal and the deletions final, when the
\* line does not parse or is what a process held, made from the latest of its
\* id or else marked stale.
LEMMA WriteIsLegal ==
  ASSUME IInv, NEW p \in Proc, held[p] # Bad,
         NEW l \in {held[p], Bad},
         Grown(lines, lines', open, l),
         stale \subseteq stale',
         l # Bad => Fresh(p) \/ held[p].id \in stale'
  PROVE  HistoryIsLegal' /\ DeletedStaysDeleted'
<1> DEFINE n == Len(lines)
<1>1. /\ n \in Nat /\ DOMAIN lines = 1 .. n
      /\ DOMAIN lines' = 1 .. Len(lines') /\ Len(lines') \in Nat
  BY DEF Grown
<1>2. /\ DOMAIN lines \subseteq DOMAIN lines'
      /\ \A i \in DOMAIN lines' :
           lines'[i] # Bad => \/ i \in DOMAIN lines /\ lines'[i] = lines[i]
                              \/ i = n + 1 /\ lines'[i] = l
      /\ \A i \in DOMAIN lines :
           lines'[i] = lines[i] \/ (open /\ i = n /\ lines'[i] = Bad)
  <2>1. /\ DOMAIN lines \subseteq DOMAIN lines'
        /\ \A i \in DOMAIN lines' :
             lines'[i] # Bad => \/ i \in DOMAIN lines /\ lines'[i] = lines[i]
                                \/ i = Len(lines) + 1 /\ lines'[i] = l
        /\ \A i \in DOMAIN lines :
             lines'[i] = lines[i] \/ (open /\ i = Len(lines) /\ lines'[i] = Bad)
    BY GrownLines
  <2> QED BY <2>1
<1> HIDE DEF n
\* A line that is not the last is as it was; so is one that still parses.
<1>3. ASSUME NEW i \in DOMAIN lines, lines'[i] # Bad \/ i < n
      PROVE  lines'[i] = lines[i]
  BY <1>1, <1>2, <1>3
<1>4. ASSUME NEW i \in DOMAIN lines', NEW j \in DOMAIN lines, i < j
      PROVE  i \in DOMAIN lines /\ lines'[i] = lines[i]
  <2>1. i \in 1 .. n /\ i < n
    BY <1>1, <1>4
  <2> QED BY <1>1, <1>3, <2>1
\* The written line j follows line i of the same id, the last one before it.
<1>5. ASSUME NEW i \in DOMAIN lines', NEW j \in DOMAIN lines',
             i < j, lines'[i] # Bad, lines'[j] # Bad, lines'[i].id = lines'[j].id,
             j \notin DOMAIN lines, lines'[i].id \notin stale'
      PROVE  /\ i \in DOMAIN lines /\ lines'[i] = lines[i]
             /\ j = n + 1 /\ lines'[j] = held[p]
             /\ IsLatest(base[p])
             /\ base[p] \in DOMAIN lines /\ lines[base[p]].id = lines[i].id
             /\ ~ IsTombstoned(lines[base[p]].orb)
             /\ held[p].orb \in Edits(lines[base[p]].orb)
  <2>1. j = n + 1 /\ lines'[j] = l
    BY <1>2, <1>5
  <2>2. l = held[p]
    BY <1>5, <2>1
  <2>3. i # n + 1
    BY <1>1, <1>5, <2>1
  <2>4. i \in DOMAIN lines /\ lines'[i] = lines[i]
    BY <1>2, <1>5, <2>3
  <2>5. Fresh(p)
    BY <1>5, <2>1, <2>2
  <2>6. base[p] # 0 /\ IsLatest(base[p])
    BY <1>5, <2>1, <2>2, <2>4, <2>5 DEF Fresh
  <2>7. /\ base[p] \in DOMAIN lines
        /\ lines[base[p]] # Bad
    BY <2>6 DEF IInv, HeldIsEdit, IsLatest
  <2> QED BY <1>5, <2>1, <2>2, <2>4, <2>6, <2>7 DEF IInv, HeldIsEdit
<1>6. HistoryIsLegal'
  <2> SUFFICES ASSUME NEW i \in DOMAIN lines', NEW j \in DOMAIN lines',
                      i < j, lines'[i] # Bad, lines'[j] # Bad,
                      lines'[i].id = lines'[j].id, lines'[i].id \notin stale',
                      \A k \in i + 1 .. j - 1 :
                        ~ (lines'[i] # Bad /\ lines'[k] # Bad
                             /\ lines'[i].id = lines'[k].id)
               PROVE  lines'[j].orb \in Edits(lines'[i].orb)
    BY DEF HistoryIsLegal, SameOrb, Sound
  <2>0. i \in Nat /\ j \in Nat
    BY <1>1
  <2>1. CASE j \in DOMAIN lines
    <3>1. /\ i \in DOMAIN lines /\ lines'[i] = lines[i]
          /\ lines'[j] = lines[j]
      BY <1>3, <1>4, <2>1
    <3>2. ASSUME NEW k \in i + 1 .. j - 1 PROVE lines'[k] = lines[k]
      <4>1. k \in DOMAIN lines' /\ k < j
        BY <1>1, <2>0, <3>2
      <4> QED BY <1>4, <2>1, <4>1
    <3>3. SameOrb(i, j) /\ lines[i].id \notin stale
      BY <3>1 DEF SameOrb, Sound
    <3>4. \A k \in i + 1 .. j - 1 : ~ SameOrb(i, k)
      BY <3>1, <3>2 DEF SameOrb, Sound
    <3>5. lines[j].orb \in Edits(lines[i].orb)
      BY <2>1, <3>1, <3>3, <3>4 DEF IInv, HistoryIsLegal
    <3> QED BY <3>1, <3>5
  <2>2. CASE j \notin DOMAIN lines
    <3> DEFINE b == base[p]
    <3>1. /\ i \in DOMAIN lines /\ lines'[i] = lines[i]
          /\ j = n + 1 /\ lines'[j] = held[p]
          /\ IsLatest(b)
          /\ b \in DOMAIN lines /\ lines[b].id = lines[i].id
          /\ held[p].orb \in Edits(lines[b].orb)
      BY <1>5, <2>2
    <3> HIDE DEF b
    <3>2. i <= b /\ lines[b] # Bad
      BY <3>1 DEF IsLatest
    <3>3. CASE i < b
      <4>1. b \in i + 1 .. j - 1
        BY <1>1, <2>0, <3>1, <3>3
      <4>2. lines'[b] = Bad
        BY <1>2, <3>1, <3>2, <4>1
      <4>3. j \in DOMAIN lines
        BY <1>1, <1>2, <3>1, <3>2, <4>2 DEF Grown, n
      <4> QED BY <2>2, <4>3
    <3>4. CASE i = b
      BY <3>1, <3>4
    <3> QED BY <1>1, <2>0, <3>1, <3>2, <3>3, <3>4
  <2> QED BY <2>1, <2>2
<1>7. DeletedStaysDeleted'
  <2> SUFFICES ASSUME NEW i \in DOMAIN lines', NEW j \in DOMAIN lines',
                      i < j, lines'[i] # Bad, lines'[j] # Bad,
                      lines'[i].id = lines'[j].id, IsTombstoned(lines'[i].orb),
                      lines'[i].id \notin stale'
               PROVE  FALSE
    BY DEF DeletedStaysDeleted, SameOrb, Sound
  <2>1. CASE j \in DOMAIN lines
    <3>1. /\ i \in DOMAIN lines /\ lines'[i] = lines[i]
          /\ lines'[j] = lines[j]
      BY <1>3, <1>4, <2>1
    <3>2. SameOrb(i, j) /\ IsTombstoned(lines[i].orb)
      BY <3>1 DEF SameOrb, Sound
    <3>3. lines[i].id \in stale
      BY <2>1, <3>1, <3>2 DEF IInv, DeletedStaysDeleted
    <3> QED BY <3>1, <3>3
  <2>2. CASE j \notin DOMAIN lines
    <3> DEFINE b == base[p]
    <3>1. /\ i \in DOMAIN lines /\ lines'[i] = lines[i]
          /\ IsLatest(b)
          /\ b \in DOMAIN lines /\ lines[b].id = lines[i].id
          /\ ~ IsTombstoned(lines[b].orb)
      BY <1>5, <2>2
    <3> HIDE DEF b
    <3>2. i <= b /\ i # b /\ lines[b] # Bad
      BY <3>1 DEF IsLatest
    <3>3. i < b
      BY <1>1, <3>1, <3>2
    <3>4. SameOrb(i, b) /\ IsTombstoned(lines[i].orb)
      BY <3>1, <3>2 DEF SameOrb, Sound
    <3>5. lines[i].id \in stale
      BY <3>1, <3>3, <3>4 DEF IInv, DeletedStaysDeleted
    <3> QED BY <3>1, <3>5
  <2> QED BY <2>1, <2>2
<1> QED BY <1>6, <1>7

\* After a write the types hold, and what the other processes hold is still an
\* edit of the line they read, if that line still parses.
LEMMA WriteKeepsTypes ==
  ASSUME IInv, NEW p \in Proc, held[p] # Bad,
         NEW l \in {held[p], Bad},
         Grown(lines, lines', open, l), Finish(p),
         open' \in BOOLEAN, acked' \in Nat, fails' \in Nat,
         stale' \in SUBSET OrbId
  PROVE  TypeOK' /\ HeldIsEdit'
<1>1. /\ DOMAIN lines \subseteq DOMAIN lines'
      /\ \A i \in DOMAIN lines' :
           lines'[i] # Bad => \/ i \in DOMAIN lines /\ lines'[i] = lines[i]
                              \/ i = Len(lines) + 1 /\ lines'[i] = l
      /\ \A i \in DOMAIN lines :
           lines'[i] = lines[i] \/ (open /\ i = Len(lines) /\ lines'[i] = Bad)
  BY GrownLines
<1>2. /\ held \in [Proc -> Line \cup {Bad}] /\ base \in [Proc -> Nat]
      /\ held' = [held EXCEPT ![p] = Bad]
      /\ base' = [base EXCEPT ![p] = 0]
  BY DEF IInv, TypeOK, Finish
<1>3. TypeOK'
  <2>1. lines' \in Seq(Line \cup {Bad}) /\ lines' # <<>>
    BY DEF Grown, Text
  <2>2. held' \in [Proc -> Line \cup {Bad}] /\ base' \in [Proc -> Nat]
    BY <1>2
  <2>3. ASSUME NEW i \in DOMAIN lines', lines'[i] # Bad
        PROVE  TypedLifecycle(lines'[i].orb)
    <3>1. CASE i \in DOMAIN lines /\ lines'[i] = lines[i]
      BY <2>3, <3>1 DEF IInv, TypeOK, Sound
    <3>2. CASE lines'[i] = l
      BY <2>3, <3>2 DEF IInv, HeldIsEdit
    <3> QED BY <1>1, <2>3, <3>1, <3>2
  <2> QED BY <2>1, <2>2, <2>3 DEF TypeOK, Sound
<1>4. HeldIsEdit'
  <2> SUFFICES ASSUME NEW q \in Proc, held'[q] # Bad
               PROVE  /\ TypedLifecycle(held'[q].orb)
                      /\ base'[q] # 0 =>
                           /\ base'[q] \in DOMAIN lines'
                           /\ lines'[base'[q]] # Bad =>
                                /\ lines'[base'[q]].id = held'[q].id
                                /\ ~ IsTombstoned(lines'[base'[q]].orb)
                                /\ held'[q].orb \in Edits(lines'[base'[q]].orb)
    BY DEF HeldIsEdit
  <2>1. q # p /\ held'[q] = held[q] /\ base'[q] = base[q]
    BY <1>2
  <2>2. /\ TypedLifecycle(held[q].orb)
        /\ base[q] # 0 =>
             /\ base[q] \in DOMAIN lines
             /\ lines[base[q]] # Bad =>
                  /\ lines[base[q]].id = held[q].id
                  /\ ~ IsTombstoned(lines[base[q]].orb)
                  /\ held[q].orb \in Edits(lines[base[q]].orb)
    BY <2>1 DEF IInv, HeldIsEdit
  <2>3. ASSUME base[q] # 0, lines'[base[q]] # Bad
        PROVE  lines'[base[q]] = lines[base[q]]
    BY <1>1, <2>2, <2>3
  <2> QED BY <1>1, <2>1, <2>2, <2>3
<1> QED BY <1>3, <1>4

\* What a held line is, and what stale gains when it lands.
LEMMA LandGrows ==
  ASSUME IInv, NEW p \in Proc, held[p] # Bad, Land(p)
  PROVE  /\ Grown(lines, lines', open, held[p])
         /\ stale \subseteq stale' /\ stale' \in SUBSET OrbId
         /\ Fresh(p) \/ held[p].id \in stale'
<1>1. TypeOK /\ held[p] \in Line /\ stale \in SUBSET OrbId
  BY DEF IInv, TypeOK
<1>2. held[p] \in Text /\ held[p].id \in OrbId
  BY <1>1 DEF Text, Line
<1>3. Grown(lines, lines', open, held[p])
  BY <1>1, <1>2, ExtendedGrows DEF Land
<1> QED BY <1>1, <1>2, <1>3 DEF Land

\* An append that returns Ok.
LEMMA EndAppendIInv ==
  ASSUME IInv, NEW p \in Proc, EndAppend(p)
  PROVE  IInv'
<1>1. /\ held[p] # Bad /\ Land(p) /\ Finish(p)
      /\ open' = FALSE /\ acked' = acked + 1 /\ fails' = fails
  BY DEF EndAppend
<1>2. acked \in Nat /\ fails \in Nat
  BY DEF IInv, TypeOK
<1>3. /\ Grown(lines, lines', open, held[p])
      /\ stale \subseteq stale' /\ stale' \in SUBSET OrbId
      /\ Fresh(p) \/ held[p].id \in stale'
  BY <1>1, LandGrows
<1>4. TypeOK' /\ HeldIsEdit'
  <2>1. acked' \in Nat /\ fails' \in Nat
    BY <1>1, <1>2
  <2>2. open' \in BOOLEAN /\ held[p] \in {held[p], Bad}
    BY <1>1, Zenon
  <2> QED BY <1>1, <1>3, <2>1, <2>2, WriteKeepsTypes
<1>5. HistoryIsLegal' /\ DeletedStaysDeleted'
  BY <1>1, <1>3, WriteIsLegal
<1>6. Slack'
  <2>1. /\ Cardinality(Bads(lines)) \in Nat /\ Cardinality(Sounds(lines)) \in Nat
        /\ ~ open => /\ Cardinality(Bads(lines')) = Cardinality(Bads(lines))
                     /\ Cardinality(Sounds(lines')) = Cardinality(Sounds(lines)) + 1
        /\ open /\ lines[Len(lines)] = Bad =>
             /\ Cardinality(Bads(lines')) = Cardinality(Bads(lines))
             /\ Cardinality(Sounds(lines')) = Cardinality(Sounds(lines))
        /\ open /\ lines[Len(lines)] # Bad =>
             /\ Cardinality(Bads(lines')) = Cardinality(Bads(lines)) + 1
             /\ Cardinality(Sounds(lines')) = Cardinality(Sounds(lines)) - 1
    BY <1>1, <1>3, GrownCounts
  <2>2. Slack
    BY DEF IInv
  <2>3. /\ Cardinality(Bads(lines')) <= fails
        /\ Cardinality(Sounds(lines')) >= acked + 1 - fails
    BY <1>2, <2>1, <2>2 DEF Slack
  <2>4. /\ Cardinality(Bads(lines')) <= fails'
        /\ Cardinality(Sounds(lines')) >= acked' - fails'
    BY <1>1, <1>2, <2>3
  <2>5. ~ open'
    BY <1>1
  <2> QED BY <2>4, <2>5, Zenon DEF Slack
<1> QED BY <1>4, <1>5, <1>6 DEF IInv

\* A write that is cut short.
LEMMA FailAppendIInv ==
  ASSUME IInv, NEW p \in Proc, FailAppend(p)
  PROVE  IInv'
<1>1. /\ held[p] # Bad /\ Finish(p)
      /\ fails' = fails + 1 /\ acked' = acked
  BY DEF FailAppend
<1>2. /\ acked \in Nat /\ fails \in Nat
      /\ held \in [Proc -> Line \cup {Bad}] /\ base \in [Proc -> Nat]
      /\ stale \in SUBSET OrbId
      /\ Slack
  BY DEF IInv, TypeOK
<1>3. CASE UNCHANGED <<lines, open, stale>>
  <2>1. /\ held' = [held EXCEPT ![p] = Bad]
        /\ base' = [base EXCEPT ![p] = 0]
    BY <1>1 DEF Finish
  <2>2. TypeOK'
    BY <1>1, <1>2, <1>3, <2>1 DEF IInv, TypeOK, Sound
  <2>3. HeldIsEdit'
    BY <1>2, <1>3, <2>1 DEF IInv, HeldIsEdit
  <2>4. (HistoryIsLegal /\ DeletedStaysDeleted)'
    BY <1>3 DEF IInv, HistoryIsLegal, DeletedStaysDeleted, SameOrb, Sound
  <2>5. Slack'
    <3>1. Cardinality(Bads(lines)) \in Nat /\ Cardinality(Sounds(lines)) \in Nat
      <4>1. lines \in Seq(Text) /\ Bad \in Text
        BY DEF IInv, TypeOK, Text
      <4>2. Grown(lines, Append(lines, Bad), FALSE, Bad)
        BY <4>1, GrownByAppend
      <4> QED BY <4>2, GrownCounts
    <3>2. lines' = lines /\ open' = open
      BY <1>3
    <3> QED BY <1>1, <1>2, <3>1, <3>2 DEF Slack
  <2> QED BY <2>2, <2>3, <2>4, <2>5 DEF IInv
\* Part of the line, or all of it but the newline.
<1>4. ASSUME NEW l \in {held[p], Bad}, Grown(lines, lines', open, l), open' = TRUE,
             stale \subseteq stale', stale' \in SUBSET OrbId,
             l # Bad => Fresh(p) \/ held[p].id \in stale'
      PROVE  IInv'
  <2>1. TypeOK' /\ HeldIsEdit'
    BY <1>1, <1>2, <1>4, WriteKeepsTypes
  <2>2. HistoryIsLegal' /\ DeletedStaysDeleted'
    BY <1>1, <1>4, WriteIsLegal
  <2>3. Slack'
    <3>1. /\ Cardinality(Bads(lines)) \in Nat /\ Cardinality(Sounds(lines)) \in Nat
          /\ ~ open /\ l = Bad =>
               /\ Cardinality(Bads(lines')) = Cardinality(Bads(lines)) + 1
               /\ Cardinality(Sounds(lines')) = Cardinality(Sounds(lines))
          /\ ~ open /\ l # Bad =>
               /\ Cardinality(Bads(lines')) = Cardinality(Bads(lines))
               /\ Cardinality(Sounds(lines')) = Cardinality(Sounds(lines)) + 1
          /\ open /\ lines[Len(lines)] = Bad =>
               /\ Cardinality(Bads(lines')) = Cardinality(Bads(lines))
               /\ Cardinality(Sounds(lines')) = Cardinality(Sounds(lines))
          /\ open /\ lines[Len(lines)] # Bad =>
               /\ Cardinality(Bads(lines')) = Cardinality(Bads(lines)) + 1
               /\ Cardinality(Sounds(lines')) = Cardinality(Sounds(lines)) - 1
          /\ lines'[Len(lines')] = IF open THEN Bad ELSE l
      BY <1>4, GrownCounts
    <3>2. /\ Cardinality(Bads(lines')) <= fails + 1
          /\ Cardinality(Sounds(lines')) >= acked - (fails + 1)
      BY <1>2, <3>1 DEF Slack
    <3>3. lines'[Len(lines')] = Bad =>
            Cardinality(Sounds(lines')) >= acked - (fails + 1) + 1
      BY <1>2, <3>1 DEF Slack
    <3>4. lines'[Len(lines')] # Bad =>
            /\ Cardinality(Bads(lines')) <= (fails + 1) - 1
            /\ Cardinality(Sounds(lines')) >= acked - (fails + 1) + 2
      BY <1>2, <3>1 DEF Slack
    <3> QED BY <1>1, <1>4, <3>2, <3>3, <3>4 DEF Slack
  <2> QED BY <2>1, <2>2, <2>3 DEF IInv
<1>5. CASE lines' = Extended(Bad) /\ open' = TRUE /\ UNCHANGED stale
  <2>1. Grown(lines, lines', open, Bad)
    BY <1>5, ExtendedGrows DEF IInv, Text
  <2> QED BY <1>2, <1>4, <1>5, <2>1
<1>6. CASE Land(p) /\ open' = TRUE
  <2>1. /\ Grown(lines, lines', open, held[p])
        /\ stale \subseteq stale' /\ stale' \in SUBSET OrbId
        /\ Fresh(p) \/ held[p].id \in stale'
    BY <1>1, <1>6, LandGrows
  <2> QED BY <1>4, <1>6, <2>1
<1> QED BY <1>3, <1>5, <1>6 DEF FailAppend

\* Every step, and a stutter, keeps the invariant.
LEMMA NextIInv == IInv /\ [Next]_vars => IInv'
<1> SUFFICES ASSUME IInv, [Next]_vars PROVE IInv'
  OBVIOUS
<1>1. ASSUME NEW p \in Proc, NEW id \in OrbId, NEW o \in NewOrbs, Create(p, id, o)
      PROVE  IInv'
  BY <1>1, CommandIInv
<1>2. ASSUME NEW p \in Proc, NEW i \in DOMAIN lines, Update(p, i) \/ Delete(p, i)
      PROVE  IInv'
  BY <1>2, CommandIInv
<1>3. ASSUME NEW p \in Proc, EndAppend(p) PROVE IInv'
  BY <1>3, EndAppendIInv
<1>4. ASSUME NEW p \in Proc, FailAppend(p) PROVE IInv'
  BY <1>4, FailAppendIInv
<1>5. CASE UNCHANGED vars
  BY <1>5 DEF vars, IInv, TypeOK, HeldIsEdit, HistoryIsLegal, DeletedStaysDeleted,
              Slack, SameOrb, Sound, Bads, Sounds
<1> QED BY <1>1, <1>2, <1>3, <1>4, <1>5 DEF Next

\* The inductive invariant holds throughout.
THEOREM InvariantHolds == Spec => []IInv
  BY InitIInv, NextIInv, PTL DEF Spec

-----------------------------------------------------------------------------
\* Whatever is created, updated, deleted, torn and overwritten, every line that
\* parses holds an orb with the lifecycle of its type.
THEOREM TypeCorrect == Spec => []TypeOK
<1>1. IInv => TypeOK
  BY DEF IInv
<1> QED BY <1>1, InvariantHolds, PTL

\* An orb written only from its latest line has a legal history.
THEOREM HistoryLegal == Spec => []HistoryIsLegal
<1>1. IInv => HistoryIsLegal
  BY DEF IInv
<1> QED BY <1>1, InvariantHolds, PTL

\* Nothing follows a deletion but the write of a command that had not seen it.
THEOREM DeletionHolds == Spec => []DeletedStaysDeleted
<1>1. IInv => DeletedStaysDeleted
  BY DEF IInv
<1> QED BY <1>1, InvariantHolds, PTL

\* A failed write costs no more than one line that does not parse and one
\* acknowledged line.
THEOREM LossIsBounded == Spec => []OneLossPerFailure
<1>1. IInv => OneLossPerFailure
  <2>1. /\ {i \in DOMAIN lines : ~ Sound(i)} = Bads(lines)
        /\ {i \in DOMAIN lines : Sound(i)} = Sounds(lines)
    BY DEF Sound, Bads, Sounds
  <2> QED BY <2>1 DEF IInv, Slack, OneLossPerFailure
<1> QED BY <1>1, InvariantHolds, PTL

\* No step alters a line that ends in a newline.
THEOREM FileIsAppendOnly == Spec => AppendOnly
<1> DEFINE A == \A i \in DOMAIN lines :
                  (i < Len(lines) \/ ~ open) =>
                    i \in DOMAIN lines' /\ lines'[i] = lines[i]
<1>1. IInv /\ [Next]_vars => [A]_vars
  <2> SUFFICES ASSUME IInv, [Next]_vars, NEW i \in DOMAIN lines,
                      i < Len(lines) \/ ~ open
               PROVE  i \in DOMAIN lines' /\ lines'[i] = lines[i]
    OBVIOUS
  <2>1. lines \in Seq(Text) /\ i \in Nat
    BY LenProperties DEF IInv, TypeOK, Text
  <2>2. ASSUME NEW l \in Text, lines' = Extended(l)
        PROVE  i \in DOMAIN lines' /\ lines'[i] = lines[i]
    <3>1. Grown(lines, lines', open, l)
      BY <2>2, ExtendedGrows DEF IInv
    <3>2. /\ DOMAIN lines \subseteq DOMAIN lines'
          /\ lines'[i] = lines[i] \/ (open /\ i = Len(lines))
      BY <3>1, GrownLines
    <3>3. Len(lines) \in Nat
      BY <2>1, LenProperties
    <3> QED BY <2>1, <3>2, <3>3
  <2>3. CASE UNCHANGED lines
    BY <2>3
  <2>4. ASSUME NEW p \in Proc, held[p] # Bad, Land(p)
        PROVE  i \in DOMAIN lines' /\ lines'[i] = lines[i]
    <3>1. held[p] \in Text
      BY DEF IInv, TypeOK, Text
    <3> QED BY <2>2, <2>4, <3>1 DEF Land
  <2>5. ASSUME NEW p \in Proc, FailAppend(p)
        PROVE  i \in DOMAIN lines' /\ lines'[i] = lines[i]
    <3>1. Bad \in Text
      BY DEF Text
    <3> QED BY <2>2, <2>3, <2>4, <2>5, <3>1 DEF FailAppend
  <2>6. ASSUME NEW p \in Proc, EndAppend(p)
        PROVE  i \in DOMAIN lines' /\ lines'[i] = lines[i]
    BY <2>4, <2>6 DEF EndAppend
  <2>7. ASSUME NEW p \in Proc, NEW line, NEW from, Begin(p, line, from)
        PROVE  UNCHANGED lines
    BY <2>7 DEF Begin
  <2> QED BY <2>3, <2>5, <2>6, <2>7
          DEF Next, Create, Update, Delete, vars
<1> QED BY <1>1, InvariantHolds, PTL DEF Spec, AppendOnly
=============================================================================
