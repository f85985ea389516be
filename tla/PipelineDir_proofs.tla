-------------------------- MODULE PipelineDir_proofs -------------------------
(***************************************************************************)
(* Proofs about PipelineDir, for any processes, keys and lines, and for    *)
(* all bounds.  The inductive invariant IInv has one part for each of the  *)
(* three sets of irregular events that the properties except.              *)
(***************************************************************************)
EXTENDS PipelineDir, SequenceTheorems, FiniteSetTheorems, TLAPS

Sound == seen \subseteq {"clash", "partial", "recovering"}
Recorded == seen \subseteq {"overlap", "partial", "cut"}
Plain == seen \subseteq {"recovering"}

\* Compactions carry no snapshot, recoveries the one they restore.
JobShape ==
  \A p \in Proc :
    /\ job[p].step \in {"archive", "load", "truncate", "write"} => job[p].snap = 0
    /\ job[p].snap # 0 => job[p].snap \in DOMAIN snaps
    /\ job[p].snap # 0 /\ job[p].step # "copy" => "recovering" \in seen

-----------------------------------------------------------------------------
(* For DamageIsMarked.                                                     *)

OneAtATime == \A p, q \in Proc : Busy(p) /\ Busy(q) => p = q

\* Snapshots are made of a directory without lock, all else happens under it.
LockedWork ==
  \A p \in Proc :
    /\ job[p].step = "copy" => ~ locked
    /\ Busy(p) /\ job[p].step # "copy" => locked

Agrees(f) == View(f, file[f]) = View(f, acked[f])

\* A compaction knows what it takes out of a file before it does.
RewriteAgrees ==
  \A p \in Proc :
    Busy(p) /\ job[p].snap = 0 =>
      /\ \A f \in File : Agrees(f) \/ (job[p].step = "write" /\ f = job[p].at)
      /\ job[p].step \in {"truncate", "write"} =>
           View(job[p].at, job[p].lines) = View(job[p].at, acked[job[p].at])
      /\ job[p].step = "write" => file[job[p].at] = <<>>

DamageInv ==
  Sound => /\ OneAtATime
           /\ LockedWork
           /\ RewriteAgrees
           /\ ~ locked => \A f \in File : Agrees(f)

-----------------------------------------------------------------------------
(* For OldLinesArchived.                                                   *)

InHistory(f, l) == \E a \in archive : a.file = f /\ a.line = l

Kept(f, l) == l \in Elems(file[f]) \/ InHistory(f, l)

\* Between its archiving and its rewriting, the history has all of a file.
HistoryInv ==
  Recorded =>
    /\ \A f \in File : \A i \in DOMAIN acked[f] : Kept(f, acked[f][i])
    /\ \A p \in Proc :
         job[p].step \in {"load", "truncate", "write"} =>
           \A i \in DOMAIN acked[job[p].at] : InHistory(job[p].at, acked[job[p].at][i])

-----------------------------------------------------------------------------
(* For RecoveryRestores.                                                   *)

\* The files that a loop has been through when it is at file f.
Done(f) == CASE f = "orbs" -> {}
             [] f = "deps" -> {"orbs"}
             [] f = "events" -> {"orbs", "deps"}

MarksInPast ==
  \A i \in DOMAIN snaps : \A f \in File : snaps[i].mark[f] <= Len(acked[f])

\* Content c is what readers of f saw at a moment since m lines were acknowledged.
OfMoment(f, c, m) ==
  \E n \in m .. Len(acked[f]) : View(f, c) = View(f, SubSeq(acked[f], 1, n))

CopiesAgree ==
  \A i \in DOMAIN snaps : \A f \in snaps[i].present :
    OfMoment(f, snaps[i].files[f], snaps[i].mark[f])

\* A snapshot lacks only what is still being copied.
CopiesComplete ==
  \A i \in DOMAIN snaps : \A f \in File :
    \/ f \in snaps[i].present
    \/ \E p \in Proc : job[p].step = "copy" /\ job[p].snap = i /\ f \notin Done(job[p].at)

\* What a recovery has restored so far.
RestoredSoFar ==
  \A p \in Proc :
    LET from == snaps[job[p].snap].files
    IN job[p].snap # 0 =>
         /\ job[p].step \in {"restore", "refill"} => \A f \in Done(job[p].at) : file[f] = from[f]
         /\ job[p].step = "refill" => file[job[p].at] = <<>>
         /\ job[p].step = "unlock" => \A f \in File : file[f] = from[f]

RestoreInv == Plain => CopiesAgree /\ CopiesComplete /\ RestoredSoFar

IInv == TypeOK /\ JobShape /\ DamageInv /\ HistoryInv /\ MarksInPast /\ RestoreInv

-----------------------------------------------------------------------------
(* What readers make of a file that grows, or is compacted.                *)

LEMMA TextFacts ==
  /\ Torn \in Text /\ Garbled \in Text
  /\ \A l \in Line : l \in Text /\ l # Torn /\ l # Garbled
  /\ \A l \in Line : l.key \in Key /\ l.removed \in BOOLEAN
BY TextAssumption DEF Text, Line

\* View in words: x stands in s, behind it no line of its key.
LEMMA ViewMember ==
  ASSUME NEW f, NEW s, NEW x
  PROVE  x \in View(f, s) <=>
           /\ x \in Line
           /\ f = "deps" => ~ x.removed
           /\ \E j \in DOMAIN s :
                /\ s[j] = x
                /\ f # "events" =>
                     \A k \in DOMAIN s : s[k] \in Line /\ s[k].key = x.key => k <= j
BY DEF View

\* A new line covers those of its key.
LEMMA ViewOfAppend ==
  ASSUME NEW f, NEW s \in Content, NEW l \in Line
  PROVE  View(f, Append(s, l)) =
           {x \in View(f, s) : f = "events" \/ x.key # l.key}
             \cup (IF f = "deps" /\ l.removed THEN {} ELSE {l})
<1> DEFINE t == Append(s, l)
           n == Len(s)
<1>1. /\ n \in Nat /\ DOMAIN s = 1 .. n /\ DOMAIN t = 1 .. n + 1
      /\ t[n + 1] = l
      /\ \A i \in 1 .. n : t[i] = s[i]
  BY TextFacts, AppendProperties, LenProperties DEF Content
<1> HIDE DEF t, n
<1>2. ASSUME NEW x \in View(f, t), x # l
      PROVE  x \in View(f, s) /\ (f = "events" \/ x.key # l.key)
  <2>1. PICK j \in 1 .. n + 1 :
          /\ t[j] = x
          /\ f # "events" =>
               \A k \in 1 .. n + 1 : t[k] \in Line /\ t[k].key = x.key => k <= j
    BY <1>1, <1>2, ViewMember
  <2>2. j \in 1 .. n
    BY <1>1, <1>2, <2>1
  <2>3. f # "events" => x.key # l.key
    BY <1>1, <2>1, <2>2
  <2>4. \A k \in 1 .. n : k \in 1 .. n + 1
    BY <1>1
  <2>5. x \in Line /\ (f = "deps" => ~ x.removed)
    BY <1>2, ViewMember
  <2>6. s[j] = x /\
        (f # "events" => \A k \in 1 .. n : s[k] \in Line /\ s[k].key = x.key => k <= j)
    BY <1>1, <2>1, <2>2, <2>4
  <2> QED BY <1>1, <2>2, <2>3, <2>5, <2>6, ViewMember
<1>3. ASSUME NEW x \in View(f, s), f = "events" \/ x.key # l.key
      PROVE  x \in View(f, t)
  <2>1. PICK j \in 1 .. n :
          /\ s[j] = x
          /\ f # "events" =>
               \A k \in 1 .. n : s[k] \in Line /\ s[k].key = x.key => k <= j
    BY <1>1, <1>3, ViewMember
  <2>2. j \in 1 .. n + 1 /\ t[j] = x
    BY <1>1, <2>1
  <2>3. ASSUME f # "events", NEW k \in 1 .. n + 1, t[k] \in Line, t[k].key = x.key
        PROVE  k <= j
    <3>1. k \in 1 .. n
      BY <1>1, <1>3, <2>3
    <3> QED BY <1>1, <2>1, <2>3, <3>1
  <2>4. x \in Line /\ (f = "deps" => ~ x.removed)
    BY <1>3, ViewMember
  <2> QED BY <1>1, <2>2, <2>3, <2>4, ViewMember
<1>4. l \in View(f, t) <=> ~ (f = "deps" /\ l.removed)
  <2>1. n + 1 \in DOMAIN t /\ \A k \in DOMAIN t : k <= n + 1
    BY <1>1
  <2> QED BY <1>1, <2>1, ViewMember
<1>5. f # "events" => \A x \in View(f, s) : x = l => x.key = l.key
  OBVIOUS
<1>6. f = "events" => l \in View(f, t)
  BY <1>4
<1> QED BY <1>2, <1>3, <1>4, <1>5, <1>6 DEF t

\* So files that look the same go on looking the same.
LEMMA AppendKeepsView ==
  ASSUME NEW f, NEW s \in Content, NEW t \in Content, NEW l \in Line,
         View(f, s) = View(f, t)
  PROVE  View(f, Append(s, l)) = View(f, Append(t, l))
<1> DEFINE new(V) == {x \in V : f = "events" \/ x.key # l.key}
                       \cup (IF f = "deps" /\ l.removed THEN {} ELSE {l})
<1>1. View(f, Append(s, l)) = new(View(f, s))
  BY ViewOfAppend
<1>2. View(f, Append(t, l)) = new(View(f, t))
  BY ViewOfAppend
<1> QED BY <1>1, <1>2

LEMMA ViewIsFinite ==
  ASSUME NEW f, NEW s \in Content
  PROVE  IsFiniteSet(View(f, s)) /\ Cardinality(View(f, s)) \in Nat
<1> DEFINE D == {j \in 1 .. Len(s) : s[j] \in View(f, s)}
           g == [j \in D |-> s[j]]
<1>1. Len(s) \in Nat /\ DOMAIN s = 1 .. Len(s)
  BY LenProperties DEF Content
<1>2. IsFiniteSet(D)
  <2>1. D \subseteq 1 .. Len(s) /\ IsFiniteSet(1 .. Len(s))
    BY <1>1, FS_Interval
  <2> HIDE DEF D
  <2> QED BY <2>1, FS_Subset
<1>3. g \in Surjection(D, View(f, s))
  <2>1. \A x \in View(f, s) : \E j \in D : s[j] = x
    BY <1>1, ViewMember
  <2>2. \A j \in D : s[j] \in View(f, s)
    OBVIOUS
  <2> HIDE DEF D
  <2> QED BY <2>1, <2>2 DEF Surjection
<1> HIDE DEF D, g
<1>4. IsFiniteSet(View(f, s))
  BY <1>2, <1>3, FS_Surjection
<1> QED BY <1>4, FS_CardinalityType

\* What compaction writes looks like what it has read.
LEMMA CompactedView ==
  ASSUME NEW f \in File, NEW s \in Content, NEW c \in Compacted(f, s)
  PROVE  c \in Seq(Line) /\ View(f, c) = View(f, s)
<1> DEFINE kept == View(f, s)
           n == Cardinality(kept)
<1>1. kept \subseteq Line
  BY ViewMember
<1>2. n \in Nat /\ IsFiniteSet(kept)
  BY ViewIsFinite
<1>3. c \in [1 .. n -> kept] /\ {c[i] : i \in 1 .. n} = kept
  BY DEF Compacted, Elems
<1>4. ASSUME f # "events", NEW x \in kept, NEW y \in kept, x.key = y.key
      PROVE  x = y
  <2>1. PICK j \in DOMAIN s : s[j] = x /\ \A k \in DOMAIN s : s[k] \in Line /\ s[k].key = x.key => k <= j
    BY <1>4, ViewMember
  <2>2. PICK k \in DOMAIN s : s[k] = y /\ \A i \in DOMAIN s : s[i] \in Line /\ s[i].key = y.key => i <= k
    BY <1>4, ViewMember
  <2>3. j <= k /\ k <= j
    BY <1>1, <1>4, <2>1, <2>2
  <2>4. j \in Int /\ k \in Int
    BY LenProperties DEF Content
  <2> QED BY <2>1, <2>2, <2>3, <2>4
<1> HIDE DEF kept, n
<1>5. c \in Injection(1 .. n, kept)
  <2>1. c \in Surjection(1 .. n, kept)
    BY <1>3 DEF Surjection
  <2>2. IsFiniteSet(1 .. n) /\ Cardinality(1 .. n) = n
    <3>1. Cardinality(1 .. n) = (IF 1 > n THEN 0 ELSE n - 1 + 1) /\ IsFiniteSet(1 .. n)
      BY <1>2, FS_Interval
    <3> QED BY <1>2, <3>1
  <2> QED BY <2>1, <2>2, FS_SurjSameCardinalityImpliesInj DEF n
<1>6. \A i, j \in 1 .. n : c[i] = c[j] => i = j
  BY <1>5 DEF Injection, IsInjective
<1>7. c \in Seq(Line)
  <2>1. c \in [1 .. n -> Line]
    BY <1>1, <1>3
  <2> QED BY <1>2, <2>1, SeqDef
<1>8. ASSUME NEW x \in kept
      PROVE  x \in View(f, c)
  <2>1. PICK i \in 1 .. n : c[i] = x
    BY <1>3
  <2>2. f # "events" => \A k \in 1 .. n : c[k].key = x.key => k <= i
    BY <1>2, <1>3, <1>4, <1>6, <2>1
  <2>3. x \in Line /\ (f = "deps" => ~ x.removed)
    BY <1>8, ViewMember DEF kept
  <2>4. DOMAIN c = 1 .. n
    BY <1>3
  <2> QED BY <2>1, <2>2, <2>3, <2>4, ViewMember
<1>9. ASSUME NEW x \in View(f, c)
      PROVE  x \in kept
  <2>1. \E j \in DOMAIN c : c[j] = x
    BY <1>9, ViewMember
  <2> QED BY <1>3, <2>1
<1> QED BY <1>7, <1>8, <1>9 DEF kept
-----------------------------------------------------------------------------
(* What writes at the start of a file leave.                               *)

LEMMA OverFacts ==
  ASSUME NEW c \in Content, NEW s \in Content
  PROVE  /\ Over(c, s) \subseteq Content
         /\ Over(c, <<>>) = {c}
<1> DEFINE tails == {SubSeq(s, k, Len(s)) : k \in 2 .. Len(s) + 1}
<1>1. Len(s) \in Nat /\ DOMAIN s = 1 .. Len(s) /\ \A i \in 1 .. Len(s) : s[i] \in Text
  BY LenProperties DEF Content
<1>2. tails \subseteq Content
  <2>1. ASSUME NEW k \in 2 .. Len(s) + 1
        PROVE  SubSeq(s, k, Len(s)) \in Seq(Text)
    <3>1. k \in Int /\ Len(s) \in Int /\ \A i \in k .. Len(s) : s[i] \in Text
      BY <1>1, <2>1
    <3> QED BY <3>1, SubSeqProperties
  <2> QED BY <2>1 DEF Content
<1>3. <<Garbled>> \in Content
  BY TextFacts DEF Content
<1> HIDE DEF tails
<1>4. \A t \in tails : c \o t \in Content /\ c \o <<Garbled>> \o t \in Content
  BY <1>2, <1>3, ConcatProperties DEF Content
<1>5. c \o s \in Content
  BY ConcatProperties DEF Content
<1>6. Over(c, s) \subseteq Content
  BY <1>4, <1>5 DEF Over, tails
<1>7. c \o <<>> = c
  BY ConcatEmptySeq DEF Content
<1> QED BY <1>6, <1>7 DEF Over

LEMMA CutsFacts ==
  ASSUME NEW c \in Content
  PROVE  Cuts(c) \subseteq Content
<1>1. Len(c) \in Nat /\ \A i \in 1 .. Len(c) : c[i] \in Text
  BY LenProperties DEF Content
<1>2. ASSUME NEW k \in 0 .. Len(c) - 1
      PROVE  SubSeq(c, 1, k) \in Content /\ Append(SubSeq(c, 1, k), Torn) \in Content
  <2>1. 1 \in Int /\ k \in Int /\ \A i \in 1 .. k : c[i] \in Text
    BY <1>1, <1>2
  <2>2. SubSeq(c, 1, k) \in Seq(Text)
    BY <2>1, SubSeqProperties
  <2> QED BY <2>2, TextFacts, AppendProperties DEF Content
<1> QED BY <1>2 DEF Cuts

\* The elements of a file that has grown by a line.
LEMMA ElemsOfAppend ==
  ASSUME NEW s \in Content, NEW l \in Text
  PROVE  Elems(Append(s, l)) = Elems(s) \cup {l}
<1>1. /\ Len(s) \in Nat /\ DOMAIN s = 1 .. Len(s)
      /\ DOMAIN Append(s, l) = 1 .. Len(s) + 1
      /\ Append(s, l)[Len(s) + 1] = l
      /\ \A i \in 1 .. Len(s) : Append(s, l)[i] = s[i]
  BY AppendProperties, LenProperties DEF Content
<1>2. \A i \in 1 .. Len(s) : i \in 1 .. Len(s) + 1
  BY <1>1
<1>3. \A i \in 1 .. Len(s) + 1 : i \in 1 .. Len(s) \/ i = Len(s) + 1
  BY <1>1
<1>4. Len(s) + 1 \in 1 .. Len(s) + 1
  BY <1>1
<1> QED BY <1>1, <1>2, <1>3, <1>4 DEF Elems

LEMMA LinesAreContent ==
  ASSUME NEW s \in Seq(Line)
  PROVE  s \in Content
<1>1. Line \subseteq Text
  BY TextFacts
<1> QED BY <1>1, SeqMonotonic DEF Content

-----------------------------------------------------------------------------
(* What the actions do, in terms of the type.                              *)

LEMMA GotoFacts ==
  ASSUME TypeOK, NEW p \in Proc, NEW j \in Job, Goto(p, j)
  PROVE  /\ job' \in [Proc -> Job]
         /\ job'[p] = j
         /\ \A q \in Proc : q # p => job'[q] = job[q]
BY DEF TypeOK, Goto

Steps == {"idle", "copy", "archive", "load", "truncate", "write", "unlock", "restore", "refill"}

\* Job k is job j gone on to step s at file f with lines l.
Onward(j, k, s, f, l) ==
  /\ k \in Job
  /\ k.step = s /\ k.at = f /\ k.lines = l /\ k.snap = j.snap /\ k.second = j.second

LEMMA JobFacts ==
  ASSUME NEW j \in Job
  PROVE  /\ j.at \in File /\ j.lines \in Seq(Line) /\ j.snap \in Nat /\ j.second \in Nat
         /\ j.step \in Steps
BY DEF Job, Steps

LEMMA OnwardStep ==
  ASSUME NEW j \in Job, NEW s \in Steps
  PROVE  Onward(j, [j EXCEPT !.step = s], s, j.at, j.lines)
BY DEF Job, Steps, Onward

LEMMA OnwardFile ==
  ASSUME NEW j \in Job, NEW f \in File
  PROVE  Onward(j, [j EXCEPT !.at = f], j.step, f, j.lines)
BY DEF Job, Onward

LEMMA OnwardStepFile ==
  ASSUME NEW j \in Job, NEW s \in Steps, NEW f \in File
  PROVE  Onward(j, [j EXCEPT !.step = s, !.at = f], s, f, j.lines)
BY DEF Job, Steps, Onward

LEMMA OnwardStepLines ==
  ASSUME NEW j \in Job, NEW s \in Steps, NEW l \in Seq(Line)
  PROVE  Onward(j, [j EXCEPT !.step = s, !.lines = l], s, j.at, l)
BY DEF Job, Steps, Onward

LEMMA OnwardAll ==
  ASSUME NEW j \in Job, NEW s \in Steps, NEW f \in File, NEW l \in Seq(Line)
  PROVE  Onward(j, [j EXCEPT !.step = s, !.at = f, !.lines = l], s, f, l)
BY DEF Job, Steps, Onward

LEMMA IdleFacts ==
  /\ Idle \in Job /\ Idle.step = "idle" /\ Idle.at = "orbs" /\ Idle.snap = 0
<1>1. <<>> \in Seq(Line)
  OBVIOUS
<1> QED BY <1>1 DEF Idle, Job, File

\* The first job of a snapshot or recovery, and of a compaction.
LEMMA FirstJobs ==
  ASSUME NEW s \in Steps, NEW n \in Nat
  PROVE  LET k == [Idle EXCEPT !.step = s, !.snap = n]
             m == [Idle EXCEPT !.step = s, !.second = n]
         IN /\ k \in Job /\ k.step = s /\ k.at = "orbs" /\ k.snap = n
            /\ m \in Job /\ m.step = s /\ m.at = "orbs" /\ m.snap = 0 /\ m.second = n
<1>1. <<>> \in Seq(Line)
  OBVIOUS
<1> QED BY <1>1 DEF Idle, Job, File, Steps

-----------------------------------------------------------------------------
(* Type correctness.                                                       *)

\* What the type says of job j, with snapshots S.
JobOK(j, S) ==
  /\ j.step \in {"copy", "restore", "refill"} => j.snap \in DOMAIN S
  /\ j.step = "refill" => j.at \in S[j.snap].present

Grown(S, T) ==
  /\ DOMAIN S \subseteq DOMAIN T
  /\ \A i \in DOMAIN S : S[i].present \subseteq T[i].present

LEMMA TypeParts ==
  TypeOK <=> /\ file \in [File -> Content]
             /\ locked \in BOOLEAN
             /\ snaps \in Seq(Snap)
             /\ archive \subseteq [file : File, second : Nat, line : Text]
             /\ now \in Nat
             /\ job \in [Proc -> Job]
             /\ acked \in [File -> Seq(Line)]
             /\ seen \subseteq Irregular
             /\ faults \in Nat
             /\ \A p \in Proc : JobOK(job[p], snaps)
BY DEF TypeOK, JobOK

\* And of the state after a step.
LEMMA TypePartsNext ==
  TypeOK' <=> /\ file' \in [File -> Content]
              /\ locked' \in BOOLEAN
              /\ snaps' \in Seq(Snap)
              /\ archive' \subseteq [file : File, second : Nat, line : Text]
              /\ now' \in Nat
              /\ job' \in [Proc -> Job]
              /\ acked' \in [File -> Seq(Line)]
              /\ seen' \subseteq Irregular
              /\ faults' \in Nat
              /\ \A p \in Proc : JobOK(job'[p], snaps')
BY DEF TypeOK, JobOK

\* One process moves on while the snapshots grow.
LEMMA JobTypes ==
  ASSUME TypeOK, NEW p \in Proc, NEW j \in Job, Goto(p, j), Grown(snaps, snaps'),
         JobOK(j, snaps')
  PROVE  /\ job' \in [Proc -> Job]
         /\ \A q \in Proc : JobOK(job'[q], snaps')
<1>1. /\ job' \in [Proc -> Job] /\ job'[p] = j
      /\ \A q \in Proc : q # p => job'[q] = job[q]
  BY GotoFacts
<1>2. \A q \in Proc : JobOK(job[q], snaps)
  BY TypeParts
<1>3. \A q \in Proc : JobOK(job[q], snaps) => JobOK(job[q], snaps')
  BY DEF JobOK, Grown
<1> QED BY <1>1, <1>2, <1>3

LEMMA NoteType ==
  ASSUME TypeOK, NEW what \in SUBSET Irregular, Note(what)
  PROVE  seen' \subseteq Irregular /\ seen \subseteq seen' /\ seen' = seen \cup what
BY DEF TypeOK, Note

LEMMA ClockType ==
  ASSUME TypeOK, Clock
  PROVE  now' \in Nat
BY BoundsAssumption DEF TypeOK, Clock

LEMMA FaultType ==
  ASSUME TypeOK, Fault
  PROVE  faults' \in Nat
BY DEF TypeOK, Fault

LEMMA RewriteType ==
  ASSUME TypeOK, NEW f \in File, NEW c \in Content,
         \E s \in Over(c, file[f]) : file' = [file EXCEPT ![f] = s]
  PROVE  /\ file' \in [File -> Content]
         /\ \A g \in File : g # f => file'[g] = file[g]
         /\ file[f] = <<>> => file'[f] = c
<1>1. file[f] \in Content /\ file \in [File -> Content]
  BY DEF TypeOK
<1>2. Over(c, file[f]) \subseteq Content /\ Over(c, <<>>) = {c}
  BY <1>1, OverFacts
<1>3. PICK s \in Over(c, file[f]) : file' = [file EXCEPT ![f] = s]
  OBVIOUS
<1> QED BY <1>1, <1>2, <1>3

\* A copy into a snapshot.
LEMMA CopiedFacts ==
  ASSUME TypeOK, NEW i \in DOMAIN snaps, NEW f \in File, NEW c \in Content,
         Copied(i, f, c)
  PROVE  /\ now' \in Nat
         /\ snaps' \in Seq(Snap)
         /\ DOMAIN snaps' = DOMAIN snaps
         /\ \A j \in DOMAIN snaps : j # i => snaps'[j] = snaps[j]
         /\ snaps'[i].present = snaps[i].present \cup {f}
         /\ snaps'[i].files = [snaps[i].files EXCEPT ![f] = c]
         /\ snaps'[i].mark = snaps[i].mark
<1> DEFINE new == [snaps[i] EXCEPT !.present = @ \cup {f}, !.files[f] = c, !.mtime = now']
<1>1. now' \in Nat
  BY ClockType DEF Copied
<1>2. snaps \in Seq(Snap) /\ DOMAIN snaps = 1 .. Len(snaps) /\ snaps[i] \in Snap
  BY LenProperties DEF TypeOK
<1>3. /\ new \in Snap
      /\ new.present = snaps[i].present \cup {f}
      /\ new.files = [snaps[i].files EXCEPT ![f] = c]
      /\ new.mark = snaps[i].mark
  BY <1>1, <1>2 DEF Snap
<1>4. snaps' = [snaps EXCEPT ![i] = new]
  BY <1>2 DEF Copied, Snap
<1> HIDE DEF new
<1>5. snaps' \in Seq(Snap) /\ Len(snaps') = Len(snaps)
      /\ \A j \in 1 .. Len(snaps) : snaps'[j] = IF j = i THEN new ELSE snaps[j]
  BY <1>2, <1>3, <1>4, ExceptSeq
<1>6. DOMAIN snaps' = 1 .. Len(snaps)
  BY <1>5, LenProperties
<1> QED BY <1>1, <1>2, <1>3, <1>5, <1>6

LEMMA FiledType ==
  ASSUME TypeOK, NEW p \in Proc, NEW f \in File, NEW c \in Content, Filed(p, f, c)
  PROVE  /\ archive' \subseteq [file : File, second : Nat, line : Text]
         /\ seen' \subseteq Irregular
<1>1. job[p].second \in Nat
  BY JobFacts DEF TypeOK
<1>2. Elems(c) \subseteq Text
  BY LenProperties DEF Elems, Content
<1>3. archive' \subseteq [file : File, second : Nat, line : Text]
  BY <1>1, <1>2 DEF Filed, TypeOK
<1>4. seen' \subseteq Irregular
  BY DEF Filed, Note, TypeOK, Irregular
<1> QED BY <1>3, <1>4

\* An append that is not raced adds one line at the end of a file that nobody is
\* rewriting or restoring.
LEMMA AppendFacts ==
  ASSUME TypeOK, NEW o \in Offered, AppendLine(o)
  PROVE  /\ file' \in [File -> Content]
         /\ acked' \in [File -> Seq(Line)]
         /\ seen' \subseteq Irregular /\ seen \subseteq seen'
         /\ UNCHANGED <<locked, snaps, archive, now, job, faults>>
         /\ \E f \in File, line \in Line :
              /\ acked'[f] = Append(acked[f], line)
              /\ \A g \in File : g # f => file'[g] = file[g] /\ acked'[g] = acked[g]
              /\ "raced" \notin seen' =>
                   /\ file'[f] = Append(file[f], line)
                   /\ \A p \in Proc :
                        /\ job[p].snap = 0 \/ job[p].step = "copy"
                        /\ job[p].step \in {"load", "truncate", "write"} => job[p].at # f
<1> DEFINE f == o.file
           line == [key |-> o.key, n |-> Len(acked[f]) + 1, removed |-> o.removed]
           torn == file[f] # <<>> /\ file[f][Len(file[f])] = Torn
           more == IF torn THEN [file[f] EXCEPT ![Len(file[f])] = Garbled]
                           ELSE Append(file[f], line)
           bad == torn \/ \E p \in Proc :
                            \/ job[p].snap # 0 /\ job[p].step # "copy"
                            \/ job[p].at = f /\ job[p].step \in {"load", "truncate", "write"}
<1>1. f \in File /\ file \in [File -> Content] /\ acked \in [File -> Seq(Line)]
  BY OfferedAssumption DEF TypeOK
<1>2. line \in Line /\ line \in Text
  <2>1. Len(acked[f]) + 1 \in Nat
    BY <1>1, LenProperties
  <2>2. o.key \in Key /\ o.removed \in BOOLEAN
    BY OfferedAssumption
  <2>3. line \in Line
    BY <2>1, <2>2 DEF Line
  <2> QED BY <2>3, TextFacts
<1>3. /\ file' = [file EXCEPT ![f] = more]
      /\ acked' = [acked EXCEPT ![f] = Append(acked[f], line)]
      /\ seen' = seen \cup (IF bad THEN {"raced"} ELSE {})
      /\ UNCHANGED <<locked, snaps, archive, now, job, faults>>
  BY <1>1 DEF AppendLine, Note
<1> HIDE DEF line
<1>4. more \in Content
  <2>1. CASE torn
    <3>1. Len(file[f]) \in 1 .. Len(file[f])
      BY <1>1, <2>1, LenProperties, EmptySeq DEF Content
    <3>2. [file[f] EXCEPT ![Len(file[f])] = Garbled] \in Seq(Text)
      BY <1>1, <3>1, TextFacts, ExceptSeq DEF Content
    <3> QED BY <2>1, <3>2 DEF Content
  <2>2. CASE ~ torn
    BY <1>1, <1>2, <2>2, AppendProperties DEF Content
  <2> QED BY <2>1, <2>2
<1>5. Append(acked[f], line) \in Seq(Line)
  BY <1>1, <1>2, AppendProperties
<1>6. "raced" \notin seen' => ~ bad
  BY <1>3
<1>7. ~ bad => more = Append(file[f], line)
  OBVIOUS
<1>8. ~ bad => \A p \in Proc :
                 /\ job[p].snap = 0 \/ job[p].step = "copy"
                 /\ job[p].step \in {"load", "truncate", "write"} => job[p].at # f
  OBVIOUS
<1>9. seen' \subseteq Irregular /\ seen \subseteq seen'
  BY <1>3 DEF TypeOK, Irregular
<1> HIDE DEF more, bad, f
<1>10. /\ file' \in [File -> Content] /\ acked' \in [File -> Seq(Line)]
       /\ file'[f] = more /\ acked'[f] = Append(acked[f], line)
       /\ \A g \in File : g # f => file'[g] = file[g] /\ acked'[g] = acked[g]
  BY <1>1, <1>3, <1>4, <1>5
<1> QED BY <1>1, <1>2, <1>3, <1>6, <1>7, <1>8, <1>9, <1>10

\* snapshot begins: an empty snapshot more, marked with what is acknowledged.
LEMMA SnapshotFacts ==
  ASSUME TypeOK, NEW p \in Proc, Snapshot(p)
  PROVE  /\ now' \in Nat
         /\ snaps' \in Seq(Snap)
         /\ DOMAIN snaps' = DOMAIN snaps \cup {Len(snaps) + 1}
         /\ Len(snaps) \in Nat /\ DOMAIN snaps = 1 .. Len(snaps)
         /\ \A i \in DOMAIN snaps : snaps'[i] = snaps[i]
         /\ snaps'[Len(snaps) + 1].present = {}
         /\ snaps'[Len(snaps) + 1].mark = [f \in File |-> Len(acked[f])]
         /\ [Idle EXCEPT !.step = "copy", !.snap = Len(snaps) + 1] \in Job
<1> DEFINE new == [present |-> {}, files |-> [f \in File |-> <<>>], mtime |-> now',
                   mark |-> [f \in File |-> Len(acked[f])]]
<1>1. now' \in Nat
  BY ClockType DEF Snapshot
<1>2. new \in Snap
  <2>1. \A f \in File : Len(acked[f]) \in Nat
    BY LenProperties DEF TypeOK
  <2>2. <<>> \in Content
    BY EmptySeq DEF Content
  <2> QED BY <1>1, <2>1, <2>2 DEF Snap
<1>3. snaps' = Append(snaps, new) /\ snaps \in Seq(Snap)
  BY DEF Snapshot, TypeOK
<1>4. new.present = {} /\ new.mark = [f \in File |-> Len(acked[f])]
  OBVIOUS
<1> HIDE DEF new
<1>5. /\ snaps' \in Seq(Snap) /\ Len(snaps') = Len(snaps) + 1
      /\ Len(snaps) \in Nat /\ DOMAIN snaps = 1 .. Len(snaps)
      /\ DOMAIN snaps' = 1 .. Len(snaps) + 1
      /\ \A i \in 1 .. Len(snaps) : snaps'[i] = snaps[i]
      /\ snaps'[Len(snaps) + 1] = new
  BY <1>2, <1>3, AppendProperties, LenProperties
<1>6. 1 .. Len(snaps) + 1 = 1 .. Len(snaps) \cup {Len(snaps) + 1}
  BY <1>5
<1>7. [Idle EXCEPT !.step = "copy", !.snap = Len(snaps) + 1] \in Job
  <2>1. "copy" \in Steps /\ Len(snaps) + 1 \in Nat
    BY <1>5 DEF Steps
  <2> QED BY <2>1, FirstJobs
<1> QED BY <1>1, <1>4, <1>5, <1>6, <1>7

LEMMA OverlapType ==
  ASSUME NEW p \in Proc
  PROVE  Overlap(p) \subseteq Irregular
BY DEF Overlap, Irregular

LEMMA InitType == Init => TypeOK
<1> SUFFICES ASSUME Init PROVE TypeOK
  OBVIOUS
<1>1. Idle \in Job /\ Idle.step = "idle"
  BY IdleFacts
<1>2. <<>> \in Content /\ <<>> \in Seq(Line) /\ <<>> \in Seq(Snap)
  BY EmptySeq DEF Content
<1> HIDE DEF Idle
<1>3. job \in [Proc -> Job] /\ \A p \in Proc : job[p] = Idle
  BY <1>1 DEF Init
<1>4. \A p \in Proc : JobOK(job[p], snaps)
  BY <1>1, <1>3 DEF JobOK
<1>5. /\ file \in [File -> Content] /\ acked \in [File -> Seq(Line)]
      /\ snaps \in Seq(Snap) /\ locked \in BOOLEAN /\ now \in Nat /\ faults \in Nat
      /\ archive \subseteq [file : File, second : Nat, line : Text]
      /\ seen \subseteq Irregular
  BY <1>2 DEF Init
<1> QED BY <1>3, <1>4, <1>5, TypeParts


\* The steps of a snapshot keep the types.
LEMMA SnapshotStepType ==
  ASSUME TypeOK, NEW p \in Proc, Snapshot(p) \/ CopyFile(p) \/ CopyFails(p)
  PROVE  TypeOK'
<1>0. /\ file \in [File -> Content] /\ job[p] \in Job /\ JobOK(job[p], snaps)
      /\ snaps \in Seq(Snap)
  BY TypeParts
<1>1. CASE Snapshot(p)
  <2> DEFINE j == [Idle EXCEPT !.step = "copy", !.snap = Len(snaps) + 1]
  <2>1. /\ now' \in Nat /\ snaps' \in Seq(Snap) /\ j \in Job
        /\ DOMAIN snaps' = DOMAIN snaps \cup {Len(snaps) + 1}
        /\ \A i \in DOMAIN snaps : snaps'[i] = snaps[i]
    BY <1>1, SnapshotFacts
  <2>2. j.step = "copy" /\ j.snap = Len(snaps) + 1
    <3>1. "copy" \in Steps /\ Len(snaps) + 1 \in Nat
      BY <1>0, LenProperties DEF Steps
    <3> QED BY <3>1, FirstJobs
  <2> HIDE DEF j
  <2>3. Grown(snaps, snaps') /\ JobOK(j, snaps')
    BY <2>1, <2>2 DEF Grown, JobOK
  <2>4. Goto(p, j)
    BY <1>1 DEF Snapshot, j
  <2>5. job' \in [Proc -> Job] /\ \A q \in Proc : JobOK(job'[q], snaps')
    BY <2>1, <2>3, <2>4, JobTypes
  <2>6. seen' \subseteq Irregular
    BY <1>1, OverlapType DEF Snapshot, Note, TypeOK, Irregular
  <2>7. UNCHANGED <<file, locked, archive, acked, faults>>
    BY <1>1 DEF Snapshot
  <2> QED BY <1>0, <2>1, <2>5, <2>6, <2>7, TypeParts, TypePartsNext
<1>2. ASSUME NEW c \in Content, Copied(job[p].snap, job[p].at, c), job[p].step = "copy",
             NEW j \in Job, Goto(p, j), JobOK(j, snaps),
             seen' \subseteq Irregular, faults' \in Nat,
             UNCHANGED <<file, locked, archive, acked>>
      PROVE  TypeOK'
  <2>1. job[p].snap \in DOMAIN snaps /\ job[p].at \in File
    BY <1>0, <1>2, JobFacts DEF JobOK
  <2>2. /\ now' \in Nat /\ snaps' \in Seq(Snap) /\ DOMAIN snaps' = DOMAIN snaps
        /\ \A i \in DOMAIN snaps : snaps[i].present \subseteq snaps'[i].present
    BY <1>2, <2>1, CopiedFacts
  <2>3. Grown(snaps, snaps') /\ JobOK(j, snaps')
    BY <1>2, <2>2 DEF Grown, JobOK
  <2>4. job' \in [Proc -> Job] /\ \A q \in Proc : JobOK(job'[q], snaps')
    BY <1>2, <2>3, JobTypes
  <2> QED BY <1>2, <2>2, <2>4, TypeParts, TypePartsNext
<1>3. CASE CopyFile(p)
  <2> DEFINE j == IF job[p].at = "events" THEN Idle
                  ELSE [job[p] EXCEPT !.at = After(job[p].at)]
  <2>1. file[job[p].at] \in Content
    BY <1>0, JobFacts
  <2>2. After(job[p].at) \in File
    BY DEF After, File
  <2>3. j \in Job /\ JobOK(j, snaps)
    <3>1. Onward(job[p], [job[p] EXCEPT !.at = After(job[p].at)], job[p].step,
                 After(job[p].at), job[p].lines)
      BY <1>0, <2>2, OnwardFile
    <3> QED BY <1>0, <1>3, <3>1, IdleFacts DEF JobOK, CopyFile, Onward
  <2>4. Copied(job[p].snap, job[p].at, file[job[p].at]) /\ job[p].step = "copy" /\ Goto(p, j)
    BY <1>3 DEF CopyFile
  <2>5. seen' \subseteq Irregular /\ faults' \in Nat /\ UNCHANGED <<file, locked, archive, acked>>
    BY <1>3 DEF CopyFile, Note, TypeOK, Irregular
  <2> QED BY <1>2, <2>1, <2>2, <2>3, <2>4, <2>5
<1>4. CASE CopyFails(p)
  <2>1. file[job[p].at] \in Content
    BY <1>0, JobFacts
  <2>2. PICK c \in Cuts(file[job[p].at]) : Copied(job[p].snap, job[p].at, c)
    BY <1>4 DEF CopyFails
  <2>3. c \in Content
    BY <2>1, <2>2, CutsFacts
  <2>4. Idle \in Job /\ JobOK(Idle, snaps)
    BY IdleFacts DEF JobOK
  <2>5. faults' \in Nat
    BY <1>4, FaultType DEF CopyFails
  <2>6. /\ job[p].step = "copy" /\ Goto(p, Idle) /\ seen' \subseteq Irregular
        /\ UNCHANGED <<file, locked, archive, acked>>
    BY <1>4 DEF CopyFails, Note, TypeOK, Irregular
  <2> QED BY <1>2, <2>2, <2>3, <2>4, <2>5, <2>6
<1> QED BY <1>1, <1>3, <1>4

\* A step that leaves the snapshots alone keeps the type if its parts do.
LEMMA OtherStepType ==
  ASSUME TypeOK, NEW p \in Proc, NEW j \in Job, Goto(p, j), JobOK(j, snaps),
         UNCHANGED snaps,
         file' \in [File -> Content], locked' \in BOOLEAN, acked' \in [File -> Seq(Line)],
         archive' \subseteq [file : File, second : Nat, line : Text],
         now' \in Nat, seen' \subseteq Irregular, faults' \in Nat
  PROVE  TypeOK'
<1>1. Grown(snaps, snaps') /\ JobOK(j, snaps') /\ snaps' \in Seq(Snap)
  BY DEF Grown, TypeOK
<1>2. job' \in [Proc -> Job] /\ \A q \in Proc : JobOK(job'[q], snaps')
  BY <1>1, JobTypes
<1> QED BY <1>1, <1>2, TypePartsNext

\* The steps of a compaction, and the removal of the lock.
LEMMA CompactStepType ==
  ASSUME TypeOK, NEW p \in Proc,
         \/ Compact(p) \/ Archive(p) \/ ArchiveFails(p) \/ Load(p)
         \/ Truncate(p) \/ Write(p) \/ WriteFails(p) \/ Unlock(p)
  PROVE  TypeOK'
<1>0. /\ file \in [File -> Content] /\ locked \in BOOLEAN /\ acked \in [File -> Seq(Line)]
      /\ archive \subseteq [file : File, second : Nat, line : Text]
      /\ now \in Nat /\ seen \subseteq Irregular /\ faults \in Nat
      /\ job[p] \in Job /\ JobOK(job[p], snaps)
      /\ job[p].at \in File /\ job[p].lines \in Seq(Line) /\ job[p].lines \in Content
  BY JobFacts, LinesAreContent, TypeParts
<1>1. CASE Compact(p)
  <2>1. now' \in Nat
    BY <1>1, ClockType DEF Compact
  <2>2. seen' \subseteq Irregular
    BY <1>0, <1>1, OverlapType DEF Compact, Note, Irregular
  <2>3. [Idle EXCEPT !.step = "archive", !.second = now'] \in Job
        /\ JobOK([Idle EXCEPT !.step = "archive", !.second = now'], snaps)
    <3>1. "archive" \in Steps
      BY DEF Steps
    <3> QED BY <2>1, <3>1, FirstJobs DEF JobOK
  <2> QED BY <1>0, <1>1, <2>1, <2>2, <2>3, OtherStepType DEF Compact
<1>2. CASE Archive(p)
  <2>1. archive' \subseteq [file : File, second : Nat, line : Text] /\ seen' \subseteq Irregular
    BY <1>0, <1>2, FiledType DEF Archive
  <2>2. [job[p] EXCEPT !.step = "load"] \in Job /\ JobOK([job[p] EXCEPT !.step = "load"], snaps)
    <3>1. "load" \in Steps
      BY DEF Steps
    <3>2. Onward(job[p], [job[p] EXCEPT !.step = "load"], "load", job[p].at, job[p].lines)
      BY <1>0, <3>1, OnwardStep
    <3> QED BY <1>0, <1>2, <3>2 DEF JobOK, Onward, Archive
  <2> QED BY <1>0, <1>2, <2>1, <2>2, OtherStepType DEF Archive
<1>3. CASE ArchiveFails(p)
  <2>1. PICK c \in Cuts(file[job[p].at]) : Filed(p, job[p].at, c)
    BY <1>3 DEF ArchiveFails
  <2>2. c \in Content
    BY <1>0, <2>1, CutsFacts
  <2>3. archive' \subseteq [file : File, second : Nat, line : Text] /\ seen' \subseteq Irregular
    BY <1>0, <2>1, <2>2, FiledType
  <2>4. [job[p] EXCEPT !.step = "unlock"] \in Job /\ JobOK([job[p] EXCEPT !.step = "unlock"], snaps)
    <3>1. "unlock" \in Steps
      BY DEF Steps
    <3>2. Onward(job[p], [job[p] EXCEPT !.step = "unlock"], "unlock", job[p].at, job[p].lines)
      BY <1>0, <3>1, OnwardStep
    <3> QED BY <3>2 DEF JobOK, Onward
  <2>5. faults' \in Nat
    BY <1>3, FaultType DEF ArchiveFails
  <2> QED BY <1>0, <1>3, <2>3, <2>4, <2>5, OtherStepType DEF ArchiveFails
<1>4. CASE Load(p)
  <2>1. ASSUME NEW j \in Job, Goto(p, j), JobOK(j, snaps)
        PROVE  TypeOK'
    BY <1>0, <1>4, <2>1, OtherStepType DEF Load
  <2>2. ASSUME NEW c \in Compacted(job[p].at, file[job[p].at]),
               Goto(p, [job[p] EXCEPT !.step = "truncate", !.lines = c])
        PROVE  TypeOK'
    <3>1. job[p].at \in File
      BY <1>0 DEF Job
    <3>2. c \in Seq(Line)
      BY <1>0, <2>2, <3>1, CompactedView
    <3>3. /\ [job[p] EXCEPT !.step = "truncate", !.lines = c] \in Job
          /\ JobOK([job[p] EXCEPT !.step = "truncate", !.lines = c], snaps)
      <4>1. "truncate" \in Steps
        BY DEF Steps
      <4>2. Onward(job[p], [job[p] EXCEPT !.step = "truncate", !.lines = c], "truncate",
                   job[p].at, c)
        BY <1>0, <3>2, <4>1, OnwardStepLines
      <4> QED BY <3>1, <4>2 DEF JobOK, Onward
    <3> QED BY <2>1, <2>2, <3>3
  <2>3. ASSUME Goto(p, [job[p] EXCEPT !.step = "unlock"])
        PROVE  TypeOK'
    <3>1. /\ [job[p] EXCEPT !.step = "unlock"] \in Job
          /\ JobOK([job[p] EXCEPT !.step = "unlock"], snaps)
      <4>1. "unlock" \in Steps
        BY DEF Steps
      <4>2. Onward(job[p], [job[p] EXCEPT !.step = "unlock"], "unlock", job[p].at, job[p].lines)
        BY <1>0, <4>1, OnwardStep
      <4> QED BY <4>2 DEF JobOK, Onward
    <3> QED BY <2>1, <2>3, <3>1
  <2> QED BY <1>4, <2>2, <2>3 DEF Load
<1>5. CASE Truncate(p)
  <2>1. file' \in [File -> Content]
    <3>1. <<>> \in Content
      BY EmptySeq DEF Content
    <3> QED BY <1>0, <1>5, <3>1 DEF Truncate
  <2>2. /\ [job[p] EXCEPT !.step = "write"] \in Job
        /\ JobOK([job[p] EXCEPT !.step = "write"], snaps)
    <3>1. "write" \in Steps
      BY DEF Steps
    <3>2. Onward(job[p], [job[p] EXCEPT !.step = "write"], "write", job[p].at, job[p].lines)
      BY <1>0, <3>1, OnwardStep
    <3> QED BY <1>0, <1>5, <3>2 DEF JobOK, Onward, Truncate
  <2> QED BY <1>0, <1>5, <2>1, <2>2, OtherStepType DEF Truncate
<1>6. CASE Write(p)
  <2> DEFINE j == [job[p] EXCEPT !.step = IF job[p].at = "orbs" THEN "archive" ELSE "unlock",
                                 !.at = "deps", !.lines = <<>>]
  <2>1. file' \in [File -> Content]
    BY <1>0, <1>6, RewriteType DEF Write
  <2>2. j \in Job /\ JobOK(j, snaps)
    <3>1. <<>> \in Seq(Line)
      OBVIOUS
    <3>2. (IF job[p].at = "orbs" THEN "archive" ELSE "unlock") \in Steps /\ "deps" \in File
      BY DEF Steps, File
    <3>3. Onward(job[p], j, IF job[p].at = "orbs" THEN "archive" ELSE "unlock", "deps", <<>>)
      BY <1>0, <3>1, <3>2, OnwardAll
    <3> HIDE DEF j
    <3> QED BY <3>3 DEF JobOK, Onward
  <2>3. Goto(p, j)
    BY <1>6 DEF Write
  <2> QED BY <1>0, <1>6, <2>1, <2>2, <2>3, OtherStepType DEF Write
<1>7. CASE WriteFails(p)
  <2> DEFINE j == [job[p] EXCEPT !.step = "unlock", !.lines = <<>>]
  <2>1. PICK c \in Cuts(job[p].lines) :
          \E s \in Over(c, file[job[p].at]) : file' = [file EXCEPT ![job[p].at] = s]
    BY <1>7 DEF WriteFails
  <2>2. file' \in [File -> Content]
    BY <1>0, <2>1, CutsFacts, RewriteType
  <2>3. j \in Job /\ JobOK(j, snaps)
    <3>1. <<>> \in Seq(Line)
      OBVIOUS
    <3>2. "unlock" \in Steps
      BY DEF Steps
    <3>3. Onward(job[p], j, "unlock", job[p].at, <<>>)
      BY <1>0, <3>1, <3>2, OnwardStepLines
    <3> HIDE DEF j
    <3> QED BY <3>3 DEF JobOK, Onward
  <2>4. Goto(p, j) /\ seen' \subseteq Irregular /\ faults' \in Nat
    BY <1>0, <1>7, FaultType DEF WriteFails, Note, Irregular
  <2> QED BY <1>0, <1>7, <2>2, <2>3, <2>4, OtherStepType DEF WriteFails
<1>8. CASE Unlock(p)
  <2>1. Idle \in Job /\ JobOK(Idle, snaps)
    BY IdleFacts DEF JobOK
  <2>2. seen' \subseteq Irregular
    BY <1>0, <1>8 DEF Unlock, Note, Irregular
  <2> QED BY <1>0, <1>8, <2>1, <2>2, OtherStepType DEF Unlock
<1> QED BY <1>1, <1>2, <1>3, <1>4, <1>5, <1>6, <1>7, <1>8


-----------------------------------------------------------------------------
(* Where a process goes in each step.                                      *)

Moved(p, s, f, i) ==
  /\ job'[p].step = s /\ job'[p].at = f /\ job'[p].snap = i
  /\ \A q \in Proc : q # p => job'[q] = job[q]

MovedOn(p, s) == Moved(p, s, job[p].at, job[p].snap)

\* Past a file of a recovery.
MovedPast(p) ==
  IF job[p].at = "events" THEN MovedOn(p, "unlock")
                          ELSE Moved(p, "restore", After(job[p].at), job[p].snap)

LEMMA StepNames ==
  \A s \in {"idle", "copy", "archive", "load", "truncate", "write", "unlock",
            "restore", "refill"} : s \in Steps
BY DEF Steps

Fresh(k, s, i) == k \in Job /\ k.step = s /\ k.at = "orbs" /\ k.snap = i

LEMMA FreshJobs ==
  ASSUME NEW s \in Steps, NEW n \in Nat
  PROVE  /\ Fresh([Idle EXCEPT !.step = s, !.snap = n], s, n)
         /\ Fresh([Idle EXCEPT !.step = s, !.second = n], s, 0)
<1>1. <<>> \in Seq(Line)
  OBVIOUS
<1> QED BY <1>1 DEF Idle, Job, File, Steps, Fresh

LEMMA AfterFacts ==
  ASSUME NEW f \in File
  PROVE  After(f) \in File
BY DEF After, File

LEMMA MoveTo ==
  ASSUME TypeOK, NEW p \in Proc, NEW j \in Job, Goto(p, j)
  PROVE  Moved(p, j.step, j.at, j.snap) /\ job'[p].lines = j.lines
BY GotoFacts DEF Moved

LEMMA MoveOn ==
  ASSUME TypeOK, NEW p \in Proc, NEW s \in Steps, Goto(p, [job[p] EXCEPT !.step = s])
  PROVE  MovedOn(p, s) /\ job'[p].lines = job[p].lines
<1>1. Onward(job[p], [job[p] EXCEPT !.step = s], s, job[p].at, job[p].lines)
  BY OnwardStep DEF TypeOK
<1> QED BY <1>1, MoveTo DEF Onward, MovedOn

LEMMA MovePast ==
  ASSUME TypeOK, NEW p \in Proc, Goto(p, Restored(p))
  PROVE  Restored(p) \in Job /\ MovedPast(p)
<1>0. job[p] \in Job /\ job[p].at \in File
  BY JobFacts DEF TypeOK
<1>1. CASE job[p].at = "events"
  <2>1. Onward(job[p], [job[p] EXCEPT !.step = "unlock"], "unlock", job[p].at, job[p].lines)
    BY <1>0, StepNames, OnwardStep
  <2>2. Restored(p) = [job[p] EXCEPT !.step = "unlock"]
    BY <1>1 DEF Restored
  <2> QED BY <1>1, <2>1, <2>2, MoveTo DEF Onward, MovedPast, MovedOn
<1>2. CASE job[p].at # "events"
  <2> DEFINE k == [job[p] EXCEPT !.step = "restore", !.at = After(job[p].at)]
  <2>1. Onward(job[p], k, "restore", After(job[p].at), job[p].lines)
    BY <1>0, StepNames, AfterFacts, OnwardStepFile
  <2>2. Restored(p) = k
    BY <1>2 DEF Restored
  <2> HIDE DEF k
  <2> QED BY <1>2, <2>1, <2>2, MoveTo DEF Onward, MovedPast
<1> QED BY <1>1, <1>2

\* A process that is done, for whatever reason.
LEMMA MoveIdle ==
  ASSUME TypeOK, NEW p \in Proc,
         CopyFails(p) \/ RefillFails(p) \/ Crash(p) \/ Unlock(p)
  PROVE  Moved(p, "idle", "orbs", 0)
<1>1. Goto(p, Idle)
  BY DEF CopyFails, RefillFails, Crash, Unlock
<1> QED BY <1>1, IdleFacts, MoveTo

LEMMA MoveSnapshot ==
  ASSUME TypeOK, NEW p \in Proc
  PROVE  /\ Snapshot(p) => Moved(p, "copy", "orbs", Len(snaps) + 1)
         /\ CopyFile(p) => IF job[p].at = "events" THEN Moved(p, "idle", "orbs", 0)
                           ELSE Moved(p, "copy", After(job[p].at), job[p].snap)
<1>1. ASSUME Snapshot(p) PROVE Moved(p, "copy", "orbs", Len(snaps) + 1)
  <2> DEFINE k == [Idle EXCEPT !.step = "copy", !.snap = Len(snaps) + 1]
  <2>1. Len(snaps) + 1 \in Nat
    BY LenProperties DEF TypeOK
  <2>2. Fresh(k, "copy", Len(snaps) + 1)
    <3>1. "copy" \in Steps
      BY DEF Steps
    <3> QED BY <2>1, <3>1, FreshJobs
  <2>3. Goto(p, k)
    BY <1>1 DEF Snapshot
  <2> HIDE DEF k
  <2>4. Moved(p, k.step, k.at, k.snap)
    BY <2>2, <2>3, MoveTo DEF Fresh
  <2> QED BY <2>2, <2>4 DEF Fresh
<1>2. ASSUME CopyFile(p), job[p].at = "events" PROVE Moved(p, "idle", "orbs", 0)
  <2>1. Goto(p, Idle)
    BY <1>2 DEF CopyFile
  <2> QED BY <2>1, IdleFacts, MoveTo
<1>3. ASSUME CopyFile(p), job[p].at # "events"
      PROVE  Moved(p, "copy", After(job[p].at), job[p].snap)
  <2> DEFINE k == [job[p] EXCEPT !.at = After(job[p].at)]
  <2>1. job[p] \in Job /\ After(job[p].at) \in File
    BY JobFacts, AfterFacts DEF TypeOK
  <2>2. Onward(job[p], k, job[p].step, After(job[p].at), job[p].lines)
    BY <2>1, OnwardFile
  <2>3. Goto(p, k) /\ job[p].step = "copy"
    BY <1>3 DEF CopyFile
  <2> HIDE DEF k
  <2>4. Moved(p, k.step, k.at, k.snap)
    BY <2>2, <2>3, MoveTo DEF Onward
  <2> QED BY <2>2, <2>3, <2>4 DEF Onward
<1> QED BY <1>1, <1>2, <1>3

LEMMA MoveCompact ==
  ASSUME TypeOK, NEW p \in Proc
  PROVE  /\ Compact(p) => Moved(p, "archive", "orbs", 0)
         /\ Archive(p) => MovedOn(p, "load")
         /\ ArchiveFails(p) => MovedOn(p, "unlock")
         /\ Load(p) => \/ /\ MovedOn(p, "truncate")
                          /\ job'[p].lines \in Compacted(job[p].at, file[job[p].at])
                       \/ MovedOn(p, "unlock")
         /\ Truncate(p) => MovedOn(p, "write") /\ job'[p].lines = job[p].lines
         /\ Write(p) => Moved(p, IF job[p].at = "orbs" THEN "archive" ELSE "unlock", "deps",
                              job[p].snap)
         /\ WriteFails(p) => MovedOn(p, "unlock")
<1>0. job[p] \in Job /\ job[p].at \in File /\ JobOK(job[p], snaps) /\ file[job[p].at] \in Content
      /\ <<>> \in Seq(Line)
  BY JobFacts, TypeParts
<1>1. ASSUME Compact(p) PROVE Moved(p, "archive", "orbs", 0)
  <2> DEFINE k == [Idle EXCEPT !.step = "archive", !.second = now']
  <2>1. now' \in Nat
    BY <1>1, ClockType DEF Compact
  <2>2. Fresh(k, "archive", 0)
    <3>1. "archive" \in Steps
      BY DEF Steps
    <3> QED BY <2>1, <3>1, FreshJobs
  <2>3. Goto(p, k)
    BY <1>1 DEF Compact
  <2> HIDE DEF k
  <2>4. Moved(p, k.step, k.at, k.snap)
    BY <2>2, <2>3, MoveTo DEF Fresh
  <2> QED BY <2>2, <2>4 DEF Fresh
<1>2. Archive(p) => MovedOn(p, "load")
  BY StepNames, MoveOn DEF Archive
<1>3. ArchiveFails(p) => MovedOn(p, "unlock")
  BY StepNames, MoveOn DEF ArchiveFails
<1>4. ASSUME Load(p), NEW c \in Compacted(job[p].at, file[job[p].at]),
             Goto(p, [job[p] EXCEPT !.step = "truncate", !.lines = c])
      PROVE  MovedOn(p, "truncate") /\ job'[p].lines = c
  <2>1. job[p].at \in File
    BY <1>0
  <2>2. c \in Seq(Line)
    BY <1>0, <2>1, CompactedView
  <2>3. Onward(job[p], [job[p] EXCEPT !.step = "truncate", !.lines = c], "truncate",
               job[p].at, c)
    BY <1>0, <2>2, StepNames, OnwardStepLines
  <2> QED BY <1>4, <2>3, MoveTo DEF Onward, MovedOn
<1>5. Goto(p, [job[p] EXCEPT !.step = "unlock"]) => MovedOn(p, "unlock")
  BY StepNames, MoveOn
<1>6. Truncate(p) => MovedOn(p, "write") /\ job'[p].lines = job[p].lines
  BY StepNames, MoveOn DEF Truncate
<1>7. ASSUME Write(p)
      PROVE  Moved(p, IF job[p].at = "orbs" THEN "archive" ELSE "unlock", "deps", job[p].snap)
  <2> DEFINE s == IF job[p].at = "orbs" THEN "archive" ELSE "unlock"
             k == [job[p] EXCEPT !.step = s, !.at = "deps", !.lines = <<>>]
  <2>1. s \in Steps /\ "deps" \in File
    BY StepNames DEF File
  <2>2. Onward(job[p], k, s, "deps", <<>>)
    BY <1>0, <2>1, OnwardAll
  <2>3. Goto(p, k)
    BY <1>7 DEF Write
  <2> HIDE DEF k
  <2> QED BY <2>2, <2>3, MoveTo DEF Onward
<1>8. ASSUME WriteFails(p) PROVE MovedOn(p, "unlock")
  <2> DEFINE k == [job[p] EXCEPT !.step = "unlock", !.lines = <<>>]
  <2>1. Onward(job[p], k, "unlock", job[p].at, <<>>)
    BY <1>0, StepNames, OnwardStepLines
  <2>2. Goto(p, k)
    BY <1>8 DEF WriteFails
  <2> HIDE DEF k
  <2> QED BY <2>1, <2>2, MoveTo DEF Onward, MovedOn
<1> QED BY <1>1, <1>2, <1>3, <1>4, <1>5, <1>6, <1>7, <1>8 DEF Load

LEMMA MoveRecover ==
  ASSUME TypeOK, NEW p \in Proc
  PROVE  /\ Recover(p) => \E i \in DOMAIN snaps : Moved(p, "restore", "orbs", i)
         /\ Restore(p) =>
              IF job[p].at \in snaps[job[p].snap].present
              THEN MovedOn(p, "refill") /\ file' = [file EXCEPT ![job[p].at] = <<>>]
              ELSE MovedPast(p) /\ UNCHANGED file
         /\ Refill(p) => MovedPast(p)
<1>1. ASSUME Recover(p) PROVE \E i \in DOMAIN snaps : Moved(p, "restore", "orbs", i)
  <2>1. PICK i \in DOMAIN snaps : Goto(p, [Idle EXCEPT !.step = "restore", !.snap = i])
    BY <1>1 DEF Recover
  <2> DEFINE k == [Idle EXCEPT !.step = "restore", !.snap = i]
  <2>2. i \in Nat
    BY LenProperties DEF TypeOK
  <2>3. Fresh(k, "restore", i)
    <3>1. "restore" \in Steps
      BY DEF Steps
    <3> QED BY <2>2, <3>1, FreshJobs
  <2>4. Goto(p, k)
    BY <2>1
  <2> HIDE DEF k
  <2>5. Moved(p, k.step, k.at, k.snap)
    BY <2>3, <2>4, MoveTo DEF Fresh
  <2> QED BY <2>3, <2>5 DEF Fresh
<1>2. ASSUME Restore(p)
      PROVE  IF job[p].at \in snaps[job[p].snap].present
             THEN MovedOn(p, "refill") /\ file' = [file EXCEPT ![job[p].at] = <<>>]
             ELSE MovedPast(p) /\ UNCHANGED file
  BY <1>2, StepNames, MoveOn, MovePast DEF Restore
<1>3. Refill(p) => MovedPast(p)
  BY MovePast DEF Refill
<1> QED BY <1>1, <1>2, <1>3
-----------------------------------------------------------------------------
(* The rest of type correctness.                                           *)

LEMMA PastType ==
  ASSUME TypeOK, NEW p \in Proc, job[p].step \in {"restore", "refill"}
  PROVE  Restored(p) \in Job /\ JobOK(Restored(p), snaps)
<1>0. /\ job[p] \in Job /\ JobOK(job[p], snaps) /\ job[p].at \in File
      /\ "unlock" \in Steps /\ "restore" \in Steps
  BY JobFacts, TypeParts, StepNames
<1>1. CASE job[p].at = "events"
  <2>1. Onward(job[p], [job[p] EXCEPT !.step = "unlock"], "unlock", job[p].at, job[p].lines)
    BY <1>0, OnwardStep
  <2>2. Restored(p) = [job[p] EXCEPT !.step = "unlock"]
    BY <1>1 DEF Restored
  <2> QED BY <2>1, <2>2 DEF Onward, JobOK
<1>2. CASE job[p].at # "events"
  <2>1. Onward(job[p], [job[p] EXCEPT !.step = "restore", !.at = After(job[p].at)], "restore",
               After(job[p].at), job[p].lines)
    BY <1>0, AfterFacts, OnwardStepFile
  <2>2. Restored(p) = [job[p] EXCEPT !.step = "restore", !.at = After(job[p].at)]
    BY <1>2 DEF Restored
  <2>3. job[p].snap \in DOMAIN snaps
    BY <1>0 DEF JobOK
  <2> QED BY <2>1, <2>2, <2>3 DEF Onward, JobOK
<1> QED BY <1>1, <1>2

\* The steps of a recovery, and a crash, keep the types.
LEMMA RecoverStepType ==
  ASSUME TypeOK, NEW p \in Proc,
         \/ RecoverBare(p) \/ Recover(p) \/ Restore(p) \/ Refill(p) \/ RefillFails(p)
         \/ Crash(p)
  PROVE  TypeOK'
<1>0. /\ file \in [File -> Content] /\ locked \in BOOLEAN /\ acked \in [File -> Seq(Line)]
      /\ archive \subseteq [file : File, second : Nat, line : Text]
      /\ now \in Nat /\ seen \subseteq Irregular /\ faults \in Nat
      /\ snaps \in Seq(Snap)
      /\ job[p] \in Job /\ JobOK(job[p], snaps) /\ job[p].at \in File
      /\ <<>> \in Content
      /\ Idle \in Job /\ JobOK(Idle, snaps)
  <2>1. Idle \in Job /\ JobOK(Idle, snaps)
    BY IdleFacts DEF JobOK
  <2>2. <<>> \in Content
    BY EmptySeq DEF Content
  <2> QED BY <2>1, <2>2, JobFacts, TypeParts
<1>1. CASE RecoverBare(p)
  <2>1. seen' \subseteq Irregular
    BY <1>0, <1>1, OverlapType DEF RecoverBare, Note, Irregular
  <2>2. UNCHANGED <<file, snaps, archive, now, job, acked, faults>> /\ locked' \in BOOLEAN
    BY <1>1 DEF RecoverBare
  <2> QED BY <2>1, <2>2, TypeParts, TypePartsNext
<1>2. CASE Recover(p)
  <2>1. PICK i \in DOMAIN snaps : Goto(p, [Idle EXCEPT !.step = "restore", !.snap = i])
    BY <1>2 DEF Recover
  <2>2. i \in Nat /\ "restore" \in Steps
    BY <1>0, StepNames, LenProperties
  <2>3. Fresh([Idle EXCEPT !.step = "restore", !.snap = i], "restore", i)
    BY <2>2, FreshJobs
  <2>4. seen' \subseteq Irregular
    BY <1>0, <1>2, OverlapType DEF Recover, Note, Irregular
  <2>5. UNCHANGED <<file, locked, snaps, archive, now, acked, faults>>
    BY <1>2 DEF Recover
  <2>6. JobOK([Idle EXCEPT !.step = "restore", !.snap = i], snaps)
    BY <2>3 DEF Fresh, JobOK
  <2> QED BY <1>0, <2>1, <2>3, <2>4, <2>5, <2>6, OtherStepType DEF Fresh
<1>3. CASE Restore(p)
  <2>0. UNCHANGED <<locked, snaps, archive, now, acked, seen, faults>> /\ job[p].step = "restore"
    BY <1>3 DEF Restore
  <2>1. CASE job[p].at \notin snaps[job[p].snap].present
    <3>1. Goto(p, Restored(p)) /\ UNCHANGED file
      BY <1>3, <2>1 DEF Restore
    <3>2. Restored(p) \in Job /\ JobOK(Restored(p), snaps)
      BY <2>0, PastType
    <3> QED BY <1>0, <2>0, <3>1, <3>2, OtherStepType
  <2>2. CASE job[p].at \in snaps[job[p].snap].present
    <3>1. /\ file' = [file EXCEPT ![job[p].at] = <<>>]
          /\ Goto(p, [job[p] EXCEPT !.step = "refill"])
      BY <1>3, <2>2 DEF Restore
    <3>2. "refill" \in Steps
      BY StepNames
    <3>3. Onward(job[p], [job[p] EXCEPT !.step = "refill"], "refill", job[p].at, job[p].lines)
      BY <1>0, <3>2, OnwardStep
    <3>4. JobOK([job[p] EXCEPT !.step = "refill"], snaps)
      BY <1>0, <2>0, <2>2, <3>3 DEF JobOK, Onward
    <3>5. file' \in [File -> Content]
      BY <1>0, <3>1
    <3>6. [job[p] EXCEPT !.step = "refill"] \in Job
      BY <3>3 DEF Onward
    <3> QED BY <1>0, <2>0, <3>1, <3>4, <3>5, <3>6, OtherStepType
  <2> QED BY <2>1, <2>2
<1>4. ASSUME job[p].step = "refill" PROVE snaps[job[p].snap].files[job[p].at] \in Content
  <2>1. snaps[job[p].snap] \in Snap
    BY <1>0, <1>4 DEF JobOK
  <2> QED BY <1>0, <2>1 DEF Snap
<1>5. CASE Refill(p)
  <2>1. /\ UNCHANGED <<locked, snaps, archive, now, acked, seen, faults>>
        /\ job[p].step = "refill" /\ Goto(p, Restored(p))
        /\ \E s \in Over(snaps[job[p].snap].files[job[p].at], file[job[p].at]) :
             file' = [file EXCEPT ![job[p].at] = s]
    BY <1>5 DEF Refill
  <2>2. file' \in [File -> Content]
    BY <1>0, <1>4, <2>1, RewriteType
  <2>3. Restored(p) \in Job /\ JobOK(Restored(p), snaps)
    BY <2>1, PastType
  <2> QED BY <1>0, <2>1, <2>2, <2>3, OtherStepType
<1>6. CASE RefillFails(p)
  <2>1. PICK c \in Cuts(snaps[job[p].snap].files[job[p].at]) :
          \E s \in Over(c, file[job[p].at]) : file' = [file EXCEPT ![job[p].at] = s]
    BY <1>6 DEF RefillFails
  <2>2. job[p].step = "refill" /\ Goto(p, Idle) /\ Fault
        /\ UNCHANGED <<locked, snaps, archive, now, acked, seen>>
    BY <1>6 DEF RefillFails
  <2>3. c \in Content
    BY <1>4, <2>1, <2>2, CutsFacts
  <2>4. file' \in [File -> Content]
    BY <1>0, <2>1, <2>3, RewriteType
  <2>5. faults' \in Nat
    BY <2>2, FaultType
  <2> QED BY <1>0, <2>2, <2>4, <2>5, OtherStepType
<1>7. CASE Crash(p)
  <2>1. Goto(p, Idle) /\ Fault /\ UNCHANGED <<file, locked, snaps, archive, now, acked>>
    BY <1>7 DEF Crash
  <2>2. faults' \in Nat
    BY <2>1, FaultType
  <2>3. seen' \subseteq Irregular
    BY <1>0, <1>7 DEF Crash, Note, Irregular
  <2> QED BY <1>0, <2>1, <2>2, <2>3, OtherStepType
<1> QED BY <1>1, <1>2, <1>3, <1>5, <1>6, <1>7

LEMMA AppendType ==
  ASSUME TypeOK, NEW o \in Offered, AppendLine(o)
  PROVE  TypeOK'
<1>1. /\ file' \in [File -> Content] /\ acked' \in [File -> Seq(Line)]
      /\ seen' \subseteq Irregular
      /\ UNCHANGED <<locked, snaps, archive, now, job, faults>>
  BY AppendFacts
<1> QED BY <1>1, TypeParts, TypePartsNext

LEMMA NextType ==
  ASSUME TypeOK, [Next]_vars
  PROVE  TypeOK'
<1>1. CASE UNCHANGED vars
  BY <1>1, TypeParts, TypePartsNext DEF vars
<1>2. ASSUME NEW o \in Offered, AppendLine(o) PROVE TypeOK'
  BY <1>2, AppendType
<1>3. ASSUME NEW p \in Proc, Step(p) PROVE TypeOK'
  BY <1>3, SnapshotStepType, CompactStepType, RecoverStepType DEF Step
<1> QED BY <1>1, <1>2, <1>3 DEF Next

\* Type correctness: every file, snapshot and archive holds lines, a torn or a
\* garbled one at most, a compaction is at one of its two files, and what
\* recover_pipeline copies is in the snapshot it copies from.
THEOREM TypeCorrect == Spec => []TypeOK
<1>1. TypeOK /\ [Next]_vars => TypeOK'
  BY NextType
<1> QED BY InitType, <1>1, PTL DEF Spec
-----------------------------------------------------------------------------
(* What no step of a process takes back.                                   *)

LEMMA StepFrame ==
  ASSUME TypeOK, NEW p \in Proc, Step(p)
  PROVE  /\ seen \subseteq seen'
         /\ UNCHANGED acked
         /\ DOMAIN snaps \subseteq DOMAIN snaps'
         /\ \A i \in DOMAIN snaps : snaps'[i].mark = snaps[i].mark
<1>0. /\ file[job[p].at] \in Content /\ job[p].at \in File
      /\ job[p].step = "copy" => job[p].snap \in DOMAIN snaps
  BY JobFacts, TypeParts DEF JobOK
<1>1. CASE Snapshot(p)
  <2>1. /\ DOMAIN snaps \subseteq DOMAIN snaps'
        /\ \A i \in DOMAIN snaps : snaps'[i].mark = snaps[i].mark
    BY <1>1, SnapshotFacts
  <2> QED BY <1>1, <2>1 DEF Snapshot, Note
<1>2. ASSUME NEW c \in Content, Copied(job[p].snap, job[p].at, c), job[p].step = "copy"
      PROVE  /\ DOMAIN snaps \subseteq DOMAIN snaps'
             /\ \A i \in DOMAIN snaps : snaps'[i].mark = snaps[i].mark
  BY <1>0, <1>2, CopiedFacts
<1>3. CASE CopyFile(p)
  <2>1. Copied(job[p].snap, job[p].at, file[job[p].at]) /\ job[p].step = "copy"
    BY <1>3 DEF CopyFile
  <2> QED BY <1>0, <1>2, <1>3, <2>1 DEF CopyFile, Note
<1>4. CASE CopyFails(p)
  <2>1. PICK c \in Cuts(file[job[p].at]) : Copied(job[p].snap, job[p].at, c)
    BY <1>4 DEF CopyFails
  <2>2. c \in Content /\ job[p].step = "copy"
    BY <1>0, <1>4, <2>1, CutsFacts DEF CopyFails
  <2> QED BY <1>2, <1>4, <2>1, <2>2 DEF CopyFails, Note
<1>5. CASE \/ Compact(p) \/ Archive(p) \/ ArchiveFails(p) \/ Load(p)
           \/ Truncate(p) \/ Write(p) \/ WriteFails(p) \/ Unlock(p)
  <2>1. UNCHANGED <<acked, snaps>>
    BY <1>5 DEF Compact, Archive, ArchiveFails, Load, Truncate, Write, WriteFails, Unlock
  <2>2. seen \subseteq seen'
    BY <1>5 DEF Compact, Archive, ArchiveFails, Load, Truncate, Write, WriteFails, Unlock,
                Filed, Note
  <2> QED BY <2>1, <2>2
<1>6. CASE \/ RecoverBare(p) \/ Recover(p) \/ Restore(p) \/ Refill(p) \/ RefillFails(p)
           \/ Crash(p)
  <2>1. UNCHANGED <<acked, snaps>>
    BY <1>6 DEF RecoverBare, Recover, Restore, Refill, RefillFails, Crash
  <2>2. seen \subseteq seen'
    BY <1>6 DEF RecoverBare, Recover, Restore, Refill, RefillFails, Crash, Note
  <2> QED BY <2>1, <2>2
<1> QED BY <1>1, <1>3, <1>4, <1>5, <1>6 DEF Step

\* What JobShape says of a process at step s with snapshot i.
Fits(s, i, S, X) ==
  /\ s \in {"archive", "load", "truncate", "write"} => i = 0
  /\ i # 0 => i \in DOMAIN S
  /\ i # 0 /\ s # "copy" => "recovering" \in X

LEMMA ShapeOfStep ==
  ASSUME TypeOK, JobShape, NEW p \in Proc, Step(p)
  PROVE  JobShape'
<1>0. /\ seen \subseteq seen' /\ DOMAIN snaps \subseteq DOMAIN snaps'
      /\ job[p].at \in File /\ Fits(job[p].step, job[p].snap, snaps, seen)
  BY JobFacts, StepFrame DEF TypeOK, JobShape, Fits
<1>1. ASSUME NEW s, NEW f, NEW i, Moved(p, s, f, i), Fits(s, i, snaps', seen')
      PROVE  JobShape'
  BY <1>0, <1>1 DEF Moved, Fits, JobShape
<1>2. ASSUME NEW s \in {"load", "truncate", "write"}, MovedOn(p, s), job[p].snap = 0
      PROVE  JobShape'
  BY <1>1, <1>2 DEF MovedOn, Fits
<1>3. ASSUME NEW s \in {"unlock", "refill", "restore"}, NEW f,
             Moved(p, s, f, job[p].snap), job[p].step # "copy"
      PROVE  JobShape'
  BY <1>0, <1>1, <1>3 DEF Fits
<1>4. CASE Snapshot(p)
  <2>1. Moved(p, "copy", "orbs", Len(snaps) + 1) /\ Len(snaps) + 1 \in DOMAIN snaps'
    BY <1>4, MoveSnapshot, SnapshotFacts
  <2> QED BY <1>1, <2>1 DEF Fits
<1>5. CASE CopyFile(p)
  <2>1. \/ Moved(p, "idle", "orbs", 0)
        \/ Moved(p, "copy", After(job[p].at), job[p].snap)
    BY <1>5, MoveSnapshot
  <2> QED BY <1>0, <1>1, <2>1 DEF Fits
<1>6. CASE CopyFails(p) \/ RefillFails(p) \/ Crash(p) \/ Unlock(p)
  <2>1. Moved(p, "idle", "orbs", 0)
    BY <1>6, MoveIdle
  <2> QED BY <1>1, <2>1 DEF Fits
<1>7. CASE Compact(p)
  <2>1. Moved(p, "archive", "orbs", 0)
    BY <1>7, MoveCompact
  <2> QED BY <1>1, <2>1 DEF Fits
<1>8. CASE Archive(p) \/ ArchiveFails(p) \/ Load(p) \/ Truncate(p) \/ WriteFails(p)
  <2>1. \/ MovedOn(p, "load") \/ MovedOn(p, "truncate") \/ MovedOn(p, "write")
        \/ MovedOn(p, "unlock")
    BY <1>8, MoveCompact
  <2>2. job[p].step \in {"archive", "load", "truncate", "write"}
    BY <1>8 DEF Archive, ArchiveFails, Load, Truncate, WriteFails
  <2>3. job[p].snap = 0 /\ job[p].step # "copy"
    BY <1>0, <2>2 DEF Fits
  <2> QED BY <1>2, <1>3, <2>1, <2>3 DEF MovedOn
<1>9. CASE Write(p)
  <2>1. Moved(p, IF job[p].at = "orbs" THEN "archive" ELSE "unlock", "deps", job[p].snap)
    BY <1>9, MoveCompact
  <2>2. job[p].snap = 0
    BY <1>0, <1>9 DEF Fits, Write
  <2> QED BY <1>1, <2>1, <2>2 DEF Fits
<1>10. CASE RecoverBare(p)
  <2>1. UNCHANGED <<job, snaps>>
    BY <1>10 DEF RecoverBare
  <2> QED BY <1>0, <2>1 DEF JobShape
<1>11. CASE Recover(p)
  <2>1. "recovering" \in seen'
    BY <1>11 DEF Recover, Note
  <2>2. PICK i \in DOMAIN snaps : Moved(p, "restore", "orbs", i)
    BY <1>11, MoveRecover
  <2> QED BY <1>0, <1>1, <2>1, <2>2 DEF Fits
<1>12. CASE Restore(p) \/ Refill(p)
  <2>1. MovedOn(p, "refill") \/ MovedPast(p)
    BY <1>12, MoveRecover
  <2>2. job[p].step # "copy"
    BY <1>12 DEF Restore, Refill
  <2> QED BY <1>3, <2>1, <2>2 DEF MovedOn, MovedPast
<1> QED BY <1>4, <1>5, <1>6, <1>7, <1>8, <1>9, <1>10, <1>11, <1>12 DEF Step

LEMMA MarksOfStep ==
  ASSUME TypeOK, MarksInPast, NEW p \in Proc, Step(p)
  PROVE  MarksInPast'
<1>1. UNCHANGED acked /\ \A i \in DOMAIN snaps : snaps'[i].mark = snaps[i].mark
  BY StepFrame
<1>2. \A f \in File : Len(acked[f]) \in Nat
  BY LenProperties DEF TypeOK
<1>3. CASE Snapshot(p)
  <2>1. /\ DOMAIN snaps' = DOMAIN snaps \cup {Len(snaps) + 1}
        /\ snaps'[Len(snaps) + 1].mark = [f \in File |-> Len(acked[f])]
    BY <1>3, SnapshotFacts
  <2> QED BY <1>1, <1>2, <2>1 DEF MarksInPast
<1>4. CASE ~ Snapshot(p)
  <2>1. DOMAIN snaps' = DOMAIN snaps
    <3>1. CASE CopyFile(p) \/ CopyFails(p)
      <4>1. \E i, f, c : snaps' = [snaps EXCEPT ![i].present = @ \cup {f}, ![i].files[f] = c,
                                                ![i].mtime = now']
        BY <3>1 DEF CopyFile, CopyFails, Copied
      <4> QED BY <4>1
    <3>2. CASE ~ (CopyFile(p) \/ CopyFails(p))
      BY <1>4, <3>2 DEF Step, Compact, Archive, ArchiveFails, Load, Truncate, Write, WriteFails,
                        Unlock, RecoverBare, Recover, Restore, Refill, RefillFails, Crash
    <3> QED BY <3>1, <3>2
  <2> QED BY <1>1, <2>1 DEF MarksInPast
<1> QED BY <1>3, <1>4

\* An append.
LEMMA ShapeOfAppend ==
  ASSUME TypeOK, JobShape, MarksInPast, NEW o \in Offered, AppendLine(o)
  PROVE  JobShape' /\ MarksInPast'
<1>1. /\ UNCHANGED <<snaps, job>> /\ seen \subseteq seen'
      /\ \E f \in File, line \in Line :
           /\ acked'[f] = Append(acked[f], line)
           /\ \A g \in File : g # f => acked'[g] = acked[g]
  BY AppendFacts
<1>2. \A i \in DOMAIN snaps : \A f \in File : snaps[i].mark[f] \in Nat
  <2>1. \A i \in DOMAIN snaps : snaps[i] \in Snap
    BY LenProperties DEF TypeOK
  <2> QED BY <2>1 DEF Snap
<1>3. \A f \in File : Len(acked'[f]) \in Nat /\ Len(acked[f]) <= Len(acked'[f])
  BY <1>1, AppendProperties, LenProperties DEF TypeOK
<1>4. MarksInPast'
  <2> SUFFICES ASSUME NEW i \in DOMAIN snaps, NEW f \in File
               PROVE  snaps[i].mark[f] <= Len(acked'[f])
    BY <1>1 DEF MarksInPast
  <2>1. snaps[i].mark[f] <= Len(acked[f]) /\ Len(acked[f]) \in Nat
    BY LenProperties DEF MarksInPast, TypeOK
  <2> QED BY <1>2, <1>3, <2>1
<1> QED BY <1>1, <1>4 DEF JobShape
-----------------------------------------------------------------------------
(* HistoryInv.                                                             *)

\* The history after a step.
Remembers(f, l) == \E a \in archive' : a.file = f /\ a.line = l

LEMMA HistoryOfMove ==
  ASSUME HistoryInv, Recorded, UNCHANGED acked,
         NEW p \in Proc, NEW s, NEW f, NEW i, Moved(p, s, f, i),
         \A g, l : InHistory(g, l) => Remembers(g, l),
         \A g \in File : \/ Elems(file[g]) \subseteq Elems(file'[g])
                         \/ \A k \in DOMAIN acked[g] : InHistory(g, acked[g][k]),
         s \in {"load", "truncate", "write"} =>
           \A k \in DOMAIN acked[f] : Remembers(f, acked[f][k])
  PROVE  HistoryInv'
<1>1. \A g \in File : \A k \in DOMAIN acked[g] :
        acked[g][k] \in Elems(file'[g]) \/ Remembers(g, acked[g][k])
  BY DEF HistoryInv, Kept
<1>2. ASSUME NEW q \in Proc, job'[q].step \in {"load", "truncate", "write"}
      PROVE  \A k \in DOMAIN acked[job'[q].at] :
               Remembers(job'[q].at, acked[job'[q].at][k])
  <2>1. CASE q = p
    BY <1>2, <2>1 DEF Moved
  <2>2. CASE q # p
    <3>1. job'[q] = job[q]
      BY <2>2 DEF Moved
    <3>2. \A k \in DOMAIN acked[job[q].at] : InHistory(job[q].at, acked[job[q].at][k])
      BY <1>2, <3>1 DEF HistoryInv
    <3> QED BY <3>1, <3>2
  <2> QED BY <2>1, <2>2
<1> QED BY <1>1, <1>2 DEF HistoryInv, Kept, InHistory, Remembers

\* Without a clash, filing only adds to the history.
LEMMA FiledRemembers ==
  ASSUME NEW p \in Proc, NEW f \in File, NEW c \in Content, Filed(p, f, c), "clash" \notin seen'
  PROVE  /\ \A g, l : InHistory(g, l) => Remembers(g, l)
         /\ \A l \in Elems(c) : Remembers(f, l)
<1>1. Archived(p, f) = {}
  BY DEF Filed, Note
<1>2. archive' = archive \cup {[file |-> f, second |-> job[p].second, line |-> l] : l \in Elems(c)}
  BY <1>1 DEF Filed
<1>3. ASSUME NEW l \in Elems(c) PROVE Remembers(f, l)
  <2> DEFINE a == [file |-> f, second |-> job[p].second, line |-> l]
  <2>1. a \in archive'
    BY <1>2, <1>3
  <2>2. a.file = f /\ a.line = l
    OBVIOUS
  <2> QED BY <2>1, <2>2 DEF Remembers
<1>4. \A g, l : InHistory(g, l) => Remembers(g, l)
  BY <1>2 DEF InHistory, Remembers
<1> QED BY <1>3, <1>4

LEMMA HistoryOfStep ==
  ASSUME TypeOK, JobShape, HistoryInv, NEW p \in Proc, Step(p)
  PROVE  HistoryInv'
<1> SUFFICES ASSUME Recorded'
             PROVE  HistoryInv'
  BY DEF HistoryInv
<1>0. /\ Recorded /\ UNCHANGED acked
      /\ "recovering" \notin seen /\ "recovering" \notin seen' /\ "recovered" \notin seen'
      /\ "clash" \notin seen'
      /\ job[p].at \in File /\ file \in [File -> Content]
  BY StepFrame, JobFacts DEF Recorded, TypeOK
<1>1. job[p].step \notin {"restore", "refill"}
  <2>1. job[p].step \in {"restore", "refill"} => job[p].snap \in DOMAIN snaps
    BY TypeParts DEF JobOK
  <2>2. 0 \notin DOMAIN snaps
    BY LenProperties DEF TypeOK
  <2> QED BY <1>0, <2>1, <2>2 DEF JobShape
<1>2. ASSUME UNCHANGED archive
      PROVE  \A g, l : InHistory(g, l) => Remembers(g, l)
  BY <1>2 DEF InHistory, Remembers
<1>3. ASSUME NEW s, NEW f, NEW i, Moved(p, s, f, i), s \notin {"load", "truncate", "write"},
             UNCHANGED file, \A g, l : InHistory(g, l) => Remembers(g, l)
      PROVE  HistoryInv'
  <2>1. \A g \in File : Elems(file[g]) \subseteq Elems(file'[g])
    BY <1>3
  <2> QED BY <1>0, <1>3, <2>1, HistoryOfMove
<1>4. CASE \/ Snapshot(p) \/ CopyFile(p) \/ CopyFails(p) \/ Compact(p) \/ Unlock(p) \/ Crash(p)
  <2>1. UNCHANGED <<file, archive>>
    BY <1>4 DEF Snapshot, CopyFile, CopyFails, Compact, Unlock, Crash
  <2>2. \E s, f, i : Moved(p, s, f, i) /\ s \notin {"load", "truncate", "write"}
    BY <1>4, MoveSnapshot, MoveCompact, MoveIdle
  <2> QED BY <1>2, <1>3, <2>1, <2>2
<1>5. CASE Archive(p)
  <2>1. Filed(p, job[p].at, file[job[p].at]) /\ UNCHANGED file
    BY <1>5 DEF Archive
  <2>2. /\ \A g, l : InHistory(g, l) => Remembers(g, l)
        /\ \A l \in Elems(file[job[p].at]) : Remembers(job[p].at, l)
    BY <1>0, <2>1, FiledRemembers
  <2>3. \A k \in DOMAIN acked[job[p].at] : Remembers(job[p].at, acked[job[p].at][k])
    BY <1>0, <2>2 DEF HistoryInv, Kept
  <2>4. Moved(p, "load", job[p].at, job[p].snap)
    BY <1>5, MoveCompact DEF MovedOn
  <2>5. \A g \in File : Elems(file[g]) \subseteq Elems(file'[g])
    BY <2>1
  <2> QED BY <1>0, <2>2, <2>3, <2>4, <2>5, HistoryOfMove
<1>6. CASE ArchiveFails(p)
  <2>1. PICK c \in Cuts(file[job[p].at]) : Filed(p, job[p].at, c)
    BY <1>6 DEF ArchiveFails
  <2>2. c \in Content
    BY <1>0, <2>1, CutsFacts
  <2>3. \A g, l : InHistory(g, l) => Remembers(g, l)
    BY <1>0, <2>1, <2>2, FiledRemembers
  <2>4. Moved(p, "unlock", job[p].at, job[p].snap) /\ UNCHANGED file
    BY <1>6, MoveCompact DEF MovedOn, ArchiveFails
  <2> QED BY <1>3, <2>3, <2>4
<1>7. ASSUME NEW s \in {"truncate", "write"}, MovedOn(p, s), UNCHANGED archive,
             job[p].step \in {"load", "truncate", "write"},
             \A g \in File : g # job[p].at => file'[g] = file[g]
      PROVE  HistoryInv'
  <2>1. \A k \in DOMAIN acked[job[p].at] : InHistory(job[p].at, acked[job[p].at][k])
    BY <1>0, <1>7 DEF HistoryInv
  <2>2. \A g, l : InHistory(g, l) => Remembers(g, l)
    BY <1>2, <1>7
  <2>3. \A g \in File : \/ Elems(file[g]) \subseteq Elems(file'[g])
                        \/ \A k \in DOMAIN acked[g] : InHistory(g, acked[g][k])
    BY <1>7, <2>1
  <2>4. Moved(p, s, job[p].at, job[p].snap)
    BY <1>7 DEF MovedOn
  <2>5. \A k \in DOMAIN acked[job[p].at] : Remembers(job[p].at, acked[job[p].at][k])
    BY <2>1, <2>2
  <2> QED BY <1>0, <2>2, <2>3, <2>4, <2>5, HistoryOfMove
<1>8. CASE Load(p)
  <2>1. UNCHANGED <<file, archive>> /\ job[p].step = "load"
    BY <1>8 DEF Load
  <2>2. CASE MovedOn(p, "truncate")
    BY <1>7, <2>1, <2>2
  <2>3. CASE MovedOn(p, "unlock")
    BY <1>2, <1>3, <2>1, <2>3 DEF MovedOn
  <2> QED BY <1>8, <2>2, <2>3, MoveCompact
<1>9. CASE Truncate(p)
  <2>1. /\ UNCHANGED archive /\ job[p].step = "truncate" /\ MovedOn(p, "write")
        /\ file' = [file EXCEPT ![job[p].at] = <<>>]
    BY <1>9, MoveCompact DEF Truncate
  <2>2. \A g \in File : g # job[p].at => file'[g] = file[g]
    BY <1>0, <2>1
  <2> QED BY <1>7, <2>1, <2>2
<1>10. CASE Write(p) \/ WriteFails(p)
  <2>1. /\ UNCHANGED archive /\ job[p].step = "write"
        /\ \E s : file' = [file EXCEPT ![job[p].at] = s]
    BY <1>10 DEF Write, WriteFails
  <2>2. \A k \in DOMAIN acked[job[p].at] : InHistory(job[p].at, acked[job[p].at][k])
    BY <1>0, <2>1 DEF HistoryInv
  <2>3. \A g \in File : \/ Elems(file[g]) \subseteq Elems(file'[g])
                        \/ \A k \in DOMAIN acked[g] : InHistory(g, acked[g][k])
    BY <1>0, <2>1, <2>2
  <2>4. \E s, f, i : Moved(p, s, f, i) /\ s \in {"archive", "unlock"}
    BY <1>10, MoveCompact DEF MovedOn
  <2>5. PICK s, f, i : Moved(p, s, f, i) /\ s \in {"archive", "unlock"}
    BY <2>4
  <2>6. \A g, l : InHistory(g, l) => Remembers(g, l)
    BY <1>2, <2>1
  <2> QED BY <1>0, <2>3, <2>5, <2>6, HistoryOfMove
<1>11. ~ RecoverBare(p) /\ ~ Recover(p) /\ ~ Restore(p) /\ ~ Refill(p) /\ ~ RefillFails(p)
  BY <1>0, <1>1 DEF RecoverBare, Recover, Restore, Refill, RefillFails, Note
<1> QED BY <1>4, <1>5, <1>6, <1>8, <1>9, <1>10, <1>11 DEF Step

\* A line that is appended is in its file at least, which loses nothing.
LEMMA HistoryOfAppend ==
  ASSUME TypeOK, HistoryInv, NEW o \in Offered, AppendLine(o)
  PROVE  HistoryInv'
<1> SUFFICES ASSUME Recorded'
             PROVE  HistoryInv'
  BY DEF HistoryInv
<1>1. /\ seen \subseteq seen' /\ UNCHANGED <<archive, job>>
      /\ \E f \in File, line \in Line :
           /\ acked'[f] = Append(acked[f], line)
           /\ \A g \in File : g # f => file'[g] = file[g] /\ acked'[g] = acked[g]
           /\ "raced" \notin seen' =>
                /\ file'[f] = Append(file[f], line)
                /\ \A p \in Proc : job[p].step \in {"load", "truncate", "write"} => job[p].at # f
  BY AppendFacts
<1>2. Recorded /\ "raced" \notin seen'
  BY <1>1 DEF Recorded
<1>3. PICK f \in File, line \in Line :
        /\ acked'[f] = Append(acked[f], line)
        /\ \A g \in File : g # f => file'[g] = file[g] /\ acked'[g] = acked[g]
        /\ file'[f] = Append(file[f], line)
        /\ \A p \in Proc : job[p].step \in {"load", "truncate", "write"} => job[p].at # f
  BY <1>1, <1>2
<1>4. file[f] \in Content /\ line \in Text /\ acked[f] \in Seq(Line) /\ acked[f] \in Content
  BY TextFacts, LinesAreContent DEF TypeOK
<1>5. Elems(file'[f]) = Elems(file[f]) \cup {line}
  BY <1>3, <1>4, ElemsOfAppend
<1>6. Elems(acked'[f]) = Elems(acked[f]) \cup {line}
  BY <1>3, <1>4, ElemsOfAppend
<1>7. ASSUME NEW g \in File, NEW i \in DOMAIN acked'[g]
      PROVE  acked'[g][i] \in Elems(file'[g]) \/ Remembers(g, acked'[g][i])
  <2>1. CASE g = f
    <3>1. acked'[f][i] \in Elems(acked'[f])
      BY <1>7, <2>1 DEF Elems
    <3>2. \A l \in Elems(acked[f]) : Kept(f, l)
      BY <1>2 DEF HistoryInv, Elems
    <3> QED BY <1>1, <1>5, <1>6, <2>1, <3>1, <3>2 DEF Kept, InHistory, Remembers
  <2>2. CASE g # f
    <3>1. Kept(g, acked[g][i]) /\ acked'[g] = acked[g] /\ file'[g] = file[g]
      BY <1>2, <1>3, <1>7, <2>2 DEF HistoryInv
    <3> QED BY <1>1, <3>1 DEF Kept, InHistory, Remembers
  <2> QED BY <2>1, <2>2
<1>8. ASSUME NEW p \in Proc, job'[p].step \in {"load", "truncate", "write"}
      PROVE  \A i \in DOMAIN acked'[job'[p].at] : Remembers(job'[p].at, acked'[job'[p].at][i])
  <2>1. job'[p] = job[p] /\ job[p].at \in File /\ job[p].at # f
    BY <1>1, <1>3, <1>8, JobFacts DEF TypeOK
  <2>2. acked'[job[p].at] = acked[job[p].at]
    BY <1>3, <2>1
  <2>3. \A i \in DOMAIN acked[job[p].at] : InHistory(job[p].at, acked[job[p].at][i])
    BY <1>2, <1>8, <2>1 DEF HistoryInv
  <2> QED BY <1>1, <2>1, <2>2, <2>3 DEF InHistory, Remembers
<1> QED BY <1>7, <1>8 DEF HistoryInv, Kept, InHistory, Remembers
-----------------------------------------------------------------------------
(* DamageInv.                                                              *)

AgreesNext(f) == View(f, file'[f]) = View(f, acked'[f])

\* Where no two operations overlap, the process that steps is alone.
LEMMA Alone ==
  ASSUME TypeOK, DamageInv, Sound', NEW p \in Proc, Step(p)
  PROVE  /\ Sound
         /\ \A q \in Proc : q # p => ~ Busy(q)
         /\ Busy(p) /\ job[p].step = "copy" => ~ locked
         /\ Busy(p) /\ job[p].step # "copy" => locked
<1>1. Sound
  BY StepFrame DEF Sound
<1>2. OneAtATime /\ LockedWork
  BY <1>1 DEF DamageInv
<1>3. CASE Busy(p)
  BY <1>1, <1>2, <1>3 DEF OneAtATime, LockedWork
<1>4. CASE ~ Busy(p)
  <2>1. Snapshot(p) \/ Compact(p) \/ RecoverBare(p) \/ Recover(p)
    BY <1>4 DEF Step, Busy, CopyFile, CopyFails, Archive, ArchiveFails, Load, Truncate, Write,
                WriteFails, Unlock, Restore, Refill, RefillFails, Crash
  <2>2. "overlap" \notin seen' /\ "recovered" \notin seen'
    BY DEF Sound
  <2>3. Snapshot(p) => Overlap(p) = {} \/ locked
    BY <2>2 DEF Snapshot, Note, Overlap
  <2>4. Compact(p) => Overlap(p) = {} \/ locked
    BY <2>2 DEF Compact, Note, Overlap
  <2>5. Recover(p) => Overlap(p) = {}
    BY <2>2 DEF Recover, Note, Overlap
  <2>6. Snapshot(p) \/ Compact(p) => ~ locked
    BY <2>2 DEF Snapshot, Compact, Note
  <2>7. ~ RecoverBare(p)
    BY <2>2 DEF RecoverBare, Note
  <2>8. Overlap(p) = {}
    BY <2>1, <2>3, <2>4, <2>5, <2>6, <2>7
  <2> QED BY <1>1, <1>4, <2>8 DEF Overlap
<1> QED BY <1>3, <1>4

\* So DamageInv is about that process only.
LEMMA DamageOfMove ==
  ASSUME NEW p \in Proc, \A q \in Proc : q # p => ~ Busy(q),
         NEW s, NEW f, NEW i, Moved(p, s, f, i),
         s = "copy" => ~ locked',
         s # "idle" /\ s # "copy" => locked',
         ~ locked' => \A g \in File : AgreesNext(g),
         s # "idle" /\ i = 0 =>
           /\ \A g \in File : AgreesNext(g) \/ (s = "write" /\ g = f)
           /\ s \in {"truncate", "write"} => View(f, job'[p].lines) = View(f, acked'[f])
           /\ s = "write" => file'[f] = <<>>
  PROVE  DamageInv'
<1>1. \A q \in Proc : q # p => job'[q].step = "idle"
  BY DEF Moved, Busy
<1>2. job'[p].step = s /\ job'[p].at = f /\ job'[p].snap = i
  BY DEF Moved
<1>3. OneAtATime'
  BY <1>1 DEF OneAtATime, Busy
<1>4. LockedWork'
  BY <1>1, <1>2 DEF LockedWork, Busy
<1>5. RewriteAgrees'
  BY <1>1, <1>2 DEF RewriteAgrees, Busy, Agrees, AgreesNext
<1>6. (~ locked => \A g \in File : Agrees(g))'
  BY DEF Agrees, AgreesNext
<1> QED BY <1>3, <1>4, <1>5, <1>6 DEF DamageInv

LEMMA DamageOfStep ==
  ASSUME TypeOK, JobShape, DamageInv, NEW p \in Proc, Step(p)
  PROVE  DamageInv'
<1> SUFFICES ASSUME Sound'
             PROVE  DamageInv'
  BY DEF DamageInv
<1>0. /\ Sound /\ \A q \in Proc : q # p => ~ Busy(q)
      /\ Busy(p) /\ job[p].step = "copy" => ~ locked
      /\ Busy(p) /\ job[p].step # "copy" => locked
      /\ UNCHANGED acked
      /\ file \in [File -> Content] /\ job[p].at \in File /\ locked \in BOOLEAN
      /\ JobOK(job[p], snaps)
      /\ "overlap" \notin seen' /\ "recovered" \notin seen' /\ "cut" \notin seen'
  BY Alone, StepFrame, JobFacts, TypeParts DEF Sound
<1>1. \A g : View(g, file[g]) = View(g, acked[g]) /\ UNCHANGED file => AgreesNext(g)
  BY <1>0 DEF AgreesNext
<1>2. ~ locked => \A g \in File : View(g, file[g]) = View(g, acked[g])
  BY <1>0 DEF DamageInv, Agrees
<1>3. Busy(p) /\ job[p].snap = 0 =>
        /\ \A g \in File : \/ View(g, file[g]) = View(g, acked[g])
                           \/ job[p].step = "write" /\ g = job[p].at
        /\ job[p].step \in {"truncate", "write"} =>
             View(job[p].at, job[p].lines) = View(job[p].at, acked[job[p].at])
        /\ job[p].step = "write" => file[job[p].at] = <<>>
  BY <1>0 DEF DamageInv, RewriteAgrees, Agrees
<1>4. 0 \notin DOMAIN snaps
  BY LenProperties DEF TypeOK
<1>5. CASE Snapshot(p) \/ CopyFile(p)
  <2>1. UNCHANGED <<file, locked>> /\ ~ locked
    BY <1>0, <1>5 DEF Snapshot, CopyFile, Note, Busy
  <2>2. \A g \in File : AgreesNext(g)
    BY <1>1, <1>2, <2>1
  <2>3. ASSUME NEW s, NEW f, NEW i, Moved(p, s, f, i), s = "idle" \/ (s = "copy" /\ i # 0)
        PROVE  DamageInv'
    BY <1>0, <2>1, <2>2, <2>3, DamageOfMove
  <2>4. CASE Snapshot(p)
    <3>1. Len(snaps) + 1 # 0
      BY LenProperties DEF TypeOK
    <3>2. Moved(p, "copy", "orbs", Len(snaps) + 1)
      BY <2>4, MoveSnapshot
    <3> QED BY <2>3, <3>1, <3>2
  <2>5. CASE CopyFile(p)
    <3>1. job[p].snap # 0
      BY <1>0, <1>4, <2>5 DEF JobOK, CopyFile
    <3>2. \/ Moved(p, "idle", "orbs", 0)
          \/ Moved(p, "copy", After(job[p].at), job[p].snap)
      BY <2>5, MoveSnapshot
    <3>3. Moved(p, "copy", After(job[p].at), job[p].snap) => DamageInv'
      BY <2>3, <3>1
    <3>4. Moved(p, "idle", "orbs", 0) => DamageInv'
      BY <1>0, <2>1, <2>2, DamageOfMove
    <3> QED BY <3>2, <3>3, <3>4
  <2> QED BY <1>5, <2>4, <2>5
<1>6. CASE CopyFails(p) \/ Crash(p)
  <2>1. UNCHANGED <<file, locked>> /\ Moved(p, "idle", "orbs", 0)
    BY <1>6, MoveIdle DEF CopyFails, Crash
  <2>2. ~ locked' => \A g \in File : AgreesNext(g)
    BY <1>1, <1>2, <2>1
  <2> QED BY <1>0, <2>1, <2>2, DamageOfMove
<1>7. CASE Compact(p)
  <2>1. UNCHANGED file /\ ~ locked /\ locked' /\ Moved(p, "archive", "orbs", 0)
    BY <1>0, <1>7, MoveCompact DEF Compact, Note
  <2>2. \A g \in File : AgreesNext(g)
    BY <1>1, <1>2, <2>1
  <2> QED BY <1>0, <2>1, <2>2, DamageOfMove
<1>8. CASE Archive(p) \/ ArchiveFails(p)
  <2>1. UNCHANGED <<file, locked>> /\ job[p].step = "archive" /\ job[p].snap = 0
    BY <1>8 DEF Archive, ArchiveFails, JobShape
  <2>2. locked' /\ \A g \in File : AgreesNext(g)
    BY <1>0, <1>1, <1>3, <2>1 DEF Busy
  <2>3. \E s, f, i : Moved(p, s, f, i) /\ s \in {"load", "unlock"}
    BY <1>8, MoveCompact DEF MovedOn
  <2>4. PICK s, f, i : Moved(p, s, f, i) /\ s \in {"load", "unlock"}
    BY <2>3
  <2> QED BY <1>0, <2>2, <2>4, DamageOfMove
<1>9. CASE Load(p)
  <2>1. UNCHANGED <<file, locked>> /\ job[p].step = "load" /\ job[p].snap = 0
    BY <1>9 DEF Load, JobShape
  <2>2. locked' /\ \A g \in File : AgreesNext(g)
    BY <1>0, <1>1, <1>3, <2>1 DEF Busy
  <2>3. ASSUME MovedOn(p, "truncate"), job'[p].lines \in Compacted(job[p].at, file[job[p].at])
        PROVE  DamageInv'
    <3>1. job[p].at \in File
      BY <1>0 DEF Job
    <3>2. View(job[p].at, job'[p].lines) = View(job[p].at, file[job[p].at])
      BY <1>0, <2>3, <3>1, CompactedView
    <3>3. View(job[p].at, job'[p].lines) = View(job[p].at, acked'[job[p].at])
      BY <1>0, <2>1, <2>2, <3>2 DEF AgreesNext
    <3>4. Moved(p, "truncate", job[p].at, job[p].snap)
      BY <2>3 DEF MovedOn
    <3> QED BY <1>0, <2>2, <3>3, <3>4, DamageOfMove
  <2>4. ASSUME MovedOn(p, "unlock")
        PROVE  DamageInv'
    <3>1. Moved(p, "unlock", job[p].at, job[p].snap)
      BY <2>4 DEF MovedOn
    <3> QED BY <1>0, <2>2, <3>1, DamageOfMove
  <2> QED BY <1>9, <2>3, <2>4, MoveCompact
<1>10. CASE Truncate(p)
  <2>1. /\ UNCHANGED locked /\ job[p].step = "truncate" /\ job[p].snap = 0
        /\ file' = [file EXCEPT ![job[p].at] = <<>>]
        /\ Moved(p, "write", job[p].at, job[p].snap) /\ job'[p].lines = job[p].lines
    BY <1>10, MoveCompact DEF Truncate, JobShape, MovedOn
  <2>2. locked'
    BY <1>0, <2>1 DEF Busy
  <2>3. file'[job[p].at] = <<>> /\ \A g \in File : g # job[p].at => file'[g] = file[g]
    BY <1>0, <2>1
  <2>4. \A g \in File : AgreesNext(g) \/ g = job[p].at
    BY <1>0, <1>3, <2>1, <2>3 DEF AgreesNext, Busy
  <2>5. View(job[p].at, job'[p].lines) = View(job[p].at, acked'[job[p].at])
    BY <1>0, <1>3, <2>1 DEF Busy
  <2> QED BY <1>0, <2>1, <2>2, <2>3, <2>4, <2>5, DamageOfMove
<1>11. CASE Write(p)
  <2>1. /\ UNCHANGED locked /\ job[p].step = "write" /\ job[p].snap = 0
        /\ \E s \in Over(job[p].lines, file[job[p].at]) : file' = [file EXCEPT ![job[p].at] = s]
        /\ Moved(p, IF job[p].at = "orbs" THEN "archive" ELSE "unlock", "deps", job[p].snap)
    BY <1>11, MoveCompact DEF Write, JobShape
  <2>2. locked'
    BY <1>0, <2>1 DEF Busy
  <2>3. job[p].lines \in Content /\ file[job[p].at] = <<>>
    BY <1>3, <2>1, JobFacts, LinesAreContent DEF Busy, TypeOK
  <2>4. file'[job[p].at] = job[p].lines /\ \A g \in File : g # job[p].at => file'[g] = file[g]
    BY <1>0, <2>1, <2>3, RewriteType
  <2>5. \A g \in File : AgreesNext(g)
    BY <1>0, <1>3, <2>1, <2>4 DEF AgreesNext, Busy
  <2> QED BY <1>0, <2>1, <2>2, <2>5, DamageOfMove
<1>12. CASE Unlock(p)
  <2>1. UNCHANGED file /\ job[p].step = "unlock" /\ Moved(p, "idle", "orbs", 0)
    BY <1>12, MoveIdle DEF Unlock
  <2>2. job[p].snap = 0
    BY <1>0, <1>12 DEF Unlock, Note
  <2>3. \A g \in File : AgreesNext(g)
    BY <1>1, <1>3, <2>1, <2>2 DEF Busy
  <2> QED BY <1>0, <2>1, <2>3, DamageOfMove
<1>13. CASE Recover(p)
  <2>1. locked'
    BY <1>13 DEF Recover
  <2>2. PICK i \in DOMAIN snaps : Moved(p, "restore", "orbs", i)
    BY <1>13, MoveRecover
  <2>3. i # 0
    BY <1>4
  <2> QED BY <1>0, <2>1, <2>2, <2>3, DamageOfMove
<1>14. CASE Restore(p) \/ Refill(p)
  <2>1. UNCHANGED locked /\ job[p].step \in {"restore", "refill"}
    BY <1>14 DEF Restore, Refill
  <2>2. locked' /\ job[p].snap # 0
    BY <1>0, <1>4, <2>1 DEF Busy, JobOK
  <2>3. \E s, f : Moved(p, s, f, job[p].snap) /\ s \in {"restore", "refill", "unlock"}
    BY <1>14, MoveRecover DEF MovedOn, MovedPast
  <2>4. PICK s, f : Moved(p, s, f, job[p].snap) /\ s \in {"restore", "refill", "unlock"}
    BY <2>3
  <2> QED BY <1>0, <2>2, <2>4, DamageOfMove
<1>15. CASE RefillFails(p)
  <2>1. UNCHANGED locked /\ job[p].step = "refill" /\ Moved(p, "idle", "orbs", 0)
    BY <1>15, MoveIdle DEF RefillFails
  <2>2. locked'
    BY <1>0, <2>1 DEF Busy
  <2> QED BY <1>0, <2>1, <2>2, DamageOfMove
<1>16. ~ WriteFails(p) /\ ~ RecoverBare(p)
  BY <1>0 DEF WriteFails, RecoverBare, Note
<1> QED BY <1>5, <1>6, <1>7, <1>8, <1>9, <1>10, <1>11, <1>12, <1>13, <1>14, <1>15, <1>16 DEF Step

\* An append to a file nobody rewrites leaves it looking like what is acknowledged.
LEMMA DamageOfAppend ==
  ASSUME TypeOK, DamageInv, NEW o \in Offered, AppendLine(o)
  PROVE  DamageInv'
<1> SUFFICES ASSUME Sound'
             PROVE  DamageInv'
  BY DEF DamageInv
<1>1. /\ seen \subseteq seen' /\ UNCHANGED <<locked, job>>
      /\ \E f \in File, line \in Line :
           /\ acked'[f] = Append(acked[f], line)
           /\ \A g \in File : g # f => file'[g] = file[g] /\ acked'[g] = acked[g]
           /\ "raced" \notin seen' =>
                /\ file'[f] = Append(file[f], line)
                /\ \A p \in Proc : job[p].step \in {"load", "truncate", "write"} => job[p].at # f
  BY AppendFacts
<1>2. Sound /\ "raced" \notin seen'
  BY <1>1 DEF Sound
<1>3. PICK f \in File, line \in Line :
        /\ acked'[f] = Append(acked[f], line)
        /\ \A g \in File : g # f => file'[g] = file[g] /\ acked'[g] = acked[g]
        /\ file'[f] = Append(file[f], line)
        /\ \A p \in Proc : job[p].step \in {"load", "truncate", "write"} => job[p].at # f
  BY <1>1, <1>2
<1>4. file[f] \in Content /\ acked[f] \in Content
  BY LinesAreContent DEF TypeOK
<1>5. \A g \in File : Agrees(g) => AgreesNext(g)
  <2>1. Agrees(f) => AgreesNext(f)
    BY <1>3, <1>4, AppendKeepsView DEF Agrees, AgreesNext
  <2> QED BY <1>3, <2>1 DEF Agrees, AgreesNext
<1>6. OneAtATime /\ LockedWork /\ RewriteAgrees /\ (~ locked => \A g \in File : Agrees(g))
  BY <1>2 DEF DamageInv
<1>7. OneAtATime' /\ LockedWork'
  BY <1>1, <1>6 DEF OneAtATime, LockedWork, Busy
<1>8. (~ locked => \A g \in File : Agrees(g))'
  BY <1>1, <1>5, <1>6 DEF Agrees, AgreesNext
<1>9. RewriteAgrees'
  <2> SUFFICES ASSUME NEW p \in Proc, job[p].step # "idle", job[p].snap = 0
               PROVE  /\ \A g \in File : AgreesNext(g) \/ (job[p].step = "write" /\ g = job[p].at)
                      /\ job[p].step \in {"truncate", "write"} =>
                           View(job[p].at, job[p].lines) = View(job[p].at, acked'[job[p].at])
                      /\ job[p].step = "write" => file'[job[p].at] = <<>>
    BY <1>1 DEF RewriteAgrees, Busy, Agrees, AgreesNext
  <2>1. /\ \A g \in File : Agrees(g) \/ (job[p].step = "write" /\ g = job[p].at)
        /\ job[p].step \in {"truncate", "write"} =>
             View(job[p].at, job[p].lines) = View(job[p].at, acked[job[p].at])
        /\ job[p].step = "write" => file[job[p].at] = <<>>
    BY <1>6 DEF RewriteAgrees, Busy
  <2>2. job[p].step \in {"truncate", "write"} =>
          acked'[job[p].at] = acked[job[p].at] /\ file'[job[p].at] = file[job[p].at]
    BY <1>3, JobFacts DEF TypeOK
  <2> QED BY <1>5, <2>1, <2>2
<1> QED BY <1>7, <1>8, <1>9 DEF DamageInv
-----------------------------------------------------------------------------
(* RestoreInv.                                                             *)

LEMMA DoneFacts ==
  /\ Done("orbs") = {}
  /\ \A f \in File : f \notin Done(f) /\ Done(f) \subseteq File
  /\ \A f \in File : f # "events" => Done(After(f)) = Done(f) \cup {f}
  /\ File = Done("events") \cup {"events"}
BY DEF Done, After, File

\* Of a longer sequence, the first lines are the same.
LEMMA PrefixOfAppend ==
  ASSUME NEW s \in Seq(Line), NEW l \in Line, NEW n \in 0 .. Len(s)
  PROVE  SubSeq(Append(s, l), 1, n) = SubSeq(s, 1, n)
<1> DEFINE t == Append(s, l)
<1>1. /\ Len(s) \in Nat /\ n \in Int
      /\ \A i \in 1 .. n : t[i] = s[i] /\ s[i] \in Line
  BY AppendProperties, LenProperties
<1> HIDE DEF t
<1>2. /\ SubSeq(s, 1, n) \in Seq(Line)
      /\ Len(SubSeq(s, 1, n)) = (IF 1 <= n THEN n - 1 + 1 ELSE 0)
      /\ \A i \in 1 .. n - 1 + 1 : SubSeq(s, 1, n)[i] = s[1 + i - 1]
  BY <1>1, SubSeqProperties
<1>3. /\ SubSeq(t, 1, n) \in Seq(Line)
      /\ Len(SubSeq(t, 1, n)) = (IF 1 <= n THEN n - 1 + 1 ELSE 0)
      /\ \A i \in 1 .. n - 1 + 1 : SubSeq(t, 1, n)[i] = t[1 + i - 1]
  <2>1. \A i \in 1 .. n : t[i] \in Line
    BY <1>1
  <2> QED BY <1>1, <2>1, SubSeqProperties
<1>4. ASSUME NEW i \in 1 .. Len(SubSeq(t, 1, n))
      PROVE  SubSeq(t, 1, n)[i] = SubSeq(s, 1, n)[i]
  <2>1. i \in 1 .. n /\ i \in 1 .. n - 1 + 1 /\ 1 + i - 1 = i
    BY <1>1, <1>3, <1>4
  <2> QED BY <1>1, <1>2, <1>3, <2>1
<1> QED BY <1>2, <1>3, <1>4, SeqEqual DEF t

\* A copy that shows a moment goes on showing it.
LEMMA MomentStays ==
  ASSUME TypeOK, NEW g \in File, NEW line \in Line, acked'[g] = Append(acked[g], line),
         NEW c, NEW m \in Nat, OfMoment(g, c, m)
  PROVE  \E n \in m .. Len(acked'[g]) : View(g, c) = View(g, SubSeq(acked'[g], 1, n))
<1>1. acked[g] \in Seq(Line) /\ Len(acked[g]) \in Nat /\ Len(acked'[g]) = Len(acked[g]) + 1
  BY AppendProperties, LenProperties DEF TypeOK
<1>2. PICK n \in m .. Len(acked[g]) : View(g, c) = View(g, SubSeq(acked[g], 1, n))
  BY DEF OfMoment
<1>3. n \in 0 .. Len(acked[g]) /\ n \in m .. Len(acked'[g])
  BY <1>1, <1>2
<1>4. SubSeq(acked'[g], 1, n) = SubSeq(acked[g], 1, n)
  BY <1>1, <1>3, PrefixOfAppend
<1> QED BY <1>2, <1>3, <1>4

\* What a file without damage holds shows the present moment.
LEMMA MomentNow ==
  ASSUME TypeOK, NEW f \in File, Agrees(f), NEW m \in Nat, m <= Len(acked[f])
  PROVE  OfMoment(f, file[f], m)
<1>1. acked[f] \in Seq(Line) /\ Len(acked[f]) \in Nat
  BY LenProperties DEF TypeOK
<1>2. SubSeq(acked[f], 1, Len(acked[f])) = acked[f]
  BY <1>1, SubSeqFull
<1>3. Len(acked[f]) \in m .. Len(acked[f])
  BY <1>1
<1> QED BY <1>2, <1>3 DEF OfMoment, Agrees

LEMMA RestoreOfAppend ==
  ASSUME TypeOK, RestoreInv, NEW o \in Offered, AppendLine(o)
  PROVE  RestoreInv'
<1> SUFFICES ASSUME Plain'
             PROVE  RestoreInv'
  BY DEF RestoreInv
<1>1. /\ seen \subseteq seen' /\ UNCHANGED <<snaps, job>>
      /\ \E f \in File, line \in Line :
           /\ acked'[f] = Append(acked[f], line)
           /\ \A g \in File : g # f => acked'[g] = acked[g]
           /\ "raced" \notin seen' => \A p \in Proc : job[p].snap = 0 \/ job[p].step = "copy"
  BY AppendFacts
<1>2. Plain /\ "raced" \notin seen'
  BY <1>1 DEF Plain
<1>3. CopiesAgree /\ CopiesComplete
  BY <1>2 DEF RestoreInv
<1>4. RestoredSoFar'
  BY <1>1, <1>2 DEF RestoredSoFar
<1>5. CopiesComplete'
  BY <1>1, <1>3 DEF CopiesComplete
<1>6. CopiesAgree'
  <2> SUFFICES ASSUME NEW i \in DOMAIN snaps, NEW g \in snaps[i].present
               PROVE  \E n \in snaps[i].mark[g] .. Len(acked'[g]) :
                        View(g, snaps[i].files[g]) = View(g, SubSeq(acked'[g], 1, n))
    BY <1>1 DEF CopiesAgree, OfMoment
  <2>1. snaps[i] \in Snap
    BY LenProperties DEF TypeOK
  <2>2. g \in File /\ snaps[i].mark[g] \in Nat
    BY <2>1 DEF Snap
  <2>3. OfMoment(g, snaps[i].files[g], snaps[i].mark[g])
    BY <1>3 DEF CopiesAgree
  <2>4. PICK f \in File, line \in Line :
          /\ acked'[f] = Append(acked[f], line)
          /\ \A h \in File : h # f => acked'[h] = acked[h]
    BY <1>1
  <2>5. CASE g = f
    BY <2>2, <2>3, <2>4, <2>5, MomentStays
  <2>6. CASE g # f
    BY <2>2, <2>3, <2>4, <2>6 DEF OfMoment
  <2> QED BY <2>5, <2>6
<1> QED BY <1>4, <1>5, <1>6 DEF RestoreInv

\* What the process that steps, alone, has to see to.
LEMMA RestoreOfMove ==
  ASSUME NEW p \in Proc, \A q \in Proc : q # p => ~ Busy(q),
         NEW s, NEW f, NEW i, Moved(p, s, f, i),
         CopiesAgree',
         \A j \in DOMAIN snaps' : \A g \in File :
           g \in snaps'[j].present \/ (s = "copy" /\ i = j /\ g \notin Done(f)),
         s = "restore" /\ i # 0 => \A g \in Done(f) : file'[g] = snaps'[i].files[g],
         s = "refill" /\ i # 0 => /\ \A g \in Done(f) : file'[g] = snaps'[i].files[g]
                                  /\ file'[f] = <<>>,
         s = "unlock" /\ i # 0 => \A g \in File : file'[g] = snaps'[i].files[g]
  PROVE  RestoreInv'
<1>1. \A q \in Proc : q # p => job'[q].step = "idle"
  BY DEF Moved, Busy
<1>2. job'[p].step = s /\ job'[p].at = f /\ job'[p].snap = i
  BY DEF Moved
<1>3. CopiesComplete'
  BY <1>2 DEF CopiesComplete
<1>4. RestoredSoFar'
  BY <1>1, <1>2 DEF RestoredSoFar
<1> QED BY <1>3, <1>4 DEF RestoreInv

LEMMA RestoreOfStep ==
  ASSUME TypeOK, JobShape, DamageInv, MarksInPast, RestoreInv, NEW p \in Proc, Step(p)
  PROVE  RestoreInv'
<1> SUFFICES ASSUME Plain'
             PROVE  RestoreInv'
  BY DEF RestoreInv
<1>0. /\ Plain /\ Sound'
      /\ UNCHANGED acked
      /\ "partial" \notin seen'
      /\ job[p].at \in File /\ JobOK(job[p], snaps)
      /\ file \in [File -> Content] /\ file[job[p].at] \in Content
      /\ snaps \in Seq(Snap)
  BY StepFrame, JobFacts, TypeParts DEF Plain, Sound
<1>1. /\ \A q \in Proc : q # p => ~ Busy(q)
      /\ job[p].step = "copy" => ~ locked
  BY <1>0, Alone DEF Busy
<1>2. CopiesAgree /\ CopiesComplete /\ RestoredSoFar
  BY <1>0 DEF RestoreInv
<1>3. \A i \in DOMAIN snaps : \A g \in File :
        g \in snaps[i].present
          \/ (job[p].step = "copy" /\ i = job[p].snap /\ g \notin Done(job[p].at))
  BY <1>1, <1>2 DEF CopiesComplete, Busy
<1>4. 0 \notin DOMAIN snaps /\ \A i \in DOMAIN snaps : snaps[i] \in Snap
  BY <1>0, LenProperties
<1>5. CASE Snapshot(p)
  <2>1. /\ DOMAIN snaps' = DOMAIN snaps \cup {Len(snaps) + 1}
        /\ \A i \in DOMAIN snaps : snaps'[i] = snaps[i]
        /\ snaps'[Len(snaps) + 1].present = {}
    BY <1>5, SnapshotFacts
  <2>2. CopiesAgree'
    BY <1>0, <1>2, <2>1 DEF CopiesAgree, OfMoment
  <2>3. Moved(p, "copy", "orbs", Len(snaps) + 1) /\ job[p].step # "copy"
    BY <1>5, MoveSnapshot DEF Snapshot, Busy
  <2>4. \A j \in DOMAIN snaps' : \A g \in File :
          g \in snaps'[j].present \/ (Len(snaps) + 1 = j /\ g \notin Done("orbs"))
    BY <1>3, <2>1, <2>3, DoneFacts
  <2> QED BY <1>1, <2>2, <2>3, <2>4, RestoreOfMove
<1>6. CASE CopyFile(p)
  <2> DEFINE i == job[p].snap
             f == job[p].at
  <2>1. /\ i \in DOMAIN snaps /\ f \in File /\ job[p].step = "copy"
        /\ Copied(i, f, file[f]) /\ ~ locked
    BY <1>0, <1>1, <1>6 DEF CopyFile, JobOK
  <2>2. /\ DOMAIN snaps' = DOMAIN snaps
        /\ \A j \in DOMAIN snaps : j # i => snaps'[j] = snaps[j]
        /\ snaps'[i].present = snaps[i].present \cup {f}
        /\ snaps'[i].files = [snaps[i].files EXCEPT ![f] = file[f]]
        /\ snaps'[i].mark = snaps[i].mark
    BY <1>0, <2>1, CopiedFacts
  <2>3. OfMoment(f, file[f], snaps[i].mark[f])
    <3>1. Agrees(f)
      BY <1>0, <2>1, StepFrame DEF DamageInv, Sound, Plain
    <3>2. snaps[i].mark[f] \in Nat /\ snaps[i].mark[f] <= Len(acked[f])
      BY <1>4, <2>1 DEF Snap, MarksInPast
    <3> QED BY <2>1, <3>1, <3>2, MomentNow
  <2>4. ASSUME NEW j \in DOMAIN snaps, NEW g \in snaps'[j].present
        PROVE  OfMoment(g, snaps'[j].files[g], snaps'[j].mark[g])
    <3>1. CASE j = i /\ g = f
      <4>1. snaps'[i].files[f] = file[f]
        BY <1>4, <2>1, <2>2 DEF Snap
      <4> QED BY <2>2, <2>3, <3>1, <4>1
    <3>2. CASE ~ (j = i /\ g = f)
      <4>1. g \in snaps[j].present /\ snaps'[j].mark = snaps[j].mark
        BY <2>2, <2>4, <3>2
      <4>2. snaps'[j].files[g] = snaps[j].files[g]
        BY <1>4, <2>1, <2>2, <3>2, <4>1 DEF Snap
      <4> QED BY <1>2, <4>1, <4>2 DEF CopiesAgree
    <3> QED BY <3>1, <3>2
  <2>5. CopiesAgree'
    BY <1>0, <2>2, <2>4 DEF CopiesAgree, OfMoment
  <2> HIDE DEF i, f
  <2>6. CASE f = "events"
    <3>1. Moved(p, "idle", "orbs", 0)
      BY <1>6, <2>6, MoveSnapshot DEF f
    <3>2. \A j \in DOMAIN snaps' : \A g \in File : g \in snaps'[j].present
      BY <1>3, <2>2, <2>6, DoneFacts DEF i, f
    <3> QED BY <1>1, <2>5, <3>1, <3>2, RestoreOfMove
  <2>7. CASE f # "events"
    <3>1. Moved(p, "copy", After(f), i)
      BY <1>6, <2>7, MoveSnapshot DEF f, i
    <3>2. \A j \in DOMAIN snaps' : \A g \in File :
            g \in snaps'[j].present \/ (i = j /\ g \notin Done(After(f)))
      BY <1>3, <2>1, <2>2, <2>7, DoneFacts DEF i, f
    <3> QED BY <1>1, <2>5, <3>1, <3>2, RestoreOfMove
  <2> QED BY <2>6, <2>7
<1>7. ~ CopyFails(p)
  BY <1>0 DEF CopyFails, Note
<1>8. ASSUME UNCHANGED snaps, job[p].step # "copy"
      PROVE  /\ CopiesAgree'
             /\ \A j \in DOMAIN snaps' : \A g \in File : g \in snaps'[j].present
  BY <1>0, <1>2, <1>3, <1>8 DEF CopiesAgree, OfMoment
<1>9. CASE \/ Compact(p) \/ Archive(p) \/ ArchiveFails(p) \/ Load(p)
           \/ Truncate(p) \/ Write(p) \/ WriteFails(p)
  <2>1. UNCHANGED snaps /\ job[p].step # "copy"
    BY <1>9 DEF Compact, Archive, ArchiveFails, Load, Truncate, Write, WriteFails, Busy
  <2>2. ~ Compact(p) => job[p].snap = 0
    BY <1>9 DEF Archive, ArchiveFails, Load, Truncate, Write, WriteFails, JobShape
  <2>3. ASSUME NEW s, NEW f, NEW i, Moved(p, s, f, i), i = 0
        PROVE  RestoreInv'
    <3>1. /\ CopiesAgree'
          /\ \A j \in DOMAIN snaps' : \A g \in File : g \in snaps'[j].present
      BY <1>8, <2>1
    <3> QED BY <1>1, <2>3, <3>1, RestoreOfMove
  <2>4. \E s, f, i : Moved(p, s, f, i) /\ i = 0
    BY <1>9, <2>2, MoveCompact DEF MovedOn
  <2> QED BY <2>3, <2>4
<1>10. CASE Unlock(p) \/ RefillFails(p) \/ Crash(p)
  <2>1. UNCHANGED snaps /\ job[p].step # "copy"
    BY <1>0, <1>10 DEF Unlock, RefillFails, Crash, Note
  <2>2. Moved(p, "idle", "orbs", 0)
    BY <1>10, MoveIdle
  <2>3. /\ CopiesAgree'
        /\ \A j \in DOMAIN snaps' : \A g \in File : g \in snaps'[j].present
    BY <1>8, <2>1
  <2> QED BY <1>1, <2>2, <2>3, RestoreOfMove
<1>11. ~ RecoverBare(p)
  BY <1>0 DEF RecoverBare, Note, Plain
<1>12. CASE Recover(p)
  <2>1. UNCHANGED snaps /\ job[p].step # "copy"
    BY <1>12 DEF Recover, Busy
  <2>2. PICK i \in DOMAIN snaps : Moved(p, "restore", "orbs", i)
    BY <1>12, MoveRecover
  <2>3. /\ CopiesAgree'
        /\ \A j \in DOMAIN snaps' : \A g \in File : g \in snaps'[j].present
    BY <1>8, <2>1
  <2>4. \A g \in Done("orbs") : file'[g] = snaps'[i].files[g]
    BY DoneFacts
  <2> QED BY <1>1, <2>2, <2>3, <2>4, RestoreOfMove
<1>13. CASE Restore(p)
  <2> DEFINE i == job[p].snap
             f == job[p].at
  <2>1. UNCHANGED snaps /\ job[p].step = "restore" /\ i \in DOMAIN snaps /\ f \in File
    BY <1>0, <1>13 DEF Restore, JobOK
  <2>2. /\ CopiesAgree'
        /\ \A j \in DOMAIN snaps' : \A g \in File : g \in snaps'[j].present
    BY <1>8, <2>1
  <2>3. f \in snaps[i].present
    BY <1>3, <2>1
  <2>4. Moved(p, "refill", f, i) /\ file' = [file EXCEPT ![f] = <<>>]
    BY <1>13, <2>3, MoveRecover DEF MovedOn
  <2>5. file'[f] = <<>> /\ \A g \in File : g # f => file'[g] = file[g]
    BY <1>0, <2>4
  <2>6. \A g \in Done(f) : file[g] = snaps[i].files[g]
    BY <1>2, <1>4, <2>1 DEF RestoredSoFar
  <2>7. \A g \in Done(f) : file'[g] = snaps'[i].files[g]
    BY <2>1, <2>5, <2>6, DoneFacts
  <2> HIDE DEF i, f
  <2> QED BY <1>1, <2>2, <2>4, <2>5, <2>7, RestoreOfMove
<1>14. CASE Refill(p)
  <2> DEFINE i == job[p].snap
             f == job[p].at
  <2>1. /\ UNCHANGED snaps /\ job[p].step = "refill" /\ i \in DOMAIN snaps /\ f \in File
        /\ \E s \in Over(snaps[i].files[f], file[f]) : file' = [file EXCEPT ![f] = s]
    BY <1>0, <1>14 DEF Refill, JobOK
  <2>2. /\ CopiesAgree'
        /\ \A j \in DOMAIN snaps' : \A g \in File : g \in snaps'[j].present
    BY <1>8, <2>1
  <2>3. file[f] = <<>> /\ \A g \in Done(f) : file[g] = snaps[i].files[g]
    BY <1>2, <1>4, <2>1 DEF RestoredSoFar
  <2>4. snaps[i].files[f] \in Content
    BY <1>4, <2>1 DEF Snap
  <2>5. file'[f] = snaps[i].files[f] /\ \A g \in File : g # f => file'[g] = file[g]
    BY <2>1, <2>3, <2>4, RewriteType
  <2>6. \A g \in Done(f) \cup {f} : file'[g] = snaps'[i].files[g]
    BY <2>1, <2>3, <2>5, DoneFacts
  <2>7. MovedPast(p)
    BY <1>14, MoveRecover
  <2> HIDE DEF i, f
  <2>8. CASE f = "events"
    <3>1. Moved(p, "unlock", f, i)
      BY <2>7, <2>8 DEF MovedPast, MovedOn, f, i
    <3>2. \A g \in File : file'[g] = snaps'[i].files[g]
      BY <2>6, <2>8, DoneFacts
    <3> QED BY <1>1, <2>2, <3>1, <3>2, RestoreOfMove
  <2>9. CASE f # "events"
    <3>1. Moved(p, "restore", After(f), i)
      BY <2>7, <2>9 DEF MovedPast, f, i
    <3>2. \A g \in Done(After(f)) : file'[g] = snaps'[i].files[g]
      BY <2>1, <2>6, <2>9, DoneFacts
    <3> QED BY <1>1, <2>2, <3>1, <3>2, RestoreOfMove
  <2> QED BY <2>8, <2>9
<1> QED BY <1>5, <1>6, <1>7, <1>9, <1>10, <1>11, <1>12, <1>13, <1>14 DEF Step

-----------------------------------------------------------------------------
(* The invariant and what follows from it.                                 *)

LEMMA InitInv == Init => IInv
<1> SUFFICES ASSUME Init PROVE IInv
  OBVIOUS
<1>1. TypeOK
  BY InitType
<1>2. \A p \in Proc : job[p].step = "idle" /\ job[p].snap = 0
  BY IdleFacts DEF Init
<1>3. file = acked /\ DOMAIN snaps = {} /\ \A f \in File : DOMAIN acked[f] = {}
  BY DEF Init
<1>4. JobShape /\ MarksInPast
  BY <1>2, <1>3 DEF JobShape, MarksInPast
<1>5. DamageInv
  BY <1>2, <1>3 DEF DamageInv, OneAtATime, LockedWork, RewriteAgrees, Agrees, Busy
<1>6. HistoryInv
  BY <1>2, <1>3 DEF HistoryInv
<1>7. RestoreInv
  BY <1>2, <1>3 DEF RestoreInv, CopiesAgree, CopiesComplete, RestoredSoFar
<1> QED BY <1>1, <1>4, <1>5, <1>6, <1>7 DEF IInv

LEMMA StutterInv ==
  ASSUME IInv, UNCHANGED vars
  PROVE  IInv'
<1>1. TypeOK'
  BY NextType DEF IInv
<1>2. (JobShape /\ MarksInPast)'
  BY DEF IInv, JobShape, MarksInPast, vars
<1>3. DamageInv'
  BY DEF IInv, DamageInv, Sound, OneAtATime, LockedWork, RewriteAgrees, Agrees, Busy, vars
<1>4. HistoryInv'
  BY DEF IInv, HistoryInv, Recorded, Kept, InHistory, vars
<1>5. RestoreInv'
  BY DEF IInv, RestoreInv, Plain, CopiesAgree, CopiesComplete, RestoredSoFar, OfMoment, vars
<1> QED BY <1>1, <1>2, <1>3, <1>4, <1>5 DEF IInv

LEMMA NextInv ==
  ASSUME IInv, [Next]_vars
  PROVE  IInv'
<1>0. TypeOK /\ JobShape /\ DamageInv /\ HistoryInv /\ MarksInPast /\ RestoreInv
  BY DEF IInv
<1>1. TypeOK'
  BY <1>0, NextType
<1>2. ASSUME NEW o \in Offered, AppendLine(o) PROVE IInv'
  BY <1>0, <1>1, <1>2, ShapeOfAppend, DamageOfAppend, HistoryOfAppend, RestoreOfAppend DEF IInv
<1>3. ASSUME NEW p \in Proc, Step(p) PROVE IInv'
  <2>1. (JobShape /\ MarksInPast)'
    BY <1>0, <1>3, ShapeOfStep, MarksOfStep
  <2>2. DamageInv' /\ HistoryInv' /\ RestoreInv'
    BY <1>0, <1>3, DamageOfStep, HistoryOfStep, RestoreOfStep
  <2> QED BY <1>1, <2>1, <2>2 DEF IInv
<1> QED BY <1>2, <1>3, StutterInv DEF Next

THEOREM Invariant == Spec => []IInv
BY InitInv, NextInv, PTL DEF Spec

\* Crashes at any point of a compaction or a recovery leave the damage they do under
\* `.lock`: readers of an unlocked directory see what the stores have appended to
\* it, as long as no two operations overlap, no append falls into a rewrite and no
\* rewrite fails.
THEOREM DamageMarked == Spec => []DamageIsMarked
<1>1. IInv => DamageIsMarked
  BY DEF IInv, DamageInv, Sound, Agrees, DamageIsMarked
<1> QED BY <1>1, Invariant, PTL

\* compact forgets no line it takes out of a file, whether it ends, fails, dies or
\* overlaps with others, unless an append falls into its rewriting or two archives
\* get the name of one second.
THEOREM HistoryKept == Spec => []OldLinesArchived
<1>1. IInv => OldLinesArchived
  BY DEF IInv, HistoryInv, Recorded, Kept, InHistory, OldLinesArchived
<1> QED BY <1>1, Invariant, PTL

\* When recover_pipeline removes the lock after restoring, each file shows what its
\* readers saw at one moment since the snapshot began, however many recoveries
\* crashed before, if nothing else worked on the directory and no snapshot is partial.
THEOREM RecoveryIsExact == Spec => RecoveryRestores
<1>1. ASSUME IInv, NEW p \in Proc, Unlock(p), job[p].snap # 0, seen \subseteq {"recovering"},
             NEW f \in File
      PROVE  \E m \in snaps[job[p].snap].mark[f] .. Len(acked[f]) :
               View(f, file'[f]) = View(f, SubSeq(acked[f], 1, m))
  <2>1. /\ TypeOK /\ JobShape /\ CopiesAgree /\ CopiesComplete /\ RestoredSoFar /\ OneAtATime
    BY <1>1 DEF IInv, RestoreInv, Plain, DamageInv, Sound
  <2>2. job[p].step = "unlock" /\ file' = file /\ job[p].snap \in DOMAIN snaps
    BY <1>1, <2>1 DEF Unlock, JobShape
  <2>3. \A q \in Proc : job[q].step # "copy"
    BY <2>1, <2>2 DEF OneAtATime, Busy
  <2>4. f \in snaps[job[p].snap].present
    BY <2>1, <2>2, <2>3 DEF CopiesComplete
  <2>5. file[f] = snaps[job[p].snap].files[f]
    BY <1>1, <2>1, <2>2 DEF RestoredSoFar
  <2>6. OfMoment(f, file[f], snaps[job[p].snap].mark[f])
    BY <2>1, <2>2, <2>4, <2>5 DEF CopiesAgree
  <2> QED BY <2>2, <2>6 DEF OfMoment
<1> DEFINE Exact == \A p \in Proc :
             /\ Unlock(p)
             /\ job[p].snap # 0
             /\ seen \subseteq {"recovering"}
             => \A f \in File :
                  \E m \in snaps[job[p].snap].mark[f] .. Len(acked[f]) :
                    View(f, file'[f]) = View(f, SubSeq(acked[f], 1, m))
<1>2. IInv /\ [Next]_vars => [Exact]_vars
  BY <1>1
<1> HIDE DEF Exact
<1>3. Spec => [][Exact]_vars
  BY <1>2, Invariant, PTL DEF Spec
<1> QED BY <1>3 DEF RecoveryRestores, Exact
=============================================================================
