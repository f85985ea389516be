------------------------- MODULE SessionStore_proofs -------------------------
(***************************************************************************)
(* Proofs about SessionStore, for any processes, sessions, events and      *)
(* limits and without TLC's bounds on files, time and failures.  The       *)
(* inductive invariant IInv adds to the properties what a process still    *)
(* knows, between two of its steps, of the file that it is going to write  *)
(* or to rename.                                                           *)
(***************************************************************************)
EXTENDS SessionStore, SequenceTheorems, FiniteSetTheorems, TLAPS

Closing(l) == l \in Line /\ Closes(l.event)

\* Who read b lines of s has read all of it only if it does not end in a close.
NotPast(s, b) == b <= Len(s) /\ (b = Len(s) /\ b > 0 => ~ Closing(s[b]))

\* Lines of writers that had read nothing of the file.
Blind(l) == l = Bad \/ (l \in Line /\ l.base = 0)

\* ClosedIsFinal and ArchivedWasClosed, of one list of lines.
ClosesLast(s) ==
  \A i \in DOMAIN s : Closing(s[i]) /\ i < Len(s) => s[i + 1] = Bad \/ s[i + 1].base < i

SomeClose(s) == \E i \in DOMAIN s : s[i] = Bad \/ Closing(s[i])

\* u is s with t at its end, or run into the last line.
Grown(s, u, t) ==
  /\ u \in Seq(Text) /\ u # <<>>
  /\ \/ /\ Len(u) = Len(s) + 1
        /\ u[Len(s) + 1] = t
        /\ \A i \in 1 .. Len(s) : u[i] = s[i]
     \/ /\ Len(u) = Len(s)
        /\ Len(s) >= 1
        /\ u[Len(s)] = Bad
        /\ \A i \in 1 .. Len(s) - 1 : u[i] = s[i]

-----------------------------------------------------------------------------
(* Sequences.                                                              *)

LEMMA SeqFacts ==
  ASSUME NEW S, NEW s \in Seq(S)
  PROVE  /\ Len(s) \in Nat /\ DOMAIN s = 1 .. Len(s)
         /\ \A i \in DOMAIN s : s[i] \in S
         /\ s # <<>> => Len(s) >= 1
         /\ Len(s) = 0 => s = <<>>
BY LenProperties, EmptySeq

LEMMA GreatestExists ==
  ASSUME NEW n \in Nat, NEW S \in SUBSET (1 .. n), S # {}
  PROVE  Greatest(S) \in S /\ \A j \in S : j <= Greatest(S)
<1> DEFINE T == {n - i : i \in S}
<1>1. T \in SUBSET Nat /\ T # {}
  <2>1. ASSUME NEW i \in S PROVE n - i \in Nat
    <3>1. i \in 1 .. n
      OBVIOUS
    <3> QED BY <3>1
  <2> QED BY <2>1
<1>2. PICK m \in T : \A k \in T : ~ (<<k, m>> \in OpToRel(<, Nat))
  BY <1>1, NatLessThanWellFounded, WFMin
<1>3. PICK i \in S : m = n - i
  OBVIOUS
<1>4. ASSUME NEW j \in S PROVE j <= i
  <2>1. n - j \in T /\ n - j \in Nat /\ m \in Nat
    BY <1>1
  <2>2. ~ (n - j < m)
    BY <1>2, <2>1 DEF OpToRel
  <2> QED BY <1>3, <2>2
<1> QED BY <1>4 DEF Greatest

LEMMA TextsDiffer == Bad \notin Line /\ Header \notin Line /\ Header # Bad
BY TextAssumption

LEMMA GrownKeeps ==
  ASSUME NEW s \in Seq(Text), NEW u, NEW t, Grown(s, u, t)
  PROVE  /\ SomeClose(s) => SomeClose(u)
         /\ \A b \in Nat : b <= Len(s) /\ NotPast(s, b) => NotPast(u, b)
         /\ Blind(t) /\ (\A i \in DOMAIN s : Blind(s[i])) =>
              \A i \in DOMAIN u : Blind(u[i])
         /\ /\ ClosesLast(s)
            /\ t = Bad \/ t \in {l \in Line : NotPast(s, l.base)}
            => ClosesLast(u)
<1>1. /\ Len(s) \in Nat /\ DOMAIN s = 1 .. Len(s)
      /\ Len(u) \in Nat /\ DOMAIN u = 1 .. Len(u)
  BY SeqFacts DEF Grown
<1>2. CASE /\ Len(u) = Len(s) + 1
           /\ u[Len(s) + 1] = t
           /\ \A i \in 1 .. Len(s) : u[i] = s[i]
  <2>1. SomeClose(s) => SomeClose(u)
    BY <1>1, <1>2 DEF SomeClose
  <2>2. ASSUME NEW b \in Nat, NotPast(s, b) PROVE NotPast(u, b)
    <3>1. b <= Len(s)
      BY <2>2 DEF NotPast
    <3>2. b <= Len(u) /\ b # Len(u)
      BY <1>1, <1>2, <3>1
    <3> QED BY <3>2 DEF NotPast
  <2>3. ASSUME Blind(t), \A i \in DOMAIN s : Blind(s[i]), NEW i \in DOMAIN u
        PROVE  Blind(u[i])
    BY <1>1, <1>2, <2>3
  <2>4. ASSUME ClosesLast(s), t = Bad \/ t \in {l \in Line : NotPast(s, l.base)},
               NEW i \in DOMAIN u, Closing(u[i]), i < Len(u)
        PROVE  u[i + 1] = Bad \/ u[i + 1].base < i
    <3>1. CASE i < Len(s)
      <4>1. i \in DOMAIN s /\ i + 1 \in DOMAIN s /\ u[i] = s[i] /\ u[i + 1] = s[i + 1]
        BY <1>1, <1>2, <3>1
      <4> QED BY <2>4, <3>1, <4>1 DEF ClosesLast
    <3>2. CASE i = Len(s)
      <4>1. u[i] = s[i] /\ u[i + 1] = t /\ i \in Nat /\ i > 0
        BY <1>1, <1>2, <2>4, <3>2
      <4>2. ASSUME t \in Line, NotPast(s, t.base) PROVE t.base < i
        <5>1. t.base \in Nat
          BY <4>2 DEF Line
        <5>2. t.base # Len(s)
          BY <2>4, <3>2, <4>1, <4>2, <5>1 DEF NotPast
        <5> QED BY <3>2, <4>1, <4>2, <5>1, <5>2 DEF NotPast
      <4> QED BY <2>4, <4>1, <4>2
    <3> QED BY <1>1, <1>2, <2>4, <3>1, <3>2
  <2> QED BY <2>1, <2>2, <2>3, <2>4 DEF ClosesLast
<1>3. CASE /\ Len(u) = Len(s)
           /\ Len(s) >= 1
           /\ u[Len(s)] = Bad
           /\ \A i \in 1 .. Len(s) - 1 : u[i] = s[i]
  <2>1. SomeClose(s) => SomeClose(u)
    BY <1>1, <1>3 DEF SomeClose
  <2>2. ASSUME NEW b \in Nat, NotPast(s, b) PROVE NotPast(u, b)
    BY <1>1, <1>3, <2>2, TextsDiffer DEF NotPast, Closing
  <2>3. ASSUME \A i \in DOMAIN s : Blind(s[i]), NEW i \in DOMAIN u
        PROVE  Blind(u[i])
    BY <1>1, <1>3, <2>3 DEF Blind
  <2>4. ASSUME ClosesLast(s), NEW i \in DOMAIN u, Closing(u[i]), i < Len(u)
        PROVE  u[i + 1] = Bad \/ u[i + 1].base < i
    <3>1. i \in DOMAIN s /\ u[i] = s[i] /\ i < Len(s)
      BY <1>1, <1>3, <2>4
    <3>2. i + 1 = Len(s) \/ (i + 1 \in 1 .. Len(s) - 1 /\ u[i + 1] = s[i + 1])
      BY <1>1, <1>3, <3>1
    <3> QED BY <1>3, <2>4, <3>1, <3>2 DEF ClosesLast
  <2> QED BY <2>1, <2>2, <2>3, <2>4 DEF ClosesLast
<1> QED BY <1>2, <1>3 DEF Grown

\* A header written over blind lines.
LEMMA OverIsBlind ==
  ASSUME NEW s \in Seq(Text), \A i \in DOMAIN s : Blind(s[i]), NEW u \in Over(s)
  PROVE  /\ u \in Seq(Text) /\ u # <<>>
         /\ ClosesLast(u)
<1>1. ASSUME NEW h \in Seq(Text), h # <<>>, h[1] = Header,
             NEW t \in Seq(Text),
             \A i \in DOMAIN t : Blind(t[i]),
             \A i \in DOMAIN h : i > 1 => Blind(h[i]), u = h \o t
      PROVE  /\ u \in Seq(Text) /\ u # <<>>
             /\ ClosesLast(u)
  <2>1. /\ u \in Seq(Text) /\ Len(u) = Len(h) + Len(t)
        /\ \A i \in 1 .. Len(u) : u[i] = IF i <= Len(h) THEN h[i] ELSE t[i - Len(h)]
    BY <1>1, ConcatProperties
  <2>2. /\ Len(h) \in Nat /\ Len(h) >= 1 /\ DOMAIN h = 1 .. Len(h)
        /\ Len(t) \in Nat /\ DOMAIN t = 1 .. Len(t)
        /\ DOMAIN u = 1 .. Len(u)
    BY <1>1, <2>1, SeqFacts
  <2>3. u # <<>>
    BY <2>1, <2>2, EmptySeq
  <2>4. ASSUME NEW i \in DOMAIN u, i > 1 PROVE Blind(u[i])
    <3>1. CASE i <= Len(h)
      BY <1>1, <2>1, <2>2, <2>4, <3>1
    <3>2. CASE i > Len(h)
      <4>1. i - Len(h) \in DOMAIN t /\ u[i] = t[i - Len(h)]
        BY <2>1, <2>2, <3>2
      <4> QED BY <1>1, <4>1
    <3> QED BY <2>2, <3>1, <3>2
  <2>5. ASSUME NEW i \in DOMAIN u, i < Len(u)
        PROVE  u[i + 1] = Bad \/ u[i + 1].base < i
    <3>1. Blind(u[i + 1]) /\ i > 0
      BY <2>1, <2>2, <2>4, <2>5
    <3> QED BY <3>1 DEF Blind
  <2> QED BY <2>1, <2>3, <2>5 DEF ClosesLast
<1>2. Header \in Text /\ Bad \in Text /\ Blind(Bad)
  BY DEF Text, Blind
<1>3. /\ <<Header>> \in Seq(Text) /\ <<Header>> # <<>> /\ <<Header>>[1] = Header
      /\ \A i \in DOMAIN <<Header>> : i > 1 => Blind(<<Header>>[i])
  BY <1>2
<1>4. /\ <<Header, Bad>> \in Seq(Text) /\ <<Header, Bad>> # <<>>
      /\ <<Header, Bad>>[1] = Header
      /\ \A i \in DOMAIN <<Header, Bad>> : i > 1 => Blind(<<Header, Bad>>[i])
  BY <1>2
<1>5. CASE s = <<>>
  <2>1. u = <<Header>>
    BY <1>5 DEF Over
  <2>2. <<Header>> = <<Header>> \o <<>>
    BY <1>3, ConcatEmptySeq
  <2>3. <<>> \in Seq(Text) /\ DOMAIN <<>> = {}
    BY EmptySeq
  <2> QED BY <1>1, <1>3, <2>1, <2>2, <2>3
<1>6. CASE s # <<>>
  <2>1. ASSUME NEW k \in 2 .. Len(s) + 1
        PROVE  /\ SubSeq(s, k, Len(s)) \in Seq(Text)
               /\ \A i \in DOMAIN SubSeq(s, k, Len(s)) : Blind(SubSeq(s, k, Len(s))[i])
    <3> DEFINE t == SubSeq(s, k, Len(s))
    <3>1. Len(s) \in Nat /\ DOMAIN s = 1 .. Len(s) /\ \A i \in DOMAIN s : s[i] \in Text
      BY SeqFacts
    <3>2. k \in Int /\ Len(s) \in Int /\ \A i \in k .. Len(s) : s[i] \in Text
      BY <3>1
    <3>3. /\ t \in Seq(Text)
          /\ Len(t) = IF k <= Len(s) THEN Len(s) - k + 1 ELSE 0
          /\ \A i \in 1 .. Len(s) - k + 1 : t[i] = s[k + i - 1]
      BY <3>2, SubSeqProperties
    <3>4. DOMAIN t = 1 .. Len(t)
      BY <3>3, SeqFacts
    <3> HIDE DEF t
    <3>5. ASSUME NEW i \in DOMAIN t PROVE Blind(t[i])
      <4>1. i \in 1 .. Len(s) - k + 1 /\ k + i - 1 \in DOMAIN s
        BY <3>1, <3>3, <3>4
      <4> QED BY <3>3, <4>1
    <3> QED BY <3>3, <3>5 DEF t
  <2>2. PICK k \in 2 .. Len(s) + 1 :
          \/ u = <<Header>> \o SubSeq(s, k, Len(s))
          \/ u = <<Header, Bad>> \o SubSeq(s, k, Len(s))
    BY <1>6 DEF Over
  <2> QED BY <1>1, <1>3, <1>4, <2>1, <2>2
<1> QED BY <1>5, <1>6

-----------------------------------------------------------------------------
(* The inductive invariant.                                                *)

Heading(p, f) == job[p].step = "header" /\ job[p].file = f

Knows(p, f) == job[p].step \in {"measure", "open", "write"} /\ job[p].file = f

\* The processes that have measured f, or will open it under its name, and have
\* not written yet.
Pending(f) ==
  {p \in Proc : \/ job[p].step = "write" /\ job[p].file = f
                \/ job[p].step = "open" /\ live[job[p].id] = f}

Cap == IF MaxFileBytes = 0 THEN 1 ELSE MaxFileBytes

WasClosed(f) ==
  /\ SomeClose(files[f].lines)
  /\ \A p \in Proc : ~ Heading(p, f)

\* A session has the latest of its transcripts.
LiveIsLatest ==
  /\ \A id \in Id : live[id] # 0 => files[live[id]].id = id
  /\ \A a \in archive : live[a.id] # 0 => a.file < live[a.id]

\* Each of the pending writes will add one to the size.
PendingFits ==
  /\ \A f \in FileNo : files[f].lines = <<>> => files[f].size = 0
  /\ \A f \in FileNo :
       files[f].size + Cardinality(Pending(f)) <= Cap + Cardinality(Proc) - 1

\* Until the header is written nobody has read the file.
HeaderIsFirst ==
  \A p \in Proc, f \in FileNo :
    Heading(p, f) =>
      /\ \A i \in DOMAIN files[f].lines : Blind(files[f].lines[i])
      /\ \A q \in Proc \ {p} :
           /\ ~ Heading(q, f)
           /\ Knows(q, f) => job[q].step = "write" /\ job[q].base = 0

\* Whoever is about to append had not read a close at the end of the file.
NobodyPast ==
  \A p \in Proc, f \in FileNo : Knows(p, f) => NotPast(files[f].lines, job[p].base)

\* A rotation goes by what was closed once: the transcript that it is going to
\* rename, or an earlier one of the id.
DueWereClosed ==
  \A p \in Proc : job[p].step = "rename" =>
    \A name \in job[p].todo :
      \E f \in FileNo : /\ files[f].id = name.id /\ WasClosed(f)
                        /\ live[name.id] # 0 => f <= live[name.id]

ArchiveWasClosed ==
  \A a \in archive : WasClosed(a.file) \/ \E f \in FileNo : f < a.file /\ files[f].id = a.id

AllCloseLast == \A f \in FileNo : ClosesLast(files[f].lines)

IInv ==
  /\ TypeOK
  /\ LiveIsLatest
  /\ TranscriptsKept
  /\ PendingFits
  /\ HeaderIsFirst
  /\ NobodyPast
  /\ AllCloseLast
  /\ DueWereClosed
  /\ ArchiveWasClosed

-----------------------------------------------------------------------------
(* What the invariant says of the parts of the state.                      *)

LEMMA FileFacts ==
  ASSUME files \in Seq(Transcript), NEW f \in FileNo
  PROVE  /\ Len(files) \in Nat /\ DOMAIN files = FileNo
         /\ files[f] \in Transcript
         /\ files[f].id \in Id /\ files[f].lines \in Seq(Text) /\ files[f].size \in Nat
         /\ files[f].open \in BOOLEAN /\ files[f].createdAt \in Nat
         /\ f \in Nat /\ f >= 1
<1>1. /\ Len(files) \in Nat /\ DOMAIN files = FileNo
      /\ files[f] \in Transcript
  BY LenProperties DEF FileNo
<1> QED BY <1>1 DEF Transcript, FileNo

LEMMA JobFacts ==
  ASSUME NEW j \in Job
  PROVE  /\ j.step \in {"idle", "header", "measure", "open", "write", "rename"}
         /\ j.step = "idle" => j = Idle
         /\ j.step = "header" => j.file \in FileNo
         /\ j.step \in {"measure", "open"} =>
              /\ j \in [step : {"measure", "open"}, id : Id, event : SessionEvent,
                        file : FileNo, base : Nat]
              /\ j.id \in Id
         /\ j.step \in {"measure", "open", "write"} =>
              j.event \in SessionEvent /\ j.file \in FileNo /\ j.base \in Nat
         /\ j.step = "rename" => j.todo \in SUBSET [month : Nat, id : Id]
<1>1. CASE j = Idle
  BY <1>1 DEF Idle
<1>2. CASE j \in [step : {"header"}, file : FileNo]
  BY <1>2
<1>3. CASE j \in [step : {"measure", "open"}, id : Id, event : SessionEvent,
                  file : FileNo, base : Nat]
  BY <1>3
<1>4. CASE j \in [step : {"write"}, event : SessionEvent, file : FileNo, base : Nat]
  BY <1>4
<1>5. CASE j \in [step : {"rename"}, todo : SUBSET [month : Nat, id : Id]]
  BY <1>5
<1> QED BY <1>1, <1>2, <1>3, <1>4, <1>5 DEF Job

LEMMA PendingIsFinite ==
  ASSUME NEW f
  PROVE  /\ IsFiniteSet(Pending(f)) /\ Cardinality(Pending(f)) \in Nat
         /\ Cardinality(Proc) \in Nat /\ Cardinality(Pending(f)) <= Cardinality(Proc)
<1>1. Pending(f) \in SUBSET Proc
  BY DEF Pending
<1> QED BY <1>1, ProcAssumption, FS_Subset, FS_CardinalityType

LEMMA CapFacts == Cap \in Nat /\ Cap >= 1 /\ MaxFileBytes <= Cap
BY BoundsAssumption DEF Cap

\* The text that is appended to one file.
LEMMA AppendedFacts ==
  ASSUME TypeOK, NEW f \in FileNo, NEW t \in Text, NEW whole \in BOOLEAN
  PROVE  LET g == Appended(f, t, whole)
         IN /\ g \in Seq(Transcript) /\ Len(g) = Len(files)
            /\ \A h \in FileNo : h # f => g[h] = files[h]
            /\ g[f].id = files[f].id
            /\ g[f].size = files[f].size + 1
            /\ Grown(files[f].lines, g[f].lines, t)
<1> DEFINE s == files[f].lines
           u == IF files[f].open THEN [s EXCEPT ![Len(s)] = Bad] ELSE Append(s, t)
           r == [id |-> files[f].id, lines |-> u, size |-> files[f].size + 1,
                 open |-> ~ whole, createdAt |-> files[f].createdAt]
<1>1. /\ files \in Seq(Transcript) /\ files[f] \in Transcript /\ s \in Seq(Text)
      /\ files[f].open => s # <<>>
      /\ files[f].size \in Nat /\ files[f].open \in BOOLEAN /\ Bad \in Text
      /\ files[f].id \in Id /\ files[f].createdAt \in Nat
  BY FileFacts DEF TypeOK, Text
<1>0. Len(s) \in Nat /\ (s # <<>> => Len(s) >= 1)
  <2> HIDE DEF s
  <2> QED BY <1>1, SeqFacts
<1>2. Grown(s, u, t)
  <2>1. CASE files[f].open
    <3>1. Len(s) \in Nat /\ Len(s) >= 1 /\ Len(s) \in 1 .. Len(s)
      BY <1>0, <1>1, <2>1
    <3> DEFINE e == [s EXCEPT ![Len(s)] = Bad]
    <3>2. /\ e \in Seq(Text) /\ Len(e) = Len(s)
          /\ \A j \in 1 .. Len(s) : e[j] = IF j = Len(s) THEN Bad ELSE s[j]
      BY <1>1, <3>1, ExceptSeq
    <3>3. u = e
      BY <2>1
    <3> HIDE DEF e, u, s
    <3>4. e # <<>>
      BY <3>1, <3>2, EmptySeq
    <3>5. /\ e[Len(s)] = Bad
          /\ \A i \in 1 .. Len(s) - 1 : e[i] = s[i]
      BY <3>1, <3>2
    <3> QED BY <3>1, <3>2, <3>3, <3>4, <3>5 DEF Grown
  <2>2. CASE ~ files[f].open
    <3> DEFINE e == Append(s, t)
    <3>1. /\ e \in Seq(Text) /\ Len(e) = Len(s) + 1
          /\ \A j \in 1 .. Len(s) : e[j] = s[j]
          /\ e[Len(s) + 1] = t
      BY <1>1, AppendProperties
    <3>2. Len(s) \in Nat
      BY <1>0
    <3>3. u = e
      BY <2>2
    <3> HIDE DEF e, u, s
    <3>4. e # <<>>
      BY <3>1, <3>2, EmptySeq
    <3> QED BY <3>1, <3>3, <3>4 DEF Grown
  <2> QED BY <2>1, <2>2
<1>3. u \in Seq(Text)
  BY <1>2 DEF Grown
<1> HIDE DEF u
<1> HIDE DEF s
<1>4. /\ r \in Transcript /\ r.id = files[f].id /\ r.lines = u
      /\ r.size = files[f].size + 1
  BY <1>1, <1>3 DEF Transcript
<1>5. Appended(f, t, whole) = [files EXCEPT ![f] = r]
  <2>1. files = [h \in FileNo |-> files[h]] /\ f \in FileNo
    BY <1>1, LenProperties DEF FileNo
  <2>2. files[f] = [id |-> files[f].id, lines |-> files[f].lines, size |-> files[f].size,
                    open |-> files[f].open, createdAt |-> files[f].createdAt]
    BY <1>1 DEF Transcript
  <2> DEFINE g1 == [files EXCEPT ![f].lines = u]
             g2 == [g1 EXCEPT ![f].open = ~ whole]
             g3 == [g2 EXCEPT ![f].size = @ + 1]
  <2>3. Appended(f, t, whole) = g3
    BY DEF Appended, u, s
  <2>4. g1[f] = [files[f] EXCEPT !.lines = u] /\ \A h \in FileNo \ {f} : g1[h] = files[h]
    BY <2>1
  <2>5. g2[f] = [g1[f] EXCEPT !.open = ~ whole] /\ \A h \in FileNo \ {f} : g2[h] = files[h]
    BY <2>1, <2>4
  <2>6. g3[f] = [g2[f] EXCEPT !.size = @ + 1] /\ \A h \in FileNo \ {f} : g3[h] = files[h]
    BY <2>1, <2>5
  <2> HIDE DEF g1, g2
  <2>7. g3[f] = r
    <3>1. g1[f] = [id |-> files[f].id, lines |-> u, size |-> files[f].size,
                   open |-> files[f].open, createdAt |-> files[f].createdAt]
      BY <2>2, <2>4
    <3>2. g2[f] = [id |-> files[f].id, lines |-> u, size |-> files[f].size,
                   open |-> ~ whole, createdAt |-> files[f].createdAt]
      BY <2>5, <3>1
    <3> QED BY <2>6, <3>2
  <2>8. g3 = [h \in FileNo |-> g3[h]]
    BY <2>1 DEF g1, g2
  <2> HIDE DEF g3
  <2> QED BY <2>1, <2>3, <2>6, <2>7, <2>8
<1> HIDE DEF r
<1>6. f \in 1 .. Len(files)
  BY DEF FileNo
<1>7. /\ [files EXCEPT ![f] = r] \in Seq(Transcript)
      /\ Len([files EXCEPT ![f] = r]) = Len(files)
      /\ \A j \in 1 .. Len(files) : [files EXCEPT ![f] = r][j] = IF j = f THEN r ELSE files[j]
  BY <1>1, <1>4, <1>6, ExceptSeq
<1> QED BY <1>2, <1>4, <1>5, <1>6, <1>7 DEF FileNo, s

LEMMA InitIInv == ASSUME Init PROVE IInv
<1>1. /\ files = <<>> /\ live = [id \in Id |-> 0] /\ archive = {} /\ now = 0
      /\ job = [p \in Proc |-> Idle] /\ fails = 0
  BY DEF Init
<1>2. files \in Seq(Transcript) /\ FileNo = {}
  BY <1>1, EmptySeq DEF FileNo
<1>3. \A p \in Proc : job[p] = Idle /\ job[p].step = "idle" /\ job[p] \in Job
  BY <1>1 DEF Idle, Job
<1>4. TypeOK
  BY <1>1, <1>2, <1>3 DEF TypeOK
<1>5. LiveIsLatest /\ TranscriptsKept
  BY <1>1, <1>2 DEF LiveIsLatest, TranscriptsKept
<1>6. PendingFits /\ HeaderIsFirst /\ NobodyPast /\ AllCloseLast
  BY <1>2 DEF PendingFits, HeaderIsFirst, NobodyPast, AllCloseLast
<1>7. DueWereClosed /\ ArchiveWasClosed
  BY <1>1, <1>3 DEF DueWereClosed, ArchiveWasClosed
<1> QED BY <1>4, <1>5, <1>6, <1>7 DEF IInv

-----------------------------------------------------------------------------
(* A step that only changes what one process is about to do.               *)

LEMMA JobStep ==
  ASSUME IInv, NEW p \in Proc, NEW j \in Job,
         job' = [job EXCEPT ![p] = j],
         UNCHANGED <<files, live, archive>>, now' \in Nat, fails' \in Nat,
         j.step # "header",
         j.step \in {"open", "write"} =>
           \A f \in FileNo :
             files[f].size + Cardinality(Pending(f)') <= Cap + Cardinality(Proc) - 1,
         j.step \in {"measure", "open", "write"} =>
           /\ NotPast(files[j.file].lines, j.base)
           /\ \A q \in Proc : Heading(q, j.file) => j.step = "write" /\ j.base = 0,
         j.step = "rename" =>
           \A name \in j.todo :
             \E f \in FileNo : /\ files[f].id = name.id /\ WasClosed(f)
                               /\ live[name.id] # 0 => f <= live[name.id]
  PROVE  IInv'
<1>1. /\ job \in [Proc -> Job] /\ job'[p] = j
      /\ \A q \in Proc \ {p} : job'[q] = job[q]
  BY DEF IInv, TypeOK
<1>2. FileNo' = FileNo /\ Job' = Job
  BY DEF FileNo, Job
<1>3. TypeOK'
  BY <1>1, <1>2 DEF IInv, TypeOK
<1>4. LiveIsLatest' /\ TranscriptsKept' /\ AllCloseLast'
  BY <1>2 DEF IInv, LiveIsLatest, TranscriptsKept, AllCloseLast
<1>5. PendingFits'
  <2>1. CASE j.step \in {"open", "write"}
    BY <1>2, <2>1 DEF IInv, PendingFits
  <2>2. CASE j.step \notin {"open", "write"}
    <3>1. ASSUME NEW f \in FileNo PROVE Cardinality(Pending(f)') <= Cardinality(Pending(f))
      <4>1. Pending(f)' \subseteq Pending(f)
        BY <1>1, <2>2 DEF Pending
      <4> QED BY <4>1, PendingIsFinite, FS_Subset
    <3>2. ASSUME NEW f \in FileNo
          PROVE  files[f].size + Cardinality(Pending(f)') <= Cap + Cardinality(Proc) - 1
      <4>1. files[f].size + Cardinality(Pending(f)) <= Cap + Cardinality(Proc) - 1
        BY DEF IInv, PendingFits
      <4>2. files[f].size \in Nat /\ Cardinality(Pending(f)) \in Nat /\ Cap \in Nat
            /\ Cardinality(Proc) \in Nat
        BY FileFacts, PendingIsFinite, CapFacts DEF IInv, TypeOK
      <4>3. Cardinality(Pending(f)') \in Nat
        <5>1. Pending(f)' \in SUBSET Pending(f)
          BY <1>1, <2>2 DEF Pending
        <5> QED BY <5>1, PendingIsFinite, FS_Subset, FS_CardinalityType
      <4> QED BY <3>1, <4>1, <4>2, <4>3
    <3> QED BY <1>2, <3>2 DEF IInv, PendingFits
  <2> QED BY <2>1, <2>2
<1>6. \A q \in Proc, f \in FileNo : Heading(q, f)' => Heading(q, f) /\ q # p
  BY <1>1 DEF Heading
<1>7. HeaderIsFirst'
  <2>1. ASSUME NEW q \in Proc, NEW f \in FileNo, Heading(q, f)', NEW r \in Proc \ {q}
        PROVE  /\ ~ Heading(r, f)'
               /\ Knows(r, f)' => job'[r].step = "write" /\ job'[r].base = 0
    <3>1. Heading(q, f) /\ q # p /\ ~ Heading(r, f)
          /\ (Knows(r, f) => job[r].step = "write" /\ job[r].base = 0)
      BY <1>6, <2>1 DEF IInv, HeaderIsFirst
    <3>2. CASE r = p
      BY <1>1, <1>6, <2>1, <3>1, <3>2 DEF Knows
    <3>3. CASE r # p
      BY <1>1, <1>6, <2>1, <3>1, <3>3 DEF Knows
    <3> QED BY <3>2, <3>3
  <2> QED BY <1>2, <1>6, <2>1 DEF IInv, HeaderIsFirst
<1>8. NobodyPast'
  BY <1>1, <1>2 DEF IInv, NobodyPast, Knows
<1>9. \A f \in FileNo : WasClosed(f) => WasClosed(f)'
  BY <1>6 DEF WasClosed
<1>10. DueWereClosed'
  BY <1>1, <1>2, <1>9 DEF IInv, DueWereClosed
<1>11. ArchiveWasClosed'
  BY <1>2, <1>9 DEF IInv, TypeOK, ArchiveWasClosed
<1> QED BY <1>3, <1>4, <1>5, <1>7, <1>8, <1>10, <1>11 DEF IInv

\* Giving up, or having nothing more to do.
LEMMA IdleStep ==
  ASSUME IInv, NEW p \in Proc, Goto(p, Idle),
         UNCHANGED <<files, live, archive>>, now' \in Nat, fails' \in Nat
  PROVE  IInv'
<1>1. Idle \in Job /\ Idle.step = "idle" /\ job' = [job EXCEPT ![p] = Idle]
  BY DEF Idle, Job, Goto
<1> QED BY <1>1, JobStep

-----------------------------------------------------------------------------
(* The steps that read.                                                    *)

LEMMA StatusFacts ==
  ASSUME NEW s \in Seq(Text)
  PROVE  /\ StatusOf(s) = "Closed" => \E i \in DOMAIN s : Closing(s[i])
         /\ Len(s) > 0 /\ Closing(s[Len(s)]) => StatusOf(s) = "Closed"
<1> DEFINE named == {i \in DOMAIN s : s[i] \in Line /\ s[i].event.type = "StatusChanged"}
<1>1. Len(s) \in Nat /\ DOMAIN s = 1 .. Len(s) /\ named \in SUBSET (1 .. Len(s))
  BY SeqFacts
<1>2. StatusOf(s) = IF named = {} THEN "Active" ELSE s[Greatest(named)].event.to
  BY DEF StatusOf
<1>3. named # {} => Greatest(named) \in named /\ \A j \in named : j <= Greatest(named)
  BY <1>1, GreatestExists
<1>4. ASSUME StatusOf(s) = "Closed" PROVE \E i \in DOMAIN s : Closing(s[i])
  BY <1>2, <1>3, <1>4 DEF Closing, Closes
<1>5. ASSUME Len(s) > 0, Closing(s[Len(s)]) PROVE StatusOf(s) = "Closed"
  <2>1. Len(s) \in DOMAIN s /\ Len(s) \in named
    <3>1. Len(s) \in DOMAIN s
      BY <1>1, <1>5
    <3> QED BY <1>5, <3>1 DEF Closing, Closes
  <2>2. Greatest(named) = Len(s)
    <3> HIDE DEF named
    <3>1. Greatest(named) \in 1 .. Len(s) /\ Len(s) <= Greatest(named)
      BY <1>1, <1>3, <2>1
    <3> QED BY <1>1, <3>1
  <2> QED BY <1>2, <1>5, <2>1, <2>2 DEF Closing, Closes
<1> QED BY <1>4, <1>5

LEMMA AgeAnchorType ==
  ASSUME TypeOK, NEW f \in FileNo
  PROVE  AgeAnchor(f) \in Nat
<1> DEFINE s == files[f].lines
           timed == {i \in DOMAIN s : s[i] \in Line /\ Timed(s[i].event)}
<1>1. s \in Seq(Text) /\ files[f].createdAt \in Nat
  BY FileFacts DEF TypeOK
<1>2. AgeAnchor(f) = IF timed = {} THEN files[f].createdAt ELSE s[Greatest(timed)].event.at
  BY DEF AgeAnchor
<1> HIDE DEF s
<1>3. Len(s) \in Nat /\ timed \in SUBSET (1 .. Len(s))
  BY <1>1, SeqFacts
<1>4. timed # {} => Greatest(timed) \in timed
  BY <1>3, GreatestExists
<1>5. timed # {} => s[Greatest(timed)].event.at \in Nat
  BY <1>4 DEF Line, SessionEvent
<1> QED BY <1>1, <1>2, <1>5

\* The header of a transcript that can be read has been written.
LEMMA ReadableHasHeader ==
  ASSUME IInv, NEW f \in FileNo, files[f].lines # <<>>, files[f].lines[1] = Header
  PROVE  \A q \in Proc : ~ Heading(q, f)
<1>1. files[f].lines \in Seq(Text)
  BY FileFacts DEF IInv, TypeOK
<1>2. 1 \in DOMAIN files[f].lines
  BY <1>1, SeqFacts
<1>3. ~ Blind(files[f].lines[1])
  BY TextsDiffer DEF Blind
<1> QED BY <1>2, <1>3 DEF IInv, HeaderIsFirst

LEMMA TickKeeps == ASSUME IInv, Tick PROVE IInv'
<1>1. UNCHANGED <<files, live, archive, job, fails>> /\ now' \in Nat
  BY DEF Tick, IInv, TypeOK
<1>2. /\ FileNo' = FileNo /\ Job' = Job
      /\ \A f : Pending(f)' = Pending(f) /\ WasClosed(f)' = WasClosed(f)
      /\ \A p, f : Heading(p, f)' = Heading(p, f) /\ Knows(p, f)' = Knows(p, f)
  BY <1>1 DEF FileNo, Job, Pending, WasClosed, Heading, Knows
<1>3. TypeOK'
  BY <1>1, <1>2 DEF IInv, TypeOK
<1> QED BY <1>1, <1>2, <1>3
        DEF IInv, LiveIsLatest, TranscriptsKept, PendingFits, HeaderIsFirst, NobodyPast,
            AllCloseLast, DueWereClosed, ArchiveWasClosed

LEMMA LoadKeeps ==
  ASSUME IInv, NEW p \in Proc, NEW id \in Id, NEW event \in Offered, Load(p, id, event)
  PROVE  IInv'
<1> DEFINE f == live[id]
           s == files[f].lines
           j == [step |-> "measure", id |-> id, event |-> [event EXCEPT !.at = now],
                 file |-> f, base |-> Len(s)]
<1>1. /\ f # 0 /\ Loadable(f) /\ ~ ClosedBy(f) /\ job' = [job EXCEPT ![p] = j]
      /\ UNCHANGED <<files, live, archive, now, fails>>
  BY DEF Load, Goto
<1>2. f \in FileNo
  BY <1>1 DEF IInv, TypeOK
<1>3. s \in Seq(Text)
  BY <1>2, FileFacts DEF IInv, TypeOK
<1>4. Len(s) \in Nat /\ now \in Nat /\ fails \in Nat
  <2> HIDE DEF s
  <2> QED BY <1>3, SeqFacts DEF IInv, TypeOK
<1>5. event \in SessionEvent
  BY OfferedAssumption
<1>6. [event EXCEPT !.at = now] \in SessionEvent
  BY <1>4, <1>5 DEF SessionEvent
<1>7. j \in Job
  BY <1>2, <1>4, <1>6 DEF Job
<1>8. NotPast(s, Len(s))
  <2>1. StatusOf(s) # "Closed"
    BY <1>1 DEF ClosedBy
  <2> HIDE DEF s
  <2> QED BY <1>3, <1>4, <2>1, StatusFacts DEF NotPast
<1>9. \A q \in Proc : ~ Heading(q, f)
  BY <1>1, <1>2, ReadableHasHeader DEF Loadable
<1>10. /\ j.step = "measure" /\ j.file = f /\ j.base = Len(s)
  OBVIOUS
<1> HIDE DEF j
<1> QED BY <1>1, <1>4, <1>7, <1>8, <1>9, <1>10, JobStep

LEMMA MeasureKeeps == ASSUME IInv, NEW p \in Proc, Measure(p) PROVE IInv'
<1> DEFINE f == live[job[p].id]
           j == [job[p] EXCEPT !.step = "open"]
<1>1. /\ job[p].step = "measure"
      /\ UNCHANGED <<files, live, archive, now, fails>>
      /\ Goto(p, IF f # 0 /\ files[f].size + 1 <= MaxFileBytes THEN j ELSE Idle)
  BY DEF Measure
<1>2. job \in [Proc -> Job] /\ now \in Nat /\ fails \in Nat /\ job[p] \in Job
  BY DEF IInv, TypeOK
<1>3. CASE ~ (f # 0 /\ files[f].size + 1 <= MaxFileBytes)
  <2>1. Goto(p, Idle)
    BY <1>1, <1>3
  <2> QED BY <1>1, <1>2, <2>1, IdleStep
<1>4. CASE f # 0 /\ files[f].size + 1 <= MaxFileBytes
  <2>1. job[p] \in [step : {"measure", "open"}, id : Id, event : SessionEvent,
                    file : FileNo, base : Nat]
    BY <1>1, <1>2, JobFacts
  <2>2. /\ j \in Job /\ j.step = "open" /\ j.id = job[p].id /\ j.file = job[p].file
        /\ j.base = job[p].base /\ j.file \in FileNo
    BY <2>1 DEF Job
  <2>3. job' = [job EXCEPT ![p] = j] /\ job'[p] = j /\ \A q \in Proc \ {p} : job'[q] = job[q]
    BY <1>1, <1>2, <1>4 DEF Goto
  <2>4. Knows(p, j.file) /\ job[p].step = "measure"
    BY <1>1, <2>2 DEF Knows
  <2>5. /\ NotPast(files[j.file].lines, j.base)
        /\ \A q \in Proc : ~ Heading(q, j.file)
    BY <1>1, <2>2, <2>4 DEF IInv, NobodyPast, HeaderIsFirst, Heading
  <2> HIDE DEF j
  <2>6. ASSUME NEW g \in FileNo
        PROVE  files[g].size + Cardinality(Pending(g)') <= Cap + Cardinality(Proc) - 1
    <3>1. /\ files[g].size \in Nat /\ Cardinality(Pending(g)) \in Nat /\ Cap \in Nat
          /\ Cardinality(Proc) \in Nat
          /\ files[g].size + Cardinality(Pending(g)) <= Cap + Cardinality(Proc) - 1
      BY FileFacts, PendingIsFinite, CapFacts DEF IInv, TypeOK, PendingFits
    <3>2. Pending(g)' \in SUBSET Proc
      BY DEF Pending
    <3>3. Cardinality(Pending(g)') \in Nat /\ Cardinality(Pending(g)') <= Cardinality(Proc)
      BY <3>2, ProcAssumption, FS_Subset, FS_CardinalityType
    <3>4. CASE g = f
      <4>1. files[g].size + 1 <= Cap
        BY <1>4, <3>1, <3>4, CapFacts, BoundsAssumption
      <4> QED BY <3>1, <3>3, <4>1
    <3>5. CASE g # f
      <4>1. Pending(g)' \in SUBSET Pending(g)
        BY <1>1, <2>2, <2>3, <3>5 DEF Pending
      <4>2. Cardinality(Pending(g)') <= Cardinality(Pending(g))
        BY <4>1, PendingIsFinite, FS_Subset
      <4> QED BY <3>1, <3>3, <4>2
    <3> QED BY <3>4, <3>5
  <2> QED BY <1>1, <1>2, <2>2, <2>3, <2>5, <2>6, JobStep
<1> QED BY <1>3, <1>4

LEMMA OpenKeeps == ASSUME IInv, NEW p \in Proc, Open(p) PROVE IInv'
<1> DEFINE f == live[job[p].id]
           j == [step |-> "write", file |-> f, event |-> job[p].event,
                 base |-> IF f = job[p].file THEN job[p].base ELSE 0]
<1>1. /\ job[p].step = "open"
      /\ UNCHANGED <<files, live, archive, now, fails>>
      /\ Goto(p, IF f = 0 THEN Idle ELSE j)
  BY DEF Open
<1>2. job \in [Proc -> Job] /\ now \in Nat /\ fails \in Nat /\ job[p] \in Job
  BY DEF IInv, TypeOK
<1>3. CASE f = 0
  <2>1. Goto(p, Idle)
    BY <1>1, <1>3
  <2> QED BY <1>1, <1>2, <2>1, IdleStep
<1>4. CASE f # 0
  <2>1. /\ job[p].id \in Id /\ job[p].event \in SessionEvent /\ job[p].base \in Nat
        /\ job[p].file \in FileNo
    BY <1>1, <1>2, JobFacts
  <2>2. f \in FileNo
    BY <1>4, <2>1 DEF IInv, TypeOK
  <2>3. /\ j \in Job /\ j.step = "write" /\ j.file = f
        /\ j.base = IF f = job[p].file THEN job[p].base ELSE 0
    BY <2>1, <2>2 DEF Job
  <2>4. job' = [job EXCEPT ![p] = j] /\ job'[p] = j /\ \A q \in Proc \ {p} : job'[q] = job[q]
    BY <1>1, <1>2, <1>4 DEF Goto
  <2> HIDE DEF j
  <2>5. Knows(p, job[p].file)
    BY <1>1 DEF Knows
  <2>6. \A q \in Proc : Heading(q, job[p].file) => FALSE
    BY <1>1, <2>1, <2>5 DEF IInv, HeaderIsFirst, Heading
  <2>7. /\ NotPast(files[f].lines, j.base)
        /\ \A q \in Proc : Heading(q, f) => j.base = 0
    <3>1. CASE f = job[p].file
      BY <2>2, <2>3, <2>5, <2>6, <3>1 DEF IInv, NobodyPast
    <3>2. CASE f # job[p].file
      <4>1. Len(files[f].lines) \in Nat /\ j.base = 0
        BY <2>2, <2>3, <3>2, FileFacts, LenProperties DEF IInv, TypeOK
      <4> QED BY <4>1 DEF NotPast
    <3> QED BY <3>1, <3>2
  <2>8. ASSUME NEW g \in FileNo
        PROVE  files[g].size + Cardinality(Pending(g)') <= Cap + Cardinality(Proc) - 1
    <3>1. Pending(g)' = Pending(g)
      BY <1>1, <2>3, <2>4 DEF Pending
    <3> QED BY <3>1 DEF IInv, PendingFits
  <2> QED BY <1>1, <1>2, <2>3, <2>4, <2>7, <2>8, JobStep
<1> QED BY <1>3, <1>4

LEMMA ListKeeps == ASSUME IInv, NEW p \in Proc, List(p) PROVE IInv'
<1> DEFINE due == {id \in Id : live[id] # 0 /\ Eligible(live[id])}
           todo == {[month |-> AgeAnchor(live[id]) \div Month, id |-> id] : id \in due}
           j == [step |-> "rename", todo |-> todo]
<1>1. job' = [job EXCEPT ![p] = j] /\ UNCHANGED <<files, live, archive, now, fails>>
  BY DEF List, Goto
<1>2. \A id \in due : live[id] \in FileNo
  BY DEF IInv, TypeOK
<1>3. \A id \in due : AgeAnchor(live[id]) \div Month \in Nat
  <2>1. ASSUME NEW id \in due PROVE AgeAnchor(live[id]) \div Month \in Nat
    <3>1. AgeAnchor(live[id]) \in Nat /\ Month \in Nat \ {0}
      BY <1>2, AgeAnchorType, BoundsAssumption DEF IInv
    <3> QED BY <3>1
  <2> QED BY <2>1
<1>4. todo \subseteq [month : Nat, id : Id]
  BY <1>3
<1>5. j \in Job
  BY <1>4 DEF Job
<1>6. ASSUME NEW name \in todo
      PROVE  \E f \in FileNo : /\ files[f].id = name.id /\ WasClosed(f)
                               /\ live[name.id] # 0 => f <= live[name.id]
  <2>1. PICK id \in due : name.id = id
    OBVIOUS
  <2> DEFINE f == live[id]
  <2>2. f \in FileNo /\ f \in Nat /\ files[f].lines \in Seq(Text) /\ id \in Id /\ f # 0
    BY <1>2, FileFacts DEF IInv, TypeOK
  <2>3. files[f].id = id
    BY <2>2 DEF IInv, LiveIsLatest
  <2>4. Listed(f) /\ ClosedBy(f)
    BY <2>1 DEF Eligible
  <2>5. \A q \in Proc : ~ Heading(q, f)
    BY <2>2, <2>4, ReadableHasHeader DEF Listed
  <2>6. SomeClose(files[f].lines)
    BY <2>2, <2>4, StatusFacts DEF ClosedBy, SomeClose
  <2> QED BY <2>1, <2>2, <2>3, <2>5, <2>6 DEF WasClosed
<1>7. j.step = "rename" /\ j.todo = todo
  OBVIOUS
<1>8. now \in Nat /\ fails \in Nat
  BY DEF IInv, TypeOK
<1> HIDE DEF j, todo
<1> QED BY <1>1, <1>5, <1>6, <1>7, <1>8, JobStep

-----------------------------------------------------------------------------
(* The steps that write.                                                   *)

\* One process changes one file and is idle again.
LEMMA FileStep ==
  ASSUME IInv, NEW p \in Proc, NEW f \in FileNo,
         job[p].step \in {"header", "write"}, job[p].file = f,
         Goto(p, Idle), UNCHANGED <<live, archive, now>>, fails' \in Nat,
         files' \in Seq(Transcript), Len(files') = Len(files),
         \A h \in FileNo : h # f => files'[h] = files[h],
         files'[f].id = files[f].id,
         files'[f].lines # <<>>,
         ClosesLast(files'[f].lines),
         files'[f].size + Cardinality(Pending(f) \ {p}) <= Cap + Cardinality(Proc) - 1,
         SomeClose(files[f].lines) =>
           Heading(p, f) \/ SomeClose(files'[f].lines),
         \A q \in Proc \ {p} : Knows(q, f) => NotPast(files'[f].lines, job[q].base),
         \A q \in Proc \ {p} : Heading(q, f) =>
           \A i \in DOMAIN files'[f].lines : Blind(files'[f].lines[i])
  PROVE  IInv'
<1>1. /\ job \in [Proc -> Job] /\ job'[p] = Idle /\ Idle \in Job
      /\ job' = [job EXCEPT ![p] = Idle]
      /\ \A q \in Proc \ {p} : job'[q] = job[q]
  BY DEF IInv, TypeOK, Goto, Job
<1>2. FileNo' = FileNo /\ Job' = Job
  BY DEF FileNo, Job
<1>3. \A h \in FileNo : files'[h].id = files[h].id
  OBVIOUS
<1>4. TypeOK'
  BY <1>1, <1>2 DEF IInv, TypeOK
<1>5. LiveIsLatest'
  <2>1. \A id \in Id : live[id] # 0 => live[id] \in FileNo
    BY DEF IInv, TypeOK
  <2> QED BY <1>3, <2>1 DEF IInv, LiveIsLatest
<1>6. TranscriptsKept'
  BY <1>2, <1>3 DEF IInv, TranscriptsKept
<1>7. \A h : Pending(h)' = Pending(h) \ {p}
  BY <1>1 DEF Pending, Idle
<1>8. PendingFits'
  <2>1. ASSUME NEW h \in FileNo, h # f
        PROVE  files'[h].size + Cardinality(Pending(h)') <= Cap + Cardinality(Proc) - 1
    <3>1. files[h].size + Cardinality(Pending(h)) <= Cap + Cardinality(Proc) - 1
      BY DEF IInv, PendingFits
    <3>2. Cardinality(Pending(h)') \in Nat /\ Cardinality(Pending(h)') <= Cardinality(Pending(h))
      <4>1. Pending(h)' \in SUBSET Pending(h)
        BY <1>7
      <4> QED BY <4>1, PendingIsFinite, FS_Subset, FS_CardinalityType
    <3>3. files'[h].size = files[h].size /\ files[h].size \in Nat
          /\ Cardinality(Pending(h)) \in Nat /\ Cap \in Nat /\ Cardinality(Proc) \in Nat
      BY <2>1, FileFacts, PendingIsFinite, CapFacts DEF IInv, TypeOK
    <3> QED BY <3>1, <3>2, <3>3
  <2> QED BY <1>2, <1>7, <2>1 DEF IInv, PendingFits
<1>9. \A q \in Proc, h \in FileNo :
        /\ Heading(q, h)' => Heading(q, h) /\ q # p
        /\ Knows(q, h)' => Knows(q, h) /\ q # p
  BY <1>1 DEF Heading, Knows, Idle
<1>10. HeaderIsFirst'
  <2>1. ASSUME NEW q \in Proc, NEW h \in FileNo, Heading(q, h)'
        PROVE  /\ \A i \in DOMAIN files'[h].lines : Blind(files'[h].lines[i])
               /\ \A r \in Proc \ {q} :
                    /\ ~ Heading(r, h)'
                    /\ Knows(r, h)' => job'[r].step = "write" /\ job'[r].base = 0
    BY <1>1, <1>9, <2>1 DEF IInv, HeaderIsFirst
  <2> QED BY <1>2, <2>1 DEF HeaderIsFirst
<1>11. NobodyPast'
  <2>1. ASSUME NEW q \in Proc, NEW h \in FileNo, Knows(q, h)'
        PROVE  NotPast(files'[h].lines, job'[q].base)
    BY <1>1, <1>9, <2>1 DEF IInv, NobodyPast
  <2> QED BY <1>2, <2>1 DEF NobodyPast
<1>12. AllCloseLast'
  BY <1>2 DEF IInv, AllCloseLast
<1>13. \A h \in FileNo : WasClosed(h) => WasClosed(h)'
  BY <1>9 DEF WasClosed
<1>14. DueWereClosed'
  <2>1. ASSUME NEW q \in Proc, job'[q].step = "rename", NEW name \in job'[q].todo
        PROVE  \E h \in FileNo : /\ files'[h].id = name.id /\ WasClosed(h)'
                                 /\ live[name.id] # 0 => h <= live[name.id]
    <3>1. q # p /\ job'[q] = job[q]
      BY <1>1, <2>1 DEF Idle
    <3>2. PICK h \in FileNo : /\ files[h].id = name.id /\ WasClosed(h)
                              /\ live[name.id] # 0 => h <= live[name.id]
      BY <2>1, <3>1 DEF IInv, DueWereClosed
    <3> QED BY <1>3, <1>13, <3>2
  <2> QED BY <1>2, <2>1 DEF DueWereClosed
<1>15. ArchiveWasClosed'
  BY <1>2, <1>3, <1>13 DEF IInv, TypeOK, ArchiveWasClosed
<1> QED BY <1>4, <1>5, <1>6, <1>8, <1>10, <1>11, <1>12, <1>14, <1>15 DEF IInv

\* An append, of a whole line or of a part of one.
LEMMA AppendStep ==
  ASSUME IInv, NEW p \in Proc, job[p].step = "write",
         NEW t \in {NewLine(p), Bad}, NEW whole \in BOOLEAN,
         files' = Appended(job[p].file, t, whole),
         Goto(p, Idle), UNCHANGED <<live, archive, now>>, fails' \in Nat
  PROVE  IInv'
<1> DEFINE f == job[p].file
<1>1. /\ f \in FileNo /\ job[p].event \in SessionEvent /\ job[p].base \in Nat
      /\ files[f].lines \in Seq(Text) /\ files[f].size \in Nat
  BY JobFacts, FileFacts DEF IInv, TypeOK
<1>2. /\ NewLine(p) \in Line /\ NewLine(p).base = job[p].base
      /\ t \in Text
  BY <1>1 DEF NewLine, Line, Text
<1>3. /\ files' \in Seq(Transcript) /\ Len(files') = Len(files)
      /\ \A h \in FileNo : h # f => files'[h] = files[h]
      /\ files'[f].id = files[f].id
      /\ files'[f].size = files[f].size + 1
      /\ Grown(files[f].lines, files'[f].lines, t)
  BY <1>1, <1>2, AppendedFacts DEF IInv
<1> HIDE DEF f
<1> DEFINE s == files[f].lines
           u == files'[f].lines
<1>4. Knows(p, f) /\ p \in Pending(f)
  BY DEF Knows, Pending, f
<1>5. /\ SomeClose(s) => SomeClose(u)
      /\ \A b \in Nat : b <= Len(s) /\ NotPast(s, b) => NotPast(u, b)
      /\ Blind(t) /\ (\A i \in DOMAIN s : Blind(s[i])) => \A i \in DOMAIN u : Blind(u[i])
      /\ ClosesLast(s) /\ (t = Bad \/ t \in {l \in Line : NotPast(s, l.base)})
           => ClosesLast(u)
  BY <1>1, <1>3, GrownKeeps
<1>6. ClosesLast(u)
  <2>1. ClosesLast(s) /\ NotPast(s, job[p].base)
    BY <1>1, <1>4 DEF IInv, AllCloseLast, NobodyPast
  <2> QED BY <1>2, <1>5, <2>1
<1>7. files'[f].size + Cardinality(Pending(f) \ {p}) <= Cap + Cardinality(Proc) - 1
  <2>1. Cardinality(Pending(f) \ {p}) = Cardinality(Pending(f)) - 1
    BY <1>4, PendingIsFinite, FS_RemoveElement
  <2>2. files[f].size + Cardinality(Pending(f)) <= Cap + Cardinality(Proc) - 1
    BY <1>1 DEF IInv, PendingFits
  <2> QED BY <1>1, <1>3, <2>1, <2>2, PendingIsFinite, CapFacts
<1>8. ASSUME NEW q \in Proc \ {p}, Knows(q, f) PROVE NotPast(u, job[q].base)
  <2>1. job[q].base \in Nat
    BY <1>8, JobFacts DEF Knows, IInv, TypeOK
  <2>2. NotPast(s, job[q].base)
    BY <1>1, <1>8 DEF IInv, NobodyPast
  <2> QED BY <1>5, <2>1, <2>2 DEF NotPast
<1>9. ASSUME NEW q \in Proc \ {p}, Heading(q, f) PROVE \A i \in DOMAIN u : Blind(u[i])
  <2>1. job[p].base = 0 /\ \A i \in DOMAIN s : Blind(s[i])
    BY <1>1, <1>4, <1>9 DEF IInv, HeaderIsFirst
  <2>2. Blind(t)
    BY <1>2, <2>1 DEF Blind
  <2> QED BY <1>5, <2>1, <2>2
<1>10. u # <<>>
  BY <1>3 DEF Grown
<1>11. job[p].file = f /\ job[p].step = "write"
  BY DEF f
<1> QED BY <1>1, <1>3, <1>5, <1>6, <1>7, <1>8, <1>9, <1>10, <1>11, FileStep

LEMMA WriteKeeps == ASSUME IInv, NEW p \in Proc, Write(p) PROVE IInv'
<1>1. /\ job[p].step = "write" /\ files' = Appended(job[p].file, NewLine(p), TRUE)
      /\ Goto(p, Idle) /\ UNCHANGED <<live, archive, now>> /\ fails' \in Nat
  BY DEF Write, IInv, TypeOK
<1> QED BY <1>1, AppendStep

LEMMA WriteFailsKeeps == ASSUME IInv, NEW p \in Proc, WriteFails(p) PROVE IInv'
<1>1. /\ job[p].step = "write" /\ Goto(p, Idle)
      /\ UNCHANGED <<live, archive, now>> /\ fails' \in Nat /\ now' \in Nat
  BY DEF WriteFails, Fail, IInv, TypeOK
<1>2. CASE UNCHANGED files
  BY <1>1, <1>2, IdleStep
<1>3. CASE \E t \in {NewLine(p), Bad} : files' = Appended(job[p].file, t, FALSE)
  BY <1>1, <1>3, AppendStep
<1> QED BY <1>2, <1>3 DEF WriteFails

\* New lines and perhaps a new size for one file.
Rewritten(f, u, n) ==
  [files EXCEPT ![f] = [id |-> files[f].id, lines |-> u, size |-> n,
                        open |-> files[f].open, createdAt |-> files[f].createdAt]]

LEMMA RewrittenFacts ==
  ASSUME files \in Seq(Transcript), NEW f \in FileNo, NEW u \in Seq(Text), NEW n \in Nat
  PROVE  LET g == Rewritten(f, u, n)
         IN /\ g \in Seq(Transcript) /\ Len(g) = Len(files)
            /\ \A h \in FileNo : h # f => g[h] = files[h]
            /\ g[f].id = files[f].id
            /\ g[f].lines = u /\ g[f].size = n
<1> DEFINE r == [id |-> files[f].id, lines |-> u, size |-> n, open |-> files[f].open,
                 createdAt |-> files[f].createdAt]
           g == [files EXCEPT ![f] = r]
<1>1. /\ files[f] \in Transcript /\ files[f].id \in Id /\ files[f].open \in BOOLEAN
      /\ files[f].createdAt \in Nat /\ f \in 1 .. Len(files)
  BY FileFacts DEF FileNo
<1>2. r \in Transcript /\ r.id = files[f].id /\ r.lines = u /\ r.size = n
  BY <1>1 DEF Transcript
<1>3. Rewritten(f, u, n) = g
  BY DEF Rewritten
<1> HIDE DEF r
<1>4. /\ g \in Seq(Transcript) /\ Len(g) = Len(files)
      /\ \A h \in 1 .. Len(files) : g[h] = IF h = f THEN r ELSE files[h]
  BY <1>1, <1>2, ExceptSeq
<1> QED BY <1>1, <1>2, <1>3, <1>4 DEF FileNo

\* A header, or a part of it.
LEMMA HeaderStep ==
  ASSUME IInv, NEW p \in Proc, NEW f \in FileNo, Heading(p, f),
         Goto(p, Idle), UNCHANGED <<live, archive, now>>, fails' \in Nat,
         files' \in Seq(Transcript), Len(files') = Len(files),
         \A h \in FileNo : h # f => files'[h] = files[h],
         files'[f].id = files[f].id,
         files'[f].lines # <<>>,
         ClosesLast(files'[f].lines),
         files'[f].size \in {files[f].size, 1}
  PROVE  IInv'
<1>1. files'[f].size + Cardinality(Pending(f) \ {p}) <= Cap + Cardinality(Proc) - 1
  <2>1. p \notin Pending(f)
    BY DEF Heading, Pending
  <2>2. Pending(f) \ {p} = Pending(f) /\ Pending(f) \in SUBSET (Proc \ {p})
    BY <2>1 DEF Pending
  <2>3. /\ IsFiniteSet(Proc \ {p}) /\ Cardinality(Proc \ {p}) = Cardinality(Proc) - 1
    BY ProcAssumption, FS_RemoveElement
  <2>4. Cardinality(Pending(f)) <= Cardinality(Proc) - 1
    BY <2>2, <2>3, FS_Subset
  <2>5. files[f].size + Cardinality(Pending(f)) <= Cap + Cardinality(Proc) - 1
    BY DEF IInv, PendingFits
  <2>6. /\ Cap \in Nat /\ Cap >= 1 /\ Cardinality(Proc) \in Nat
        /\ Cardinality(Pending(f)) \in Nat /\ files[f].size \in Nat
    BY CapFacts, PendingIsFinite, FileFacts DEF IInv, TypeOK
  <2>7. 1 + Cardinality(Pending(f)) <= Cap + Cardinality(Proc) - 1
    BY <2>4, <2>6
  <2> QED BY <2>2, <2>5, <2>7
<1>2. \A q \in Proc \ {p} :
        ~ Heading(q, f) /\ (Knows(q, f) => job[q].base = 0)
  BY DEF IInv, HeaderIsFirst
<1>3. NotPast(files'[f].lines, 0)
  <2>1. files'[f].lines \in Seq(Text)
    <3>1. files' \in [1 .. Len(files) -> Transcript] /\ f \in 1 .. Len(files)
      BY LenProperties DEF FileNo
    <3> QED BY <3>1 DEF Transcript
  <2>2. Len(files'[f].lines) \in Nat
    BY <2>1, LenProperties
  <2> QED BY <2>2 DEF NotPast
<1> QED BY <1>1, <1>2, <1>3, FileStep DEF Heading

LEMMA WriteHeaderKeeps == ASSUME IInv, NEW p \in Proc, WriteHeader(p) PROVE IInv'
<1> DEFINE f == job[p].file
           n == IF files[f].size = 0 THEN 1 ELSE files[f].size
<1>1. /\ job[p].step = "header" /\ Goto(p, Idle) /\ UNCHANGED <<live, archive, now, fails>>
  BY DEF WriteHeader
<1>2. /\ f \in FileNo /\ files \in Seq(Transcript) /\ files[f] \in Transcript
      /\ files[f].lines \in Seq(Text) /\ n \in Nat /\ fails \in Nat /\ Heading(p, f)
  BY <1>1, JobFacts, FileFacts DEF IInv, TypeOK, Heading
<1>3. PICK u \in Over(files[f].lines) :
        files' = [files EXCEPT ![f].lines = u, ![f].size = IF @ = 0 THEN 1 ELSE @]
  BY DEF WriteHeader
<1>4. \A i \in DOMAIN files[f].lines : Blind(files[f].lines[i])
  BY <1>2 DEF IInv, HeaderIsFirst
<1>5. u \in Seq(Text) /\ u # <<>> /\ ClosesLast(u)
  BY <1>2, <1>4, OverIsBlind
<1>6. files' = Rewritten(f, u, n)
  <2>1. DOMAIN files = FileNo
    BY <1>2, FileFacts
  <2>2. files[f] = [id |-> files[f].id, lines |-> files[f].lines, size |-> files[f].size,
                    open |-> files[f].open, createdAt |-> files[f].createdAt]
    BY <1>2 DEF Transcript
  <2> DEFINE g1 == [files EXCEPT ![f].lines = u]
             g2 == [g1 EXCEPT ![f].size = IF @ = 0 THEN 1 ELSE @]
  <2>3. files' = g2
    BY <1>3
  <2>4. /\ g1[f] = [id |-> files[f].id, lines |-> u, size |-> files[f].size,
                    open |-> files[f].open, createdAt |-> files[f].createdAt]
        /\ g1 = [h \in FileNo |-> g1[h]]
        /\ \A h \in FileNo \ {f} : g1[h] = files[h]
    BY <1>2, <2>1, <2>2
  <2> HIDE DEF g1
  <2>5. /\ g2[f] = [id |-> files[f].id, lines |-> u, size |-> n,
                    open |-> files[f].open, createdAt |-> files[f].createdAt]
        /\ g2 = [h \in FileNo |-> g2[h]]
        /\ \A h \in FileNo \ {f} : g2[h] = files[h]
    <3>1. f \in FileNo /\ g1[f].size = files[f].size
      BY <1>2, <2>4
    <3>2. g2[f] = [g1[f] EXCEPT !.size = n]
      BY <2>4, <3>1
    <3>3. \A h \in FileNo \ {f} : g2[h] = g1[h]
      BY <2>4
    <3>4. g2 = [h \in FileNo |-> g2[h]]
      BY <2>4
    <3> HIDE DEF g2, n
    <3> QED BY <2>4, <3>2, <3>3, <3>4
  <2> HIDE DEF g2
  <2>6. Rewritten(f, u, n)
          = [h \in FileNo |->
               IF h = f THEN [id |-> files[f].id, lines |-> u, size |-> n,
                              open |-> files[f].open, createdAt |-> files[f].createdAt]
               ELSE files[h]]
    BY <1>2, <2>1 DEF Rewritten
  <2> QED BY <2>3, <2>5, <2>6
<1>7. /\ files' \in Seq(Transcript) /\ Len(files') = Len(files)
      /\ \A h \in FileNo : h # f => files'[h] = files[h]
      /\ files'[f].id = files[f].id
      /\ files'[f].lines = u /\ files'[f].size = n
  BY <1>2, <1>5, <1>6, RewrittenFacts
<1>8. files'[f].size \in {files[f].size, 1}
  BY <1>7
<1> HIDE DEF f
<1> QED BY <1>1, <1>2, <1>5, <1>7, <1>8, HeaderStep

LEMMA HeaderFailsKeeps == ASSUME IInv, NEW p \in Proc, HeaderFails(p) PROVE IInv'
<1> DEFINE f == job[p].file
           s == files[f].lines
<1>1. /\ job[p].step = "header" /\ Goto(p, Idle) /\ UNCHANGED <<live, archive, now>>
      /\ fails' \in Nat /\ now' \in Nat
  BY DEF HeaderFails, Fail, IInv, TypeOK
<1>2. /\ f \in FileNo /\ files \in Seq(Transcript) /\ files[f] \in Transcript
      /\ s \in Seq(Text) /\ files[f].size \in Nat /\ Heading(p, f)
  BY <1>1, JobFacts, FileFacts DEF IInv, TypeOK, Heading
<1>3. Header \in Text /\ Bad \in Text /\ Blind(Bad) /\ ~ Closing(Bad) /\ ~ Closing(Header)
  BY TextsDiffer DEF Text, Blind, Closing
<1>4. CASE UNCHANGED files
  BY <1>1, <1>4, IdleStep
<1>5. CASE s = <<>> /\ \E t \in {Header, Bad} : files' = Appended(f, t, FALSE)
  <2>1. PICK t \in {Header, Bad} : files' = Appended(f, t, FALSE)
    BY <1>5
  <2>2. /\ files' \in Seq(Transcript) /\ Len(files') = Len(files)
        /\ \A h \in FileNo : h # f => files'[h] = files[h]
        /\ files'[f].id = files[f].id
        /\ files'[f].size = files[f].size + 1
        /\ Grown(s, files'[f].lines, t)
    <3>1. t \in Text /\ FALSE \in BOOLEAN
      BY <1>3
    <3> QED BY <1>2, <2>1, <3>1, AppendedFacts DEF IInv
  <2>3. files'[f].size = 1
    <3>1. files[f].size = 0
      BY <1>2, <1>5 DEF IInv, PendingFits
    <3> QED BY <2>2, <3>1
  <2>4. files'[f].lines # <<>> /\ ClosesLast(files'[f].lines)
    <3>1. Len(s) = 0
      BY <1>5, EmptySeq
    <3>2. files'[f].lines \in Seq(Text) /\ files'[f].lines # <<>> /\ Len(files'[f].lines) = 1
      BY <2>2, <3>1 DEF Grown
    <3>3. DOMAIN files'[f].lines = 1 .. 1
      BY <3>2, LenProperties
    <3> QED BY <3>2, <3>3 DEF ClosesLast
  <2> HIDE DEF f
  <2> QED BY <1>1, <1>2, <2>2, <2>3, <2>4, HeaderStep
<1>6. CASE s # <<>> /\ files' = [files EXCEPT ![f].lines = [s EXCEPT ![1] = Bad]]
  <2> DEFINE u == [s EXCEPT ![1] = Bad]
  <2>1. /\ Len(s) \in Nat /\ Len(s) >= 1 /\ DOMAIN s = 1 .. Len(s)
    BY <1>2, <1>6, SeqFacts
  <2>2. /\ u \in Seq(Text) /\ Len(u) = Len(s)
        /\ \A i \in 1 .. Len(s) : u[i] = IF i = 1 THEN Bad ELSE s[i]
    BY <1>2, <1>3, <2>1, ExceptSeq
  <2>3. DOMAIN u = 1 .. Len(s) /\ u # <<>>
    BY <2>1, <2>2, EmptySeq
  <2> HIDE DEF u
  <2>4. \A i \in 1 .. Len(s) : Blind(u[i])
    BY <1>2, <1>3, <2>1, <2>2 DEF IInv, HeaderIsFirst
  <2>5. ClosesLast(u)
    <3>1. ASSUME NEW i \in DOMAIN u, i < Len(u) PROVE u[i + 1] = Bad \/ u[i + 1].base < i
      <4>1. Blind(u[i + 1]) /\ i > 0
        BY <2>1, <2>2, <2>3, <2>4, <3>1
      <4> QED BY <4>1 DEF Blind
    <3> QED BY <3>1 DEF ClosesLast
  <2>6. files' = Rewritten(f, u, files[f].size)
    <3>1. DOMAIN files = FileNo
      BY <1>2, FileFacts
    <3>2. files[f] = [id |-> files[f].id, lines |-> files[f].lines, size |-> files[f].size,
                      open |-> files[f].open, createdAt |-> files[f].createdAt]
      BY <1>2 DEF Transcript
    <3>3. files' = [files EXCEPT ![f] = [files[f] EXCEPT !.lines = u]]
      BY <1>6, <3>1 DEF u
    <3>4. [files[f] EXCEPT !.lines = u]
            = [id |-> files[f].id, lines |-> u, size |-> files[f].size,
               open |-> files[f].open, createdAt |-> files[f].createdAt]
      BY <3>2
    <3> QED BY <3>3, <3>4 DEF Rewritten
  <2>7. /\ files' \in Seq(Transcript) /\ Len(files') = Len(files)
        /\ \A h \in FileNo : h # f => files'[h] = files[h]
        /\ files'[f].id = files[f].id
        /\ files'[f].lines = u /\ files'[f].size = files[f].size
    BY <1>2, <2>2, <2>6, RewrittenFacts
  <2> HIDE DEF f
  <2> QED BY <1>1, <1>2, <2>3, <2>5, <2>7, HeaderStep
<1> QED BY <1>4, <1>5, <1>6 DEF HeaderFails

-----------------------------------------------------------------------------
(* The steps that change which names the files have.                       *)

LEMMA CreateKeeps ==
  ASSUME IInv, NEW p \in Proc, NEW id \in Id, Create(p, id)
  PROVE  IInv'
<1> DEFINE n == Len(files) + 1
           r == [id |-> id, lines |-> <<>>, size |-> 0, open |-> FALSE, createdAt |-> now]
           j == [step |-> "header", file |-> n]
<1>1. /\ job[p] = Idle /\ live[id] = 0 /\ files' = Append(files, r)
      /\ live' = [live EXCEPT ![id] = n] /\ job' = [job EXCEPT ![p] = j]
      /\ UNCHANGED <<archive, now, fails>>
  BY DEF Create, Goto
<1>2. /\ files \in Seq(Transcript) /\ Len(files) \in Nat /\ job \in [Proc -> Job]
      /\ live \in [Id -> {0} \cup FileNo] /\ now \in Nat
  BY LenProperties DEF IInv, TypeOK
<1>3. r \in Transcript /\ r.id = id /\ r.lines = <<>> /\ r.size = 0 /\ ~ r.open
  BY <1>2, EmptySeq DEF Transcript
<1> HIDE DEF r
<1>4. /\ files' \in Seq(Transcript) /\ Len(files') = n
      /\ \A f \in FileNo : files'[f] = files[f]
      /\ files'[n] = r
  BY <1>1, <1>2, <1>3, AppendProperties DEF FileNo
<1>5. FileNo' = FileNo \cup {n} /\ n \notin FileNo /\ \A f \in FileNo : f < n /\ f # 0
  BY <1>2, <1>4 DEF FileNo
<1>6. Job \subseteq Job' /\ j \in Job'
  BY <1>5 DEF Job
<1>7. /\ job'[p] = j /\ j.step = "header" /\ j.file = n
      /\ \A q \in Proc \ {p} : job'[q] = job[q]
      /\ job[p].step = "idle"
  BY <1>1, <1>2 DEF Idle
<1>8. live'[id] = n /\ \A i \in Id \ {id} : live'[i] = live[i]
  BY <1>1, <1>2
<1>9. \A q \in Proc : job[q] \in Job
  BY <1>2
<1> HIDE DEF n, j
<1>10. TypeOK'
  <2>1. live' \in [Id -> {0} \cup FileNo']
    BY <1>1, <1>2, <1>5
  <2>2. job' \in [Proc -> Job']
    BY <1>1, <1>2, <1>6
  <2>3. archive \subseteq [month : Nat, id : Id, file : FileNo']
    BY <1>5 DEF IInv, TypeOK
  <2>4. \A f \in FileNo' : files'[f].open => files'[f].lines # <<>>
    BY <1>3, <1>4, <1>5 DEF IInv, TypeOK
  <2> QED BY <1>1, <1>4, <2>1, <2>2, <2>3, <2>4 DEF IInv, TypeOK
<1>11. LiveIsLatest'
  <2>1. ASSUME NEW i \in Id, live'[i] # 0 PROVE files'[live'[i]].id = i
    <3>1. CASE i = id
      BY <1>3, <1>4, <1>8, <3>1
    <3>2. CASE i # id
      <4>1. live'[i] = live[i] /\ live[i] \in FileNo
        BY <1>2, <1>8, <2>1, <3>2
      <4> QED BY <1>4, <2>1, <4>1 DEF IInv, LiveIsLatest
    <3> QED BY <3>1, <3>2
  <2>2. ASSUME NEW a \in archive, live'[a.id] # 0 PROVE a.file < live'[a.id]
    <3>1. a.id \in Id /\ a.file \in FileNo
      BY DEF IInv, TypeOK
    <3> QED BY <1>5, <1>8, <2>2, <3>1 DEF IInv, LiveIsLatest
  <2> QED BY <1>1, <2>1, <2>2 DEF LiveIsLatest
<1>12. TranscriptsKept'
  <2>1. ASSUME NEW f \in FileNo
        PROVE  \/ live'[files'[f].id] = f
               \/ \E a \in archive' : a.id = files'[f].id /\ (a.file = f \/ a.file > f)
    <3>1. files'[f].id = files[f].id /\ files[f].id \in Id /\ f # 0
      BY <1>2, <1>4, <1>5, <2>1, FileFacts
    <3>2. CASE live[files[f].id] = f
      BY <1>1, <1>8, <3>1, <3>2
    <3>3. CASE live[files[f].id] # f
      BY <1>1, <2>1, <3>1, <3>3 DEF IInv, TranscriptsKept
    <3> QED BY <3>2, <3>3
  <2>2. live'[files'[n].id] = n
    BY <1>3, <1>4, <1>8
  <2> QED BY <1>5, <2>1, <2>2 DEF TranscriptsKept
<1>13. ASSUME NEW f \in FileNo PROVE Pending(f)' = Pending(f)
  <2>1. \A q \in Proc : job[q].step = "open" => job[q].id \in Id
    BY <1>9, JobFacts
  <2>2. f # n /\ f # 0
    BY <1>5
  <2>3. ASSUME NEW q \in Proc, q # p, job[q].step = "open"
        PROVE  live'[job[q].id] = f <=> live[job[q].id] = f
    BY <1>1, <1>8, <2>1, <2>2, <2>3
  <2> QED BY <1>7, <2>3 DEF Pending
<1>14. PendingFits'
  <2>1. ASSUME NEW f \in FileNo
        PROVE  files'[f].size + Cardinality(Pending(f)') <= Cap + Cardinality(Proc) - 1
    BY <1>4, <1>13 DEF IInv, PendingFits
  <2>2. ASSUME NEW f
        PROVE  0 + Cardinality(Pending(f)') <= Cap + Cardinality(Proc) - 1
    <3>1. Pending(f)' \in SUBSET Proc
      BY DEF Pending
    <3>2. Cardinality(Pending(f)') \in Nat /\ Cardinality(Pending(f)') <= Cardinality(Proc)
      BY <3>1, ProcAssumption, FS_Subset, FS_CardinalityType
    <3>3. Cap \in Nat /\ Cap >= 1 /\ Cardinality(Proc) \in Nat
      BY CapFacts, ProcAssumption, FS_CardinalityType
    <3> QED BY <3>2, <3>3
  <2>3. ASSUME NEW f \in FileNo, files'[f].lines = <<>> PROVE files'[f].size = 0
    BY <1>4, <2>3 DEF IInv, PendingFits
  <2>4. /\ \A f \in FileNo' : files'[f].lines = <<>> => files'[f].size = 0
        /\ \A f \in FileNo' :
             files'[f].size + Cardinality(Pending(f)') <= Cap + Cardinality(Proc) - 1
    BY <1>3, <1>4, <1>5, <2>1, <2>2, <2>3
  <2> QED BY <2>4 DEF PendingFits, Cap
<1>15. \A q \in Proc, f \in FileNo' :
         /\ Heading(q, f)' => (q = p /\ f = n) \/ (q # p /\ f \in FileNo /\ Heading(q, f))
         /\ Knows(q, f)' => q # p /\ f \in FileNo /\ Knows(q, f)
  BY <1>5, <1>7, <1>9, JobFacts DEF Heading, Knows
<1>16. HeaderIsFirst'
  <2>1. ASSUME NEW q \in Proc, NEW f \in FileNo', Heading(q, f)'
        PROVE  /\ \A i \in DOMAIN files'[f].lines : Blind(files'[f].lines[i])
               /\ \A o \in Proc \ {q} :
                    /\ ~ Heading(o, f)'
                    /\ Knows(o, f)' => job'[o].step = "write" /\ job'[o].base = 0
    <3>1. CASE q = p /\ f = n
      <4>1. DOMAIN files'[f].lines = {}
        BY <1>3, <1>4, <3>1
      <4>2. \A o \in Proc \ {q} : ~ Heading(o, f)' /\ ~ Knows(o, f)'
        BY <1>5, <1>15, <3>1
      <4> QED BY <4>1, <4>2
    <3>2. CASE q # p /\ f \in FileNo /\ Heading(q, f)
      <4>1. \A i \in DOMAIN files'[f].lines : Blind(files'[f].lines[i])
        BY <1>4, <3>2 DEF IInv, HeaderIsFirst
      <4>2. ASSUME NEW o \in Proc \ {q}
            PROVE  /\ ~ Heading(o, f)'
                   /\ Knows(o, f)' => job'[o].step = "write" /\ job'[o].base = 0
        <5>1. ~ Heading(o, f) /\ (Knows(o, f) => job[o].step = "write" /\ job[o].base = 0)
          BY <3>2 DEF IInv, HeaderIsFirst
        <5> QED BY <1>5, <1>7, <1>15, <3>2, <5>1
      <4> QED BY <4>1, <4>2
    <3> QED BY <1>15, <2>1, <3>1, <3>2
  <2> QED BY <2>1 DEF HeaderIsFirst
<1>17. NobodyPast'
  BY <1>4, <1>7, <1>15 DEF IInv, NobodyPast
<1>18. AllCloseLast'
  <2>1. ClosesLast(<<>>)
    BY DEF ClosesLast
  <2> QED BY <1>3, <1>4, <1>5, <2>1 DEF IInv, AllCloseLast
<1>19. \A f \in FileNo : WasClosed(f) => WasClosed(f)'
  BY <1>4, <1>5, <1>15 DEF WasClosed
<1>20. DueWereClosed'
  <2>1. ASSUME NEW q \in Proc, job'[q].step = "rename", NEW name \in job'[q].todo
        PROVE  \E f \in FileNo' : /\ files'[f].id = name.id /\ WasClosed(f)'
                                  /\ live'[name.id] # 0 => f <= live'[name.id]
    <3>1. q # p /\ job'[q] = job[q]
      BY <1>7, <2>1
    <3>2. PICK f \in FileNo : /\ files[f].id = name.id /\ WasClosed(f)
                              /\ live[name.id] # 0 => f <= live[name.id]
      BY <2>1, <3>1 DEF IInv, DueWereClosed
    <3>3. name.id \in Id
      BY <1>9, <2>1, <3>1, JobFacts
    <3>4. f < n /\ f \in Nat /\ n \in Nat
      BY <1>2, <1>5 DEF FileNo, n
    <3>5. live'[name.id] # 0 => f <= live'[name.id]
      BY <1>8, <3>2, <3>3, <3>4
    <3> QED BY <1>4, <1>5, <1>19, <3>2, <3>5
  <2> QED BY <2>1 DEF DueWereClosed
<1>21. ArchiveWasClosed'
  <2>1. ASSUME NEW a \in archive
        PROVE  WasClosed(a.file)' \/ \E f \in FileNo' : f < a.file /\ files'[f].id = a.id
    <3>1. a.file \in FileNo
      BY DEF IInv, TypeOK
    <3> QED BY <1>4, <1>5, <1>19, <3>1 DEF IInv, ArchiveWasClosed
  <2> QED BY <1>1, <2>1 DEF ArchiveWasClosed
<1> QED BY <1>10, <1>11, <1>12, <1>14, <1>16, <1>17, <1>18, <1>20, <1>21 DEF IInv

LEMMA RenameKeeps == ASSUME IInv, NEW p \in Proc, Rename(p) PROVE IInv'
<1>1. job[p].step = "rename" /\ UNCHANGED <<files, now, fails>>
  BY DEF Rename
<1>2. PICK name \in job[p].todo :
        IF live[name.id] # 0
        THEN /\ archive' = Besides(name) \cup
                             {[month |-> name.month, id |-> name.id, file |-> live[name.id]]}
             /\ live' = [live EXCEPT ![name.id] = 0]
             /\ Goto(p, IF job[p].todo = {name} THEN Idle
                        ELSE [job[p] EXCEPT !.todo = @ \ {name}])
        ELSE /\ Goto(p, Idle)
             /\ UNCHANGED <<archive, live>>
  BY DEF Rename
<1>3. /\ job \in [Proc -> Job] /\ live \in [Id -> {0} \cup FileNo]
      /\ archive \subseteq [month : Nat, id : Id, file : FileNo]
      /\ now \in Nat /\ fails \in Nat /\ files \in Seq(Transcript)
  BY DEF IInv, TypeOK
<1>4. /\ job[p].todo \in SUBSET [month : Nat, id : Id]
      /\ name.month \in Nat /\ name.id \in Id
  BY <1>1, <1>3, JobFacts
<1>5. CASE live[name.id] = 0
  <2>1. Goto(p, Idle) /\ UNCHANGED <<archive, live>>
    BY <1>2, <1>5
  <2> QED BY <1>1, <1>3, <2>1, IdleStep
<1>6. CASE live[name.id] # 0
  <2> DEFINE f == live[name.id]
             new == [month |-> name.month, id |-> name.id, file |-> f]
  <2>1. /\ archive' = Besides(name) \cup {new}
        /\ live' = [live EXCEPT ![name.id] = 0]
        /\ f \in FileNo
        /\ files[f].id = name.id
    BY <1>2, <1>3, <1>4, <1>6 DEF IInv, LiveIsLatest
  <2>2. PICK j \in Job : /\ job' = [job EXCEPT ![p] = j]
                         /\ j = Idle \/ (j.step = "rename" /\ j.todo \subseteq job[p].todo)
    <3>1. CASE job[p].todo = {name}
      <4>1. Idle \in Job /\ job' = [job EXCEPT ![p] = Idle]
        BY <1>2, <1>6, <3>1 DEF Job, Goto
      <4> QED BY <4>1
    <3>2. CASE job[p].todo # {name}
      <4> DEFINE i == [step |-> "rename", todo |-> job[p].todo \ {name}]
      <4>1. job[p] = [step |-> "rename", todo |-> job[p].todo]
        BY <1>1, <1>3 DEF Job, Idle
      <4>2. job' = [job EXCEPT ![p] = i]
        BY <1>2, <1>6, <3>2, <4>1 DEF Goto
      <4>3. i \in Job /\ i.step = "rename" /\ i.todo \subseteq job[p].todo
        BY <1>4 DEF Job
      <4> QED BY <4>2, <4>3
    <3> QED BY <3>1, <3>2
  <2>3. job'[p] = j /\ j.step \in {"idle", "rename"} /\ \A q \in Proc \ {p} : job'[q] = job[q]
    BY <1>3, <2>2 DEF Idle
  <2>4. live'[name.id] = 0 /\ \A id \in Id \ {name.id} : live'[id] = live[id]
    BY <1>3, <1>4, <2>1
  <2>5. /\ new \in [month : Nat, id : Id, file : FileNo]
        /\ new.id = name.id /\ new.file = f
        /\ Besides(name) \subseteq archive
    BY <1>4, <2>1 DEF Besides
  <2>6. FileNo' = FileNo /\ Job' = Job
    BY <1>1 DEF FileNo, Job
  <2>7. f \in Nat /\ f >= 1 /\ \A h \in FileNo : h \in Nat /\ h # 0
    BY <2>1 DEF FileNo
  <2> HIDE DEF f, new
  <2>8. TypeOK'
    <3>1. live' \in [Id -> {0} \cup FileNo] /\ job' \in [Proc -> Job]
      BY <1>3, <2>1, <2>2
    <3> QED BY <1>1, <1>3, <2>1, <2>5, <2>6, <3>1 DEF IInv, TypeOK
  <2>9. LiveIsLatest'
    <3>1. ASSUME NEW id \in Id, live'[id] # 0 PROVE files[live'[id]].id = id
      BY <2>4, <3>1 DEF IInv, LiveIsLatest
    <3>2. ASSUME NEW a \in archive', live'[a.id] # 0 PROVE a.file < live'[a.id]
      <4>1. a \in archive /\ a.id # name.id /\ a.id \in Id
        BY <1>3, <2>1, <2>4, <2>5, <3>2
      <4> QED BY <2>4, <3>2, <4>1 DEF IInv, LiveIsLatest
    <3> QED BY <1>1, <3>1, <3>2 DEF LiveIsLatest
  <2>10. TranscriptsKept'
    <3>1. ASSUME NEW g \in FileNo
          PROVE  \/ live'[files[g].id] = g
                 \/ \E a \in archive' : a.id = files[g].id /\ (a.file = g \/ a.file > g)
      <4>1. files[g].id \in Id /\ g # 0 /\ g \in Nat
        BY <1>3, <3>1, FileFacts
      <4>2. CASE live[files[g].id] = g /\ files[g].id = name.id
        BY <2>1, <2>5, <4>2 DEF f
      <4>3. CASE live[files[g].id] = g /\ files[g].id # name.id
        BY <2>4, <4>1, <4>3
      <4>4. CASE live[files[g].id] # g
        <5>1. PICK a \in archive : a.id = files[g].id /\ (a.file = g \/ a.file > g)
          BY <3>1, <4>4 DEF IInv, TranscriptsKept
        <5>2. CASE a \in Besides(name)
          BY <2>1, <5>1, <5>2
        <5>3. CASE a \notin Besides(name)
          <6>1. a.id = name.id
            BY <5>1, <5>3 DEF Besides
          <6>2. a.file < f /\ a.file \in Nat
            BY <1>3, <1>6, <2>7, <5>1, <6>1 DEF IInv, LiveIsLatest, f
          <6>3. new.id = files[g].id /\ new.file > g
            BY <2>5, <2>7, <4>1, <5>1, <6>1, <6>2
          <6> QED BY <2>1, <6>3
        <5> QED BY <5>2, <5>3
      <4> QED BY <4>2, <4>3, <4>4
    <3> QED BY <1>1, <2>6, <3>1 DEF TranscriptsKept
  <2>11. PendingFits'
    <3>1. ASSUME NEW g \in FileNo
          PROVE  files[g].size + Cardinality(Pending(g)') <= Cap + Cardinality(Proc) - 1
      <4>1. \A q \in Proc : job[q].step = "open" => job[q].id \in Id
        BY <1>3, JobFacts
      <4>2. Pending(g)' \in SUBSET Pending(g)
        <5>1. ASSUME NEW q \in Proc, job[q].step = "open", live'[job[q].id] = g
              PROVE  live[job[q].id] = g
          BY <2>4, <2>7, <4>1, <5>1
        <5> QED BY <1>1, <2>3, <5>1 DEF Pending
      <4>3. Cardinality(Pending(g)') \in Nat /\ Cardinality(Pending(g)') <= Cardinality(Pending(g))
        BY <4>2, PendingIsFinite, FS_Subset, FS_CardinalityType
      <4>4. files[g].size + Cardinality(Pending(g)) <= Cap + Cardinality(Proc) - 1
        BY DEF IInv, PendingFits
      <4>5. files[g].size \in Nat /\ Cardinality(Pending(g)) \in Nat /\ Cap \in Nat
            /\ Cardinality(Proc) \in Nat
        BY <1>3, FileFacts, PendingIsFinite, CapFacts
      <4> QED BY <4>3, <4>4, <4>5
    <3> QED BY <1>1, <2>6, <3>1 DEF IInv, PendingFits, Cap
  <2>12. \A q \in Proc, g \in FileNo :
           /\ Heading(q, g)' => Heading(q, g) /\ q # p
           /\ Knows(q, g)' => Knows(q, g) /\ q # p
    BY <2>3 DEF Heading, Knows
  <2>13. HeaderIsFirst'
    <3>1. ASSUME NEW q \in Proc, NEW g \in FileNo, Heading(q, g)', NEW o \in Proc \ {q}
          PROVE  /\ ~ Heading(o, g)'
                 /\ Knows(o, g)' => job'[o].step = "write" /\ job'[o].base = 0
      BY <2>3, <2>12, <3>1 DEF IInv, HeaderIsFirst
    <3> QED BY <1>1, <2>6, <2>12, <3>1 DEF IInv, HeaderIsFirst
  <2>14. NobodyPast' /\ AllCloseLast'
    BY <1>1, <2>3, <2>6, <2>12 DEF IInv, NobodyPast, AllCloseLast
  <2>15. \A g \in FileNo : WasClosed(g) => WasClosed(g)'
    BY <1>1, <2>12 DEF WasClosed
  <2>16. DueWereClosed'
    <3>1. ASSUME NEW q \in Proc, job'[q].step = "rename", NEW due \in job'[q].todo
          PROVE  \E g \in FileNo : /\ files[g].id = due.id /\ WasClosed(g)'
                                   /\ live'[due.id] # 0 => g <= live'[due.id]
      <4>1. job[q].step = "rename" /\ due \in job[q].todo
        BY <1>1, <2>2, <2>3, <3>1 DEF Idle
      <4>2. due.id \in Id
        BY <1>3, <4>1, JobFacts
      <4>3. PICK g \in FileNo : /\ files[g].id = due.id /\ WasClosed(g)
                                /\ live[due.id] # 0 => g <= live[due.id]
        BY <4>1 DEF IInv, DueWereClosed
      <4> QED BY <2>4, <2>15, <4>2, <4>3
    <3> QED BY <1>1, <2>6, <3>1 DEF DueWereClosed
  <2>17. ArchiveWasClosed'
    <3>1. ASSUME NEW a \in archive'
          PROVE  WasClosed(a.file)' \/ \E g \in FileNo : g < a.file /\ files[g].id = a.id
      <4>1. CASE a \in archive
        BY <1>3, <2>15, <4>1 DEF IInv, ArchiveWasClosed
      <4>2. CASE a = new
        <5>1. PICK g \in FileNo : files[g].id = name.id /\ WasClosed(g) /\ g <= f
          BY <1>1, <1>6 DEF IInv, DueWereClosed, f
        <5>2. g = f \/ g < f
          BY <2>7, <5>1
        <5> QED BY <2>5, <2>15, <4>2, <5>1, <5>2
      <4> QED BY <2>1, <2>5, <4>1, <4>2
    <3> QED BY <1>1, <2>6, <3>1 DEF ArchiveWasClosed
  <2> QED BY <2>8, <2>9, <2>10, <2>11, <2>13, <2>14, <2>16, <2>17 DEF IInv
<1> QED BY <1>5, <1>6

-----------------------------------------------------------------------------
LEMMA NextIInv == ASSUME IInv, [Next]_vars PROVE IInv'
<1>1. CASE Tick
  BY <1>1, TickKeeps
<1>2. ASSUME NEW p \in Proc, Step(p) PROVE IInv'
  BY <1>2, CreateKeeps, WriteHeaderKeeps, HeaderFailsKeeps, LoadKeeps, MeasureKeeps,
     OpenKeeps, WriteKeeps, WriteFailsKeeps, ListKeeps, RenameKeeps DEF Step
<1>3. CASE UNCHANGED vars
  BY <1>3 DEF vars, IInv, TypeOK, LiveIsLatest, TranscriptsKept, PendingFits, HeaderIsFirst,
       NobodyPast, AllCloseLast, DueWereClosed, ArchiveWasClosed, WasClosed, Pending,
       Heading, Knows, FileNo, Job, Cap
<1> QED BY <1>1, <1>2, <1>3 DEF Next

LEMMA Invariant == Spec => []IInv
BY InitIInv, NextIInv, PTL DEF Spec

\* Type correctness, for any number of processes, sessions and failures.
THEOREM TypeCorrect == Spec => []TypeOK
<1>1. IInv => TypeOK
  BY DEF IInv
<1> QED BY <1>1, Invariant, PTL

\* The cap is passed by one line per other process at most, whatever the cap and
\* however many processes, retries and rotations there are.
THEOREM OvershootBounded == Spec => []CapOvershoot
<1>1. ASSUME IInv PROVE CapOvershoot
  <2>1. ASSUME NEW f \in FileNo
        PROVE  files[f].size <= Cap + Cardinality(Proc) - 1
    <3>1. /\ files[f].size + Cardinality(Pending(f)) <= Cap + Cardinality(Proc) - 1
          /\ files[f].size \in Nat /\ Cardinality(Pending(f)) \in Nat
          /\ Cap \in Nat /\ Cardinality(Proc) \in Nat
      BY <1>1, FileFacts, PendingIsFinite, CapFacts DEF IInv, TypeOK, PendingFits
    <3> QED BY <3>1
  <2> QED BY <2>1 DEF CapOvershoot, Cap
<1> QED BY <1>1, Invariant, PTL

\* What follows a closing line was written by someone who had read the file before
\* that line was in it.
THEOREM CloseHolds == Spec => []ClosedIsFinal
<1>1. ASSUME IInv PROVE ClosedIsFinal
  BY <1>1 DEF IInv, AllCloseLast, ClosesLast, Closing, ClosedIsFinal
<1> QED BY <1>1, Invariant, PTL

\* A rotation archives what was closed, or what took the id of what was closed.
THEOREM OnlyClosedArchived == Spec => []ArchivedWasClosed
<1>1. ASSUME IInv PROVE ArchivedWasClosed
  BY <1>1 DEF IInv, ArchiveWasClosed, WasClosed, SomeClose, Closing, ArchivedWasClosed
<1> QED BY <1>1, Invariant, PTL

\* No transcript is lost but to a later one of its id that was archived.
THEOREM NoneLost == Spec => []TranscriptsKept
<1>1. IInv => TranscriptsKept
  BY DEF IInv
<1> QED BY <1>1, Invariant, PTL
-----------------------------------------------------------------------------
(* Recursive definitions.                                                  *)

LEMMA Induction ==
  ASSUME NEW S \in SUBSET Nat, 0 \in S, \A n \in S : n + 1 \in S
  PROVE  S = Nat
<1> SUFFICES ASSUME Nat \ S # {} PROVE FALSE
  OBVIOUS
<1>1. PICK p \in Nat \ S : \A q \in Nat \ S : ~ (<<q, p>> \in OpToRel(<, Nat))
  BY NatLessThanWellFounded, WFMin
<1>2. p # 0 /\ p \in Nat
  BY <1>1
<1>3. p - 1 \in Nat /\ p - 1 < p /\ (p - 1) + 1 = p
  BY <1>2
<1>4. p - 1 \in S
  BY <1>1, <1>3 DEF OpToRel
<1> QED BY <1>1, <1>3, <1>4

\* g[n] is what F makes of the first n numbers, from x0 on.
Folding(g, X, F, x0, N) ==
  g \in [0 .. N -> X] /\ g[0] = x0 /\ \A n \in 1 .. N : g[n] = F[<<n, g[n - 1]>>]

\* What a recursive definition asks for exists.
LEMMA FoldingExists ==
  ASSUME NEW X, NEW F \in [Nat \X X -> X], NEW x0 \in X, NEW N \in Nat
  PROVE  \E g : Folding(g, X, F, x0, N)
<1> DEFINE Good(k) == \E g : Folding(g, X, F, x0, k)
           S == {k \in Nat : Good(k)}
<1>1. Good(0)
  <2> DEFINE g == [n \in 0 .. 0 |-> x0]
  <2>1. Folding(g, X, F, x0, 0)
    BY DEF Folding
  <2> HIDE DEF g
  <2> QED BY <2>1
<1>2. ASSUME NEW k \in Nat, Good(k) PROVE Good(k + 1)
  <2>1. PICK g : Folding(g, X, F, x0, k)
    BY <1>2
  <2> DEFINE h == [n \in 0 .. k + 1 |-> IF n = k + 1 THEN F[<<k + 1, g[k]>>] ELSE g[n]]
  <2>2. h \in [0 .. k + 1 -> X]
    <3>1. k \in 0 .. k /\ \A n \in 0 .. k + 1 : n # k + 1 => n \in 0 .. k
      OBVIOUS
    <3>2. g[k] \in X /\ <<k + 1, g[k]>> \in Nat \X X
      BY <2>1, <3>1 DEF Folding
    <3> QED BY <2>1, <3>1, <3>2 DEF Folding
  <2>3. h[0] = x0
    BY <2>1 DEF Folding
  <2>4. ASSUME NEW n \in 1 .. k + 1 PROVE h[n] = F[<<n, h[n - 1]>>]
    <3>1. n \in 0 .. k + 1 /\ n - 1 \in 0 .. k + 1 /\ n - 1 # k + 1
      OBVIOUS
    <3>2. h[n - 1] = g[n - 1]
      BY <3>1
    <3>3. CASE n = k + 1
      BY <3>1, <3>2, <3>3
    <3>4. CASE n # k + 1
      <4>1. n \in 1 .. k /\ h[n] = g[n]
        BY <3>1, <3>4
      <4> QED BY <2>1, <3>2, <4>1 DEF Folding
    <3> QED BY <3>3, <3>4
  <2> HIDE DEF h
  <2>5. Folding(h, X, F, x0, k + 1)
    BY <2>2, <2>3, <2>4 DEF Folding
  <2> QED BY <2>5
<1> HIDE DEF Good
<1>3. S = Nat
  <2>1. S \in SUBSET Nat /\ 0 \in S /\ \A n \in S : n + 1 \in S
    BY <1>1, <1>2
  <2> HIDE DEF S
  <2> QED BY <2>1, Induction
<1>4. Good(N)
  BY <1>3
<1> QED BY <1>4 DEF Good

-----------------------------------------------------------------------------
(* The snapshot of a list of events.                                       *)

SessionValue ==
  [status : SessionStatus, turnCount : 0 .. MaxCount, totalUsage : SessionUsage,
   closedAt : Nat \cup {NotClosed}]

LEMMA AddType ==
  ASSUME NEW u \in SessionUsage, NEW v \in SessionUsage
  PROVE  Add(u, v) \in SessionUsage
<1>1. \A a, b \in 0 .. MaxCount : SaturatingAdd(a, b) \in 0 .. MaxCount
  BY CountAssumption DEF SaturatingAdd
<1>2. \A a, b \in Currency \cup {NoCurrency} :
        MatchingCurrency(a, b) \in Currency \cup {NoCurrency}
  BY DEF MatchingCurrency
<1> QED BY <1>1, <1>2 DEF Add, SessionUsage

LEMMA ApplyType ==
  ASSUME NEW session \in SessionValue, NEW event \in SessionEvent
  PROVE  Apply(session, event) \in SessionValue
<1>1. CASE event.type = "UserMessage"
  <2>1. SaturatingAdd(session.turnCount, 1) \in 0 .. MaxCount
    BY CountAssumption DEF SaturatingAdd, SessionValue
  <2>2. Apply(session, event) =
          [session EXCEPT !.turnCount = SaturatingAdd(session.turnCount, 1)]
    BY <1>1 DEF Apply
  <2> QED BY <2>1, <2>2 DEF SessionValue
<1>2. CASE event.type = "Usage"
  <2>1. Add(session.totalUsage, event.usage) \in SessionUsage
    BY AddType DEF SessionValue, SessionEvent
  <2>2. Apply(session, event) =
          [session EXCEPT !.totalUsage = Add(session.totalUsage, event.usage)]
    BY <1>2 DEF Apply
  <2> QED BY <2>1, <2>2 DEF SessionValue
<1>3. CASE event.type = "StatusChanged"
  BY <1>3 DEF Apply, SessionValue, SessionEvent
<1>4. CASE event.type \notin {"UserMessage", "Usage", "StatusChanged"}
  BY <1>4 DEF Apply
<1> QED BY <1>1, <1>2, <1>3, <1>4

\* g[n] is the snapshot of the first n events.
Snapshots(g, events) ==
  /\ g[0] = FromInit
  /\ \A n \in 0 .. Len(events) : g[n] \in SessionValue
  /\ \A n \in 1 .. Len(events) : g[n] = Apply(g[n - 1], events[n])
  /\ g[Len(events)] = Snapshot(events)

LEMMA SnapshotsExist ==
  ASSUME NEW events \in Seq(SessionEvent)
  PROVE  \E g : Snapshots(g, events)
<1> DEFINE N == Len(events)
           X == SessionValue
           x0 == FromInit
           F == [p \in Nat \X SessionValue |->
                   IF p[1] \in 1 .. N THEN Apply(p[2], events[p[1]]) ELSE p[2]]
           P(h) == h = [n \in 0 .. N |->
                      IF n = 0 THEN FromInit ELSE Apply(h[n - 1], events[n])]
<1>1. N \in Nat /\ \A n \in 1 .. N : events[n] \in SessionEvent
  BY SeqFacts
<1>2. x0 \in X
  BY CountAssumption
     DEF FromInit, SessionValue, SessionStatus, SessionUsage, NoUsage
<1>3. F \in [Nat \X X -> X]
  BY <1>1, ApplyType
<1>4. \E g : Folding(g, X, F, x0, N)
  <2> HIDE DEF F, X, x0, N
  <2> QED BY <1>1, <1>2, <1>3, FoldingExists
<1>5. ASSUME NEW g, Folding(g, X, F, x0, N) PROVE P(g)
  <2>1. g \in [0 .. N -> X] /\ g[0] = x0 /\ \A n \in 1 .. N : g[n] = F[<<n, g[n - 1]>>]
    BY <1>5 DEF Folding
  <2>2. ASSUME NEW n \in 1 .. N PROVE g[n] = Apply(g[n - 1], events[n])
    <3>1. n \in Nat /\ n - 1 \in 0 .. N
      BY <1>1
    <3>2. g[n - 1] \in X
      BY <2>1, <3>1
    <3> HIDE DEF X
    <3>3. <<n, g[n - 1]>> \in Nat \X X
      BY <3>1, <3>2
    <3>4. F[<<n, g[n - 1]>>] = Apply(g[n - 1], events[n])
      BY <3>3 DEF X
    <3> QED BY <2>1, <3>4
  <2>3. \A n \in 0 .. N : n # 0 => n \in 1 .. N
    BY <1>1
  <2> QED BY <2>1, <2>2, <2>3
<1>6. \E g : P(g)
  <2> HIDE DEF P
  <2> QED BY <1>4, <1>5
<1> DEFINE c == CHOOSE h : P(h)
<1>7. Snapshot(events) = c[N]
  BY DEF Snapshot
<1>8. P(c)
  <2> HIDE DEF P
  <2> QED BY <1>6
<1> HIDE DEF c
<1>9. c[0] = FromInit /\ \A n \in 1 .. N : c[n] = Apply(c[n - 1], events[n])
  <2>1. 0 \in 0 .. N /\ \A n \in 1 .. N : n \in 0 .. N /\ n # 0
    BY <1>1
  <2> QED BY <1>8, <2>1
<1>10. \A n \in 0 .. N : c[n] \in SessionValue
  <2> DEFINE S == {n \in Nat : n <= N => c[n] \in SessionValue}
  <2>1. 0 \in S
    BY <1>2, <1>9
  <2>2. ASSUME NEW n \in S PROVE n + 1 \in S
    <3> SUFFICES ASSUME n + 1 <= N PROVE c[n + 1] \in SessionValue
      OBVIOUS
    <3>1. n + 1 \in 1 .. N /\ (n + 1) - 1 = n /\ n <= N /\ n \in Nat
      BY <1>1
    <3>2. c[n] \in SessionValue /\ events[n + 1] \in SessionEvent
      BY <1>1, <3>1
    <3>3. c[n + 1] = Apply(c[n], events[n + 1])
      BY <1>9, <3>1
    <3> QED BY <3>2, <3>3, ApplyType
  <2>3. S = Nat
    <3>1. S \in SUBSET Nat /\ 0 \in S /\ \A n \in S : n + 1 \in S
      BY <2>1, <2>2
    <3> HIDE DEF S
    <3> QED BY <3>1, Induction
  <2> QED BY <1>1, <2>3
<1>11. Snapshots(c, events)
  BY <1>7, <1>9, <1>10 DEF Snapshots
<1> QED BY <1>11

Charge(events, n) == IF n \in Charges(events) THEN events[n].usage.tokens ELSE 0

\* g[n] is what the first n events charge.
Sums(g, events) ==
  /\ g[0] = 0
  /\ \A n \in 0 .. Len(events) : g[n] \in Nat
  /\ \A n \in 1 .. Len(events) : g[n] = g[n - 1] + Charge(events, n)
  /\ g[Len(events)] = TokensCharged(events)

LEMMA ChargeType ==
  ASSUME NEW events \in Seq(SessionEvent), NEW n
  PROVE  Charge(events, n) \in Nat
<1>1. \A i \in Charges(events) : events[i] \in SessionEvent
  BY SeqFacts DEF Charges
<1> QED BY <1>1, CountAssumption DEF Charge, SessionEvent, SessionUsage

LEMMA SumsExist ==
  ASSUME NEW events \in Seq(SessionEvent)
  PROVE  \E g : Sums(g, events)
<1> DEFINE N == Len(events)
           F == [p \in Nat \X Nat |-> p[2] + Charge(events, p[1])]
           P(h) == h = [n \in 0 .. N |->
                      IF n = 0 THEN 0
                      ELSE h[n - 1]
                             + (IF n \in Charges(events) THEN events[n].usage.tokens ELSE 0)]
<1>1. N \in Nat /\ \A n : Charge(events, n) \in Nat
  BY SeqFacts, ChargeType
<1>2. F \in [Nat \X Nat -> Nat]
  BY <1>1
<1>3. \E g : Folding(g, Nat, F, 0, N)
  <2> HIDE DEF F, N
  <2> QED BY <1>1, <1>2, FoldingExists
<1>4. ASSUME NEW g, Folding(g, Nat, F, 0, N) PROVE P(g)
  <2>1. g \in [0 .. N -> Nat] /\ g[0] = 0 /\ \A n \in 1 .. N : g[n] = F[<<n, g[n - 1]>>]
    BY <1>4 DEF Folding
  <2>2. ASSUME NEW n \in 1 .. N PROVE g[n] = g[n - 1] + Charge(events, n)
    <3>1. n \in Nat /\ n - 1 \in 0 .. N
      BY <1>1
    <3>2. <<n, g[n - 1]>> \in Nat \X Nat
      BY <2>1, <3>1
    <3> QED BY <2>1, <3>2
  <2>3. \A n \in 0 .. N : n # 0 => n \in 1 .. N
    BY <1>1
  <2> QED BY <2>1, <2>2, <2>3 DEF Charge
<1>5. \E g : P(g)
  <2> HIDE DEF P
  <2> QED BY <1>3, <1>4
<1> DEFINE c == CHOOSE h : P(h)
<1>6. TokensCharged(events) = c[N]
  BY DEF TokensCharged
<1>7. P(c)
  <2> HIDE DEF P
  <2> QED BY <1>5
<1> HIDE DEF c
<1>8. c[0] = 0 /\ \A n \in 1 .. N : c[n] = c[n - 1] + Charge(events, n)
  <2>1. 0 \in 0 .. N /\ \A n \in 1 .. N : n \in 0 .. N /\ n # 0
    BY <1>1
  <2> QED BY <1>7, <2>1 DEF Charge
<1>9. \A n \in 0 .. N : c[n] \in Nat
  <2> DEFINE S == {n \in Nat : n <= N => c[n] \in Nat}
  <2>1. 0 \in S
    BY <1>8
  <2>2. ASSUME NEW n \in S PROVE n + 1 \in S
    <3> SUFFICES ASSUME n + 1 <= N PROVE c[n + 1] \in Nat
      OBVIOUS
    <3>1. n + 1 \in 1 .. N /\ (n + 1) - 1 = n /\ n <= N /\ n \in Nat
      BY <1>1
    <3>2. c[n] \in Nat /\ c[n + 1] = c[n] + Charge(events, n + 1)
      BY <1>8, <3>1
    <3> QED BY <1>1, <3>2
  <2>3. S = Nat
    <3>1. S \in SUBSET Nat /\ 0 \in S /\ \A n \in S : n + 1 \in S
      BY <2>1, <2>2
    <3> HIDE DEF S
    <3> QED BY <3>1, Induction
  <2> QED BY <1>1, <2>3
<1>10. Sums(c, events)
  BY <1>6, <1>8, <1>9 DEF Sums
<1> QED BY <1>10


\* SnapshotAgrees, of the first n events: `session` is their snapshot, `total` the
\* sum that they charge.
StatusSoFar(events, n, session) ==
  /\ (\A i \in 1 .. n : events[i].type # "StatusChanged") => session.status = "Active"
  /\ \A i \in 1 .. n :
       /\ events[i].type = "StatusChanged"
       /\ \A j \in 1 .. n : events[j].type = "StatusChanged" => j <= i
       => session.status = events[i].to

TurnsSoFar(events, n, session) ==
  session.turnCount = Saturated(Cardinality(Turns(events) \cap 1 .. n))

UsageSoFar(events, n, session, total) ==
  /\ session.totalUsage.tokens = Saturated(total)
  /\ (\A i \in 1 .. n : events[i].type # "Usage") => session.totalUsage.currency = NoCurrency
  /\ \A c :
       (\A i \in 1 .. n : events[i].type = "Usage" => events[i].usage.currency = c)
         => /\ session.totalUsage.currency \in {c, NoCurrency}
            /\ (\E i \in 1 .. n : events[i].type = "Usage")
                 => session.totalUsage.currency = c

CloseSoFar(events, n, session) ==
  /\ (\A i \in 1 .. n : ~ Closes(events[i])) <=> session.closedAt = NotClosed
  /\ \A i \in 1 .. n :
       /\ Closes(events[i])
       /\ \A j \in 1 .. n : Closes(events[j]) => j <= i
       => session.closedAt = events[i].at

LEMMA NextStatus ==
  ASSUME NEW events \in Seq(SessionEvent), NEW session \in SessionValue,
         NEW n \in Nat, n + 1 <= Len(events), StatusSoFar(events, n, session)
  PROVE  StatusSoFar(events, n + 1, Apply(session, events[n + 1]))
<1> DEFINE e == events[n + 1]
           after == Apply(session, e)
<1>1. \A i \in 1 .. n + 1 : i \in 1 .. n \/ i = n + 1
  OBVIOUS
<1>2. 1 .. n \subseteq 1 .. n + 1 /\ n + 1 \in 1 .. n + 1 /\ \A i \in 1 .. n : ~ (n + 1 <= i)
  OBVIOUS
<1>3. CASE e.type = "StatusChanged"
  <2>1. after.status = e.to
    BY <1>3 DEF Apply, SessionValue
  <2> HIDE DEF after
  <2> QED BY <1>1, <1>2, <1>3, <2>1 DEF StatusSoFar, after
<1>4. CASE e.type # "StatusChanged"
  <2>1. after.status = session.status
    BY <1>4 DEF Apply, SessionValue
  <2> HIDE DEF after
  <2> QED BY <1>1, <1>2, <1>4, <2>1 DEF StatusSoFar, after
<1> QED BY <1>3, <1>4

LEMMA NextClose ==
  ASSUME NEW events \in Seq(SessionEvent), NEW session \in SessionValue,
         NEW n \in Nat, n + 1 <= Len(events), CloseSoFar(events, n, session)
  PROVE  CloseSoFar(events, n + 1, Apply(session, events[n + 1]))
<1> DEFINE e == events[n + 1]
           after == Apply(session, e)
<1>1. \A i \in 1 .. n + 1 : i \in 1 .. n \/ i = n + 1
  OBVIOUS
<1>2. 1 .. n \subseteq 1 .. n + 1 /\ n + 1 \in 1 .. n + 1 /\ \A i \in 1 .. n : ~ (n + 1 <= i)
  OBVIOUS
<1>3. CASE Closes(e)
  <2>1. after.closedAt = e.at
    BY <1>3 DEF Apply, SessionValue, Closes
  <2>2. e.at # NotClosed
    <3>1. n + 1 \in DOMAIN events /\ e \in SessionEvent
      BY SeqFacts
    <3> QED BY <3>1 DEF SessionEvent, NotClosed
  <2> HIDE DEF after
  <2> QED BY <1>1, <1>2, <1>3, <2>1, <2>2 DEF CloseSoFar, after
<1>4. CASE ~ Closes(e)
  <2>1. after.closedAt = session.closedAt
    BY <1>4 DEF Apply, SessionValue, Closes
  <2> HIDE DEF after
  <2> QED BY <1>1, <1>2, <1>4, <2>1 DEF CloseSoFar, after
<1> QED BY <1>3, <1>4

LEMMA NextTurns ==
  ASSUME NEW events \in Seq(SessionEvent), NEW session \in SessionValue,
         NEW n \in Nat, n + 1 <= Len(events), TurnsSoFar(events, n, session)
  PROVE  TurnsSoFar(events, n + 1, Apply(session, events[n + 1]))
<1> DEFINE e == events[n + 1]
           T == Turns(events) \cap 1 .. n
           U == Turns(events) \cap 1 .. n + 1
<1>0. n + 1 \in DOMAIN events
  BY SeqFacts
<1>1. IsFiniteSet(T) /\ Cardinality(T) \in Nat
  <2>1. IsFiniteSet(1 .. n) /\ T \in SUBSET (1 .. n)
    BY FS_Interval
  <2> QED BY <2>1, FS_Subset, FS_CardinalityType
<1>2. CASE e.type = "UserMessage"
  <2>1. U = T \cup {n + 1} /\ n + 1 \notin T
    BY <1>0, <1>2 DEF Turns
  <2>2. Cardinality(U) = Cardinality(T) + 1
    BY <1>1, <2>1, FS_AddElement
  <2>3. Apply(session, e).turnCount = SaturatingAdd(session.turnCount, 1)
    BY <1>2 DEF Apply, SessionValue
  <2> HIDE DEF T, U
  <2>4. SaturatingAdd(Saturated(Cardinality(T)), 1) = Saturated(Cardinality(U))
    BY <1>1, <2>2, CountAssumption DEF SaturatingAdd, Saturated
  <2>5. session.turnCount = Saturated(Cardinality(T))
    BY DEF TurnsSoFar, T
  <2>6. Apply(session, e).turnCount = Saturated(Cardinality(U))
    BY <2>3, <2>4, <2>5
  <2> QED BY <2>6 DEF TurnsSoFar, U
<1>3. CASE e.type # "UserMessage"
  <2>1. U = T
    BY <1>0, <1>3 DEF Turns
  <2>2. Apply(session, e).turnCount = session.turnCount
    BY <1>3 DEF Apply, SessionValue
  <2> QED BY <2>1, <2>2 DEF TurnsSoFar
<1> QED BY <1>2, <1>3

LEMMA NextUsage ==
  ASSUME NEW events \in Seq(SessionEvent), NEW session \in SessionValue,
         NEW n \in Nat, n + 1 <= Len(events),
         NEW total \in Nat, UsageSoFar(events, n, session, total)
  PROVE  UsageSoFar(events, n + 1, Apply(session, events[n + 1]), total + Charge(events, n + 1))
<1> DEFINE e == events[n + 1]
           after == Apply(session, e).totalUsage
<1>0. n + 1 \in DOMAIN events /\ e \in SessionEvent
  BY SeqFacts
<1>1. \A i \in 1 .. n + 1 : i \in 1 .. n \/ i = n + 1
  OBVIOUS
<1>2. 1 .. n \subseteq 1 .. n + 1 /\ n + 1 \in 1 .. n + 1
  OBVIOUS
<1>3. CASE e.type = "Usage"
  <2>1. after = Add(session.totalUsage, e.usage)
    BY <1>3 DEF Apply, SessionValue
  <2>2. Charge(events, n + 1) = e.usage.tokens /\ e.usage.tokens \in Nat
    BY <1>0, <1>3, CountAssumption DEF Charge, Charges, SessionEvent, SessionUsage
  <2>3. /\ after.tokens = SaturatingAdd(session.totalUsage.tokens, e.usage.tokens)
        /\ after.currency = MatchingCurrency(session.totalUsage.currency, e.usage.currency)
    BY <2>1 DEF Add
  <2>4. after.tokens = Saturated(total + Charge(events, n + 1))
    <3>1. session.totalUsage.tokens = Saturated(total)
      BY DEF UsageSoFar
    <3>2. \A u \in Nat : SaturatingAdd(Saturated(total), u) = Saturated(total + u)
      BY CountAssumption DEF SaturatingAdd, Saturated
    <3> QED BY <2>2, <2>3, <3>1, <3>2
  <2>5. ASSUME NEW c,
               \A i \in 1 .. n + 1 : events[i].type = "Usage" => events[i].usage.currency = c
        PROVE  after.currency = c
    <3>1. e.usage.currency = c /\ session.totalUsage.currency \in {c, NoCurrency}
      BY <1>2, <1>3, <2>5 DEF UsageSoFar
    <3> QED BY <2>3, <3>1 DEF MatchingCurrency
  <2> HIDE DEF after
  <2>6. ~ (\A i \in 1 .. n + 1 : events[i].type # "Usage")
    BY <1>2, <1>3
  <2> QED BY <2>4, <2>5, <2>6 DEF UsageSoFar, after
<1>4. CASE e.type # "Usage"
  <2>1. after = session.totalUsage
    BY <1>4 DEF Apply, SessionValue
  <2>2. total + Charge(events, n + 1) = total
    BY <1>4 DEF Charge, Charges
  <2>3. /\ \A c : (\A i \in 1 .. n + 1 : events[i].type = "Usage" => events[i].usage.currency = c)
               => (\A i \in 1 .. n : events[i].type = "Usage" => events[i].usage.currency = c)
        /\ (\A i \in 1 .. n + 1 : events[i].type # "Usage")
               => (\A i \in 1 .. n : events[i].type # "Usage")
        /\ (\E i \in 1 .. n + 1 : events[i].type = "Usage")
               => (\E i \in 1 .. n : events[i].type = "Usage")
    BY <1>1, <1>2, <1>4
  <2> HIDE DEF after
  <2> QED BY <2>1, <2>2, <2>3 DEF UsageSoFar, after
<1> QED BY <1>3, <1>4

LEMMA SnapshotFacts ==
  ASSUME NEW events \in Seq(SessionEvent)
  PROVE  /\ StatusSoFar(events, Len(events), Snapshot(events))
         /\ TurnsSoFar(events, Len(events), Snapshot(events))
         /\ UsageSoFar(events, Len(events), Snapshot(events), TokensCharged(events))
         /\ CloseSoFar(events, Len(events), Snapshot(events))
<1>1. PICK g : Snapshots(g, events)
  BY SnapshotsExist
<1>2. PICK t : Sums(t, events)
  BY SumsExist
<1>3. Len(events) \in Nat
  BY SeqFacts
<1> DEFINE Right(n) == /\ StatusSoFar(events, n, g[n])
                       /\ TurnsSoFar(events, n, g[n])
                       /\ UsageSoFar(events, n, g[n], t[n])
                       /\ CloseSoFar(events, n, g[n])
           S == {n \in Nat : n <= Len(events) => Right(n)}
<1>4. Right(0)
  <2>1. 1 .. 0 = {} /\ g[0] = FromInit /\ t[0] = 0
    BY <1>1, <1>2 DEF Snapshots, Sums
  <2>2. Cardinality({}) = 0 /\ Saturated(0) = 0
    BY FS_EmptySet, CountAssumption DEF Saturated
  <2>3. StatusSoFar(events, 0, FromInit)
    BY <2>1 DEF StatusSoFar, FromInit
  <2>4. TurnsSoFar(events, 0, FromInit)
    BY <2>1, <2>2 DEF TurnsSoFar, FromInit
  <2>5. UsageSoFar(events, 0, FromInit, 0)
    BY <2>1, <2>2 DEF UsageSoFar, FromInit, NoUsage
  <2>6. CloseSoFar(events, 0, FromInit)
    BY <2>1 DEF CloseSoFar, FromInit
  <2> QED BY <2>1, <2>3, <2>4, <2>5, <2>6
<1>5. ASSUME NEW n \in Nat, n + 1 <= Len(events), Right(n) PROVE Right(n + 1)
  <2>1. /\ n \in 0 .. Len(events) /\ n + 1 \in 1 .. Len(events) /\ (n + 1) - 1 = n
    BY <1>3, <1>5
  <2>2. g[n] \in SessionValue /\ g[n + 1] = Apply(g[n], events[n + 1])
    BY <1>1, <2>1 DEF Snapshots
  <2>3. t[n] \in Nat /\ t[n + 1] = t[n] + Charge(events, n + 1)
    BY <1>2, <2>1 DEF Sums
  <2> QED BY <1>5, <2>2, <2>3, NextStatus, NextTurns, NextUsage, NextClose
<1>6. S = Nat
  <2>1. 0 \in S
    BY <1>4
  <2> HIDE DEF Right
  <2>2. \A n \in Nat : n + 1 <= Len(events) => n <= Len(events)
    BY <1>3
  <2>3. S \in SUBSET Nat /\ 0 \in S /\ \A n \in S : n + 1 \in S
    BY <1>5, <2>1, <2>2
  <2> HIDE DEF S
  <2> QED BY <2>3, Induction
<1>7. Right(Len(events))
  BY <1>3, <1>6
<1> QED BY <1>1, <1>2, <1>7 DEF Snapshots, Sums

-----------------------------------------------------------------------------
\* The status that read_meta finds is that of the events that load folds.
LEMMA ReadersAgreeOnStatus ==
  ASSUME NEW s \in Seq(Text), s # <<>>, s[1] = Header,
         \A i \in 2 .. Len(s) : s[i] \in Line,
         NEW events, events = [i \in 1 .. Len(s) - 1 |-> s[i + 1].event],
         NEW session, StatusSoFar(events, Len(s) - 1, session)
  PROVE  session.status = StatusOf(s)
<1> DEFINE named == {i \in DOMAIN s : s[i] \in Line /\ s[i].event.type = "StatusChanged"}
<1>1. Len(s) \in Nat /\ Len(s) >= 1 /\ DOMAIN s = 1 .. Len(s) /\ Header \notin Line
  BY SeqFacts, TextAssumption
<1>2. \A i \in 1 .. Len(s) - 1 : i + 1 \in 2 .. Len(s) /\ events[i] = s[i + 1].event
  BY <1>1
<1>3. \A i \in 1 .. Len(s) - 1 : i + 1 \in named <=> events[i].type = "StatusChanged"
  BY <1>1, <1>2
<1>4. \A i \in named : i - 1 \in 1 .. Len(s) - 1 /\ (i - 1) + 1 = i
  BY <1>1
<1>5. CASE named = {}
  BY <1>3, <1>5 DEF StatusOf, StatusSoFar
<1>6. CASE named # {}
  <2>1. named \in SUBSET (1 .. Len(s))
    BY <1>1
  <2>2. Greatest(named) \in named /\ \A j \in named : j <= Greatest(named)
    <3> HIDE DEF named
    <3> QED BY <1>1, <1>6, <2>1, GreatestExists
  <2> DEFINE k == Greatest(named)
  <2>3. StatusOf(s) = s[k].event.to
    BY <1>6 DEF StatusOf
  <2> HIDE DEF k, named
  <2>4. k - 1 \in 1 .. Len(s) - 1 /\ (k - 1) + 1 = k /\ k \in named
    BY <1>4, <2>2 DEF k
  <2>5. events[k - 1].type = "StatusChanged" /\ events[k - 1].to = s[k].event.to
    BY <1>2, <1>3, <2>4
  <2>6. \A j \in 1 .. Len(s) - 1 : events[j].type = "StatusChanged" => j <= k - 1
    <3> SUFFICES ASSUME NEW j \in 1 .. Len(s) - 1, events[j].type = "StatusChanged"
                 PROVE  j <= k - 1
      OBVIOUS
    <3>1. j + 1 <= k
      BY <1>3, <2>2 DEF k
    <3>2. k \in 1 .. Len(s)
      BY <2>1, <2>4
    <3> QED BY <1>1, <3>1, <3>2
  <2> QED BY <2>3, <2>4, <2>5, <2>6 DEF StatusSoFar
<1> QED BY <1>5, <1>6

\* load's snapshot of a transcript and what read_meta or a count of its lines says
\* of it agree, for every transcript that loads.
THEOREM SnapshotsRight == Spec => []SnapshotAgrees
<1>1. ASSUME IInv PROVE SnapshotAgrees
  <2> SUFFICES ASSUME NEW f \in FileNo, Loadable(f)
               PROVE  LET events == EventsOf(f)
                          session == Snapshot(events)
                          closings == {i \in DOMAIN events : Closes(events[i])}
                          currencies == {events[i].usage.currency : i \in Charges(events)}
                      IN /\ session.status = StatusOf(files[f].lines)
                         /\ session.turnCount = Saturated(Cardinality(Turns(events)))
                         /\ session.totalUsage.tokens = Saturated(TokensCharged(events))
                         /\ \A c \in Currency :
                              currencies = {c} => session.totalUsage.currency = c
                         /\ (closings = {}) = (session.closedAt = NotClosed)
                         /\ \A i \in closings :
                              (\A j \in closings : j <= i) => session.closedAt = events[i].at
    BY DEF SnapshotAgrees
  <2> DEFINE s == files[f].lines
             events == EventsOf(f)
             session == Snapshot(events)
             N == Len(s) - 1
  <2>1. /\ s \in Seq(Text) /\ s # <<>> /\ s[1] = Header
        /\ \A i \in 2 .. Len(s) : s[i] \in Line
    BY <1>1, FileFacts, SeqFacts DEF Loadable, IInv, TypeOK
  <2>2. N \in Nat /\ Len(s) \in Nat
    <3>1. Len(s) \in Nat /\ Len(s) >= 1
      BY <2>1, SeqFacts
    <3> QED BY <3>1
  <2>3. events = [i \in 1 .. N |-> s[i + 1].event]
    BY DEF EventsOf
  <2>4. \A i \in 1 .. N : s[i + 1].event \in SessionEvent
    <3>1. \A i \in 1 .. N : i + 1 \in 2 .. Len(s)
      BY <2>2
    <3> QED BY <2>1, <3>1 DEF Line
  <2>5. events \in Seq(SessionEvent) /\ Len(events) = N /\ DOMAIN events = 1 .. N
    <3>1. events \in [1 .. N -> SessionEvent]
      BY <2>3, <2>4
    <3> HIDE DEF events, N
    <3> QED BY <2>2, <3>1, SeqDef, LenProperties
  <2> HIDE DEF events, N
  <2>6. /\ StatusSoFar(events, N, session)
        /\ TurnsSoFar(events, N, session)
        /\ UsageSoFar(events, N, session, TokensCharged(events))
        /\ CloseSoFar(events, N, session)
    BY <2>5, SnapshotFacts
  <2> HIDE DEF session
  <2>7. session.status = StatusOf(s)
    BY <2>1, <2>3, <2>6, ReadersAgreeOnStatus DEF N
  <2>8. Turns(events) \cap 1 .. N = Turns(events)
    BY <2>5 DEF Turns
  <2>9. session.turnCount = Saturated(Cardinality(Turns(events)))
    BY <2>6, <2>8 DEF TurnsSoFar
  <2>10. session.totalUsage.tokens = Saturated(TokensCharged(events))
    BY <2>6 DEF UsageSoFar
  <2>11. ASSUME NEW c \in Currency, {events[i].usage.currency : i \in Charges(events)} = {c}
         PROVE  session.totalUsage.currency = c
    <3>1. \A i \in 1 .. N : events[i].type = "Usage" => events[i].usage.currency = c
      BY <2>5, <2>11 DEF Charges
    <3>2. \E i \in 1 .. N : events[i].type = "Usage"
      BY <2>5, <2>11 DEF Charges
    <3> QED BY <2>6, <3>1, <3>2 DEF UsageSoFar
  <2>12. ({i \in DOMAIN events : Closes(events[i])} = {}) = (session.closedAt = NotClosed)
    BY <2>5, <2>6 DEF CloseSoFar
  <2>13. \A i \in {i \in DOMAIN events : Closes(events[i])} :
           (\A j \in {k \in DOMAIN events : Closes(events[k])} : j <= i)
             => session.closedAt = events[i].at
    BY <2>5, <2>6 DEF CloseSoFar
  <2> QED BY <2>7, <2>9, <2>10, <2>11, <2>12, <2>13 DEF session, events
<1> QED BY <1>1, Invariant, PTL
=============================================================================
