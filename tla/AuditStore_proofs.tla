-------------------------- MODULE AuditStore_proofs --------------------------
(***************************************************************************)
(* Proofs about AuditStore, for any processes, comments and types of       *)
(* event and without the bounds that TLC needs.  The inductive invariant   *)
(* IInv speaks of the lines that are safe, those which no append can run   *)
(* into any more, and charges what is not safe to the failed writes.       *)
(***************************************************************************)
EXTENDS AuditStore, SequenceTheorems, FiniteSetTheorems, TLAPS

SomeText(f) == {f.lines[i] : i \in DOMAIN f.lines}

\* The lines that stay what they are: not the last one, if its newline is missing.
SafeText(f) ==
  {f.lines[i] : i \in {j \in DOMAIN f.lines : f.open => j # Len(f.lines)}}

\* f with t at its end, or run into its last line.
Grown(f, g, t, whole) ==
  /\ g.open = ~ whole /\ g.lines # <<>>
  /\ ~ f.open =>
       /\ Len(g.lines) = Len(f.lines) + 1
       /\ g.lines[Len(f.lines) + 1] = t
       /\ \A i \in 1 .. Len(f.lines) : g.lines[i] = f.lines[i]
       /\ SomeText(g) = SomeText(f) \cup {t}
       /\ SafeText(g) = SafeText(f) \cup (IF whole THEN {t} ELSE {})
  /\ f.open =>
       /\ Len(g.lines) = Len(f.lines)
       /\ g.lines[Len(f.lines)] = Bad
       /\ \A i \in 1 .. Len(f.lines) - 1 : g.lines[i] = f.lines[i]
       /\ SomeText(g) \subseteq SomeText(f) \cup {Bad}
       /\ SafeText(f) \subseteq SafeText(g)
       /\ SafeText(g) \subseteq SafeText(f) \cup {Bad}

-----------------------------------------------------------------------------
LEMMA GrownFacts ==
  ASSUME NEW S, Bad \in S, NEW t \in S, NEW whole \in BOOLEAN,
         NEW f \in [lines : Seq(S), open : BOOLEAN],
         f.open => f.lines # <<>>
  PROVE  LET g == Extended(f, t, whole)
         IN /\ g \in [lines : Seq(S), open : BOOLEAN]
            /\ Grown(f, g, t, whole)
<1> DEFINE g == Extended(f, t, whole)
           s == f.lines
           u == IF f.open THEN [s EXCEPT ![Len(s)] = Bad] ELSE Append(s, t)
           n == Len(s)
<1>1. g = [lines |-> u, open |-> ~ whole] /\ g.lines = u /\ g.open = ~ whole
  BY DEF Extended
<1>2. s \in Seq(S) /\ f.open \in BOOLEAN
  OBVIOUS
<1>3. n \in Nat /\ DOMAIN s = 1 .. n /\ (s # <<>> => n >= 1)
  <2> HIDE DEF s
  <2> QED BY <1>2, LenProperties, EmptySeq
<1>4. CASE ~ f.open
  <2> DEFINE e == Append(s, t)
  <2>1. u = e
    BY <1>4
  <2>2. /\ e \in Seq(S) /\ Len(e) = n + 1 /\ e[n + 1] = t
        /\ \A i \in 1 .. n : e[i] = s[i]
    BY <1>2, AppendProperties
  <2> HIDE DEF e, s
  <2>3. DOMAIN e = 1 .. n + 1 /\ e # <<>>
    BY <1>3, <2>2, LenProperties, EmptySeq
  <2> HIDE DEF g, u, n
  <2>4. SomeText(g) = {s[i] : i \in 1 .. n} \cup {t}
    <3>1. SomeText(g) = {e[i] : i \in 1 .. n + 1}
      BY <1>1, <2>1, <2>3 DEF SomeText
    <3>2. 1 .. n + 1 = (1 .. n) \cup {n + 1}
      BY <1>3
    <3> QED BY <2>2, <3>1, <3>2
  <2>5. SafeText(g) = {e[i] : i \in {j \in 1 .. n + 1 : ~ whole => j # n + 1}}
    BY <1>1, <2>1, <2>2, <2>3 DEF SafeText
  <2>6. SomeText(f) = {s[i] : i \in 1 .. n} /\ SafeText(f) = {s[i] : i \in 1 .. n}
    <3>1. {j \in DOMAIN f.lines : f.open => j # Len(f.lines)} = DOMAIN f.lines
      BY <1>4
    <3>2. DOMAIN f.lines = 1 .. n
      BY <1>3 DEF s
    <3> QED BY <3>1, <3>2 DEF SomeText, SafeText, s
  <2>7. SafeText(g) = SafeText(f) \cup (IF whole THEN {t} ELSE {})
    <3>1. CASE whole
      <4>1. {j \in 1 .. n + 1 : ~ whole => j # n + 1} = (1 .. n) \cup {n + 1}
        BY <1>3, <3>1
      <4> QED BY <2>2, <2>5, <2>6, <3>1, <4>1
    <3>2. CASE ~ whole
      <4>1. {j \in 1 .. n + 1 : ~ whole => j # n + 1} = 1 .. n
        BY <1>3, <3>2
      <4> QED BY <2>2, <2>5, <2>6, <3>2, <4>1
    <3> QED BY <3>1, <3>2
  <2>8. g.lines = e /\ g.open = ~ whole /\ g \in [lines : Seq(S), open : BOOLEAN]
    BY <1>1, <2>1, <2>2
  <2>9. Len(f.lines) = n /\ f.lines = s
    BY DEF s, n
  <2> HIDE DEF g, e, s, n
  <2> QED BY <1>4, <2>2, <2>3, <2>4, <2>6, <2>7, <2>8, <2>9 DEF Grown, g
<1>5. CASE f.open
  <2> DEFINE e == [s EXCEPT ![n] = Bad]
  <2>1. u = e /\ n >= 1 /\ n \in 1 .. n
    BY <1>3, <1>5
  <2>2. /\ e \in Seq(S) /\ Len(e) = n
        /\ \A i \in 1 .. n : e[i] = IF i = n THEN Bad ELSE s[i]
    BY <1>2, <2>1, ExceptSeq
  <2> HIDE DEF e, s, n
  <2>3. DOMAIN e = 1 .. n /\ e # <<>>
    <3>1. n \in Nat /\ n # 0 /\ Len(e) = n
      BY <1>3, <2>1, <2>2
    <3> QED BY <2>2, <3>1, LenProperties, EmptySeq
  <2> HIDE DEF g, u, n
  <2>4. SomeText(g) = {e[i] : i \in 1 .. n} /\ SomeText(f) = {s[i] : i \in 1 .. n}
    <3>1. DOMAIN g.lines = 1 .. n /\ DOMAIN f.lines = 1 .. n
      BY <1>1, <1>3, <2>1, <2>3 DEF s
    <3> QED BY <1>1, <2>1, <3>1 DEF SomeText, s
  <2>5. SomeText(g) \subseteq SomeText(f) \cup {Bad}
    BY <2>2, <2>4
  <2>6. SafeText(f) = {s[i] : i \in {j \in 1 .. n : j # n}}
    <3>1. DOMAIN f.lines = 1 .. n /\ Len(f.lines) = n /\ f.lines = s
      BY <1>3 DEF s, n
    <3> QED BY <1>5, <3>1 DEF SafeText
  <2>7. SafeText(g) = {e[i] : i \in {j \in 1 .. n : ~ whole => j # n}}
    BY <1>1, <2>1, <2>2, <2>3 DEF SafeText
  <2>8. SafeText(f) \subseteq SafeText(g) /\ SafeText(g) \subseteq SafeText(f) \cup {Bad}
    BY <2>2, <2>6, <2>7
  <2>9. g.lines = e /\ g.open = ~ whole /\ g \in [lines : Seq(S), open : BOOLEAN]
    BY <1>1, <2>1, <2>2
  <2>10. Len(f.lines) = n /\ f.lines = s
    BY DEF s, n
  <2>11. \A i \in 1 .. n - 1 : i \in 1 .. n /\ i # n
    BY <1>3
  <2>12. \A i \in 1 .. n - 1 : e[i] = s[i]
    BY <2>2, <2>11
  <2> HIDE DEF g, e, s, n
  <2> QED BY <1>5, <2>1, <2>2, <2>3, <2>5, <2>8, <2>9, <2>10, <2>12 DEF Grown, g
<1> QED BY <1>4, <1>5

\* The same of what a failed write leaves.
LEMMA RemainsFacts ==
  ASSUME NEW S, Bad \in S, NEW t \in S,
         NEW f \in [lines : Seq(S), open : BOOLEAN],
         f.open => f.lines # <<>>,
         NEW g \in Remains(f, t)
  PROVE  /\ g \in [lines : Seq(S), open : BOOLEAN]
         /\ g.open => g.lines # <<>>
         /\ g = f \/ Grown(f, g, t, FALSE) \/ Grown(f, g, Bad, FALSE)
<1>1. g = f \/ g = Extended(f, t, FALSE) \/ g = Extended(f, Bad, FALSE)
  BY DEF Remains
<1>2. CASE g = f
  BY <1>2
<1>3. CASE g = Extended(f, t, FALSE)
  <2>1. g \in [lines : Seq(S), open : BOOLEAN] /\ Grown(f, g, t, FALSE)
    BY <1>3, GrownFacts
  <2> QED BY <2>1 DEF Grown
<1>4. CASE g = Extended(f, Bad, FALSE)
  <2>1. g \in [lines : Seq(S), open : BOOLEAN] /\ Grown(f, g, Bad, FALSE)
    BY <1>4, GrownFacts
  <2> QED BY <2>1 DEF Grown
<1> QED BY <1>1, <1>2, <1>3, <1>4

\* g is put together from the lines of c, then spoilt ones, then lines of s.
Pieced(c, s, g) ==
  \E n \in Nat, k \in Nat : \A i \in DOMAIN g.lines :
    \/ g.lines[i] = Bad
    \/ i <= n /\ i \in DOMAIN c.lines /\ g.lines[i] = c.lines[i]
    \/ i > n /\ i - n + k \in DOMAIN s.lines /\ g.lines[i] = s.lines[i - n + k]

\* A tail of s behind a head that has the lines of c, or Bad in their place.
LEMMA BehindFacts ==
  ASSUME NEW c \in EventFile, NEW s \in EventFile,
         NEW head \in Seq(AuditEvent \cup {Bad}), head # <<>>,
         \A i \in 1 .. Len(head) : head[i] = Bad \/ (i \in DOMAIN c.lines /\ head[i] = c.lines[i]),
         NEW k \in 2 .. Len(s.lines) + 1, NEW g,
         g = [lines |-> head \o SubSeq(s.lines, k, Len(s.lines)), open |-> s.open]
  PROVE  g \in EventFile /\ g.lines # <<>> /\ Pieced(c, s, g)
<1> DEFINE S == AuditEvent \cup {Bad}
           l == s.lines
           n == Len(head)
           m == Len(l)
           t == SubSeq(l, k, m)
<1>1. l \in Seq(S) /\ s.open \in BOOLEAN
  BY DEF EventFile
<1>2. m \in Nat /\ DOMAIN l = 1 .. m /\ n \in Nat /\ n >= 1
  <2> HIDE DEF l
  <2> QED BY <1>1, LenProperties, EmptySeq
<1>3. k \in Int /\ k >= 2 /\ k <= m + 1
  BY <1>2
<1> HIDE DEF l, m, n
<1>4. \A i \in k .. m : i \in 1 .. m /\ l[i] \in S
  <2>1. \A i \in k .. m : i \in 1 .. m
    BY <1>2, <1>3
  <2>2. \A i \in 1 .. m : l[i] \in S
    BY <1>1, ElementOfSeq DEF m
  <2> QED BY <2>1, <2>2
<1>5. /\ t \in Seq(S) /\ Len(t) = (IF k <= m THEN m - k + 1 ELSE 0)
      /\ \A i \in 1 .. m - k + 1 : t[i] = l[k + i - 1]
  <2> HIDE DEF S
  <2> QED BY <1>2, <1>3, <1>4, SubSeqProperties
<1> DEFINE w == m - k + 1
           d == k - 1
<1>6. Len(t) = w /\ w \in Nat /\ d \in Nat /\ w + d = m
  BY <1>2, <1>3, <1>5
<1>7. \A j \in 1 .. w : t[j] = l[j + d] /\ j + d \in 1 .. m
  <2> SUFFICES ASSUME NEW j \in 1 .. w PROVE t[j] = l[j + d] /\ j + d \in 1 .. m
    OBVIOUS
  <2>1. j \in Int /\ 1 <= j /\ j <= w
    BY <1>6
  <2>2. k + j - 1 = j + d
    BY <1>3, <2>1
  <2> HIDE DEF w, d
  <2>3. j + d \in 1 .. m
    BY <1>2, <1>6, <2>1
  <2> QED BY <1>5, <2>2, <2>3 DEF w
<1> HIDE DEF t, w, d
<1> DEFINE u == head \o t
<1>8. /\ u \in Seq(S) /\ Len(u) = n + w
      /\ \A i \in 1 .. n + w : u[i] = IF i <= n THEN head[i] ELSE t[i - n]
  BY <1>5, <1>6, ConcatProperties DEF n
<1>9. g.lines = u /\ g.open = s.open /\ g \in EventFile
  BY <1>1, <1>8 DEF EventFile, t, l, m
<1> HIDE DEF u
<1>10. DOMAIN u = 1 .. n + w /\ u # <<>>
  <2>1. Len(u) # 0
    BY <1>2, <1>6, <1>8
  <2> QED BY <1>8, <2>1, LenProperties, EmptySeq
<1>11. ASSUME NEW i \in 1 .. n + w
       PROVE  \/ u[i] = Bad
              \/ i <= n /\ i \in DOMAIN c.lines /\ u[i] = c.lines[i]
              \/ i > n /\ i - n + d \in 1 .. m /\ u[i] = l[i - n + d]
  <2>1. CASE i <= n
    <3>1. i \in 1 .. n
      BY <1>2, <2>1
    <3>2. u[i] = head[i]
      BY <1>8, <2>1
    <3>3. head[i] = Bad \/ (i \in DOMAIN c.lines /\ head[i] = c.lines[i])
      BY <3>1 DEF n
    <3> QED BY <2>1, <3>2, <3>3
  <2>2. CASE ~ (i <= n)
    <3>1. i \in Int /\ i <= n + w /\ i > n
      BY <1>2, <1>6, <2>2
    <3>2. i - n \in 1 .. w
      BY <1>2, <1>6, <3>1
    <3>3. u[i] = t[i - n]
      BY <1>8, <2>2
    <3> QED BY <1>7, <3>1, <3>2, <3>3
  <2> QED BY <2>1, <2>2
<1>12. Pieced(c, s, g)
  <2>1. \A i \in DOMAIN g.lines :
          \/ g.lines[i] = Bad
          \/ i <= n /\ i \in DOMAIN c.lines /\ g.lines[i] = c.lines[i]
          \/ i > n /\ i - n + d \in DOMAIN s.lines /\ g.lines[i] = s.lines[i - n + d]
    BY <1>2, <1>9, <1>10, <1>11 DEF l
  <2> QED BY <1>2, <1>6, <2>1 DEF Pieced
<1> QED BY <1>9, <1>10, <1>12

\* What a refill makes of a file.
LEMMA OverFacts ==
  ASSUME NEW c \in EventFile, NEW s \in EventFile,
         c.open => c.lines # <<>>, s.open => s.lines # <<>>, NEW g \in Over(c, s)
  PROVE  /\ g \in EventFile /\ (g.open => g.lines # <<>>)
         /\ Pieced(c, s, g)
         /\ s = Empty => g = c
<1> DEFINE n == Len(c.lines)
           m == Len(s.lines)
<1>1. /\ c.lines \in Seq(AuditEvent \cup {Bad}) /\ s.lines \in Seq(AuditEvent \cup {Bad})
      /\ c.open \in BOOLEAN /\ s.open \in BOOLEAN
  BY DEF EventFile
<1>2. /\ n \in Nat /\ DOMAIN c.lines = 1 .. n
      /\ m \in Nat /\ DOMAIN s.lines = 1 .. m
  BY <1>1, LenProperties
<1>3. CASE g = c
  <2>1. \A i \in DOMAIN c.lines : i <= n
    BY <1>2
  <2>2. Pieced(c, s, g)
    BY <1>2, <1>3, <2>1 DEF Pieced
  <2> QED BY <1>3, <2>2
<1>4. CASE c.lines = <<>> /\ g = s
  <2>1. c = Empty
    <3>1. c = [lines |-> c.lines, open |-> c.open]
      BY DEF EventFile
    <3> QED BY <1>1, <1>4, <3>1 DEF Empty
  <2>2. \A i \in DOMAIN s.lines : i > 0 /\ i - 0 + 0 = i
    BY <1>2
  <2>3. Pieced(c, s, g)
    BY <1>4, <2>2 DEF Pieced
  <2> QED BY <1>4, <2>1, <2>3
<1>5. ASSUME c.lines # <<>>, NEW k \in 2 .. m + 1,
             NEW head \in {c.lines, Extended(c, Bad, TRUE).lines},
             g = [lines |-> head \o SubSeq(s.lines, k, m), open |-> s.open]
      PROVE  g \in EventFile /\ g.lines # <<>> /\ Pieced(c, s, g) /\ s # Empty
  <2>1. s # Empty
    <3>1. m # 0
      BY <1>2, <1>5
    <3>2. Empty.lines = <<>> /\ Len(<<>>) = 0
      BY EmptySeq DEF Empty
    <3> QED BY <3>1, <3>2
  <2>2. CASE head = c.lines
    <3>1. \A i \in 1 .. Len(head) : i \in DOMAIN c.lines /\ head[i] = c.lines[i]
      BY <1>2, <2>2
    <3> QED BY <1>1, <1>5, <2>1, <2>2, <3>1, BehindFacts
  <2>3. CASE head = Extended(c, Bad, TRUE).lines
    <3> DEFINE e == Extended(c, Bad, TRUE)
    <3>1. /\ e \in [lines : Seq(AuditEvent \cup {Bad}), open : BOOLEAN]
          /\ Grown(c, e, Bad, TRUE)
      BY GrownFacts DEF EventFile
    <3>2. head = e.lines
      BY <2>3
    <3> HIDE DEF e
    <3>3. head \in Seq(AuditEvent \cup {Bad}) /\ head # <<>>
      BY <3>1, <3>2 DEF Grown
    <3>4. ASSUME NEW i \in 1 .. Len(head)
          PROVE  head[i] = Bad \/ (i \in DOMAIN c.lines /\ head[i] = c.lines[i])
      <4>1. CASE ~ c.open
        <5>1. /\ Len(head) = n + 1 /\ head[n + 1] = Bad
              /\ \A j \in 1 .. n : head[j] = c.lines[j]
          BY <3>1, <3>2, <4>1 DEF Grown
        <5>2. i \in 1 .. n \/ i = n + 1
          BY <1>2, <5>1
        <5> QED BY <1>2, <5>1, <5>2
      <4>2. CASE c.open
        <5>1. /\ Len(head) = n /\ head[n] = Bad
              /\ \A j \in 1 .. n - 1 : head[j] = c.lines[j]
          BY <3>1, <3>2, <4>2 DEF Grown
        <5>2. i \in 1 .. n /\ (i \in 1 .. n - 1 \/ i = n)
          BY <1>2, <5>1
        <5> QED BY <1>2, <5>1, <5>2
      <4> QED BY <1>1, <4>1, <4>2
    <3> QED BY <1>5, <2>1, <3>3, <3>4, BehindFacts
  <2> QED BY <1>5, <2>2, <2>3
<1>6. \/ g = c
      \/ c.lines = <<>> /\ g = s
      \/ /\ c.lines # <<>>
         /\ \E k \in 2 .. m + 1, head \in {c.lines, Extended(c, Bad, TRUE).lines} :
               g = [lines |-> head \o SubSeq(s.lines, k, m), open |-> s.open]
  <2> DEFINE tails == {SubSeq(s.lines, k, m) : k \in 2 .. m + 1}
             behind(head, tail) == [lines |-> head \o tail, open |-> s.open]
  <2>1. CASE c.lines = <<>>
    BY <2>1 DEF Over
  <2>2. CASE c.lines # <<>>
    <3>1. \/ g = c
          \/ \E t \in tails : g = behind(c.lines, t)
          \/ \E t \in tails : g = behind(Extended(c, Bad, TRUE).lines, t)
      BY <2>2 DEF Over
    <3> QED BY <2>2, <3>1
  <2> QED BY <2>1, <2>2
<1> QED BY <1>3, <1>4, <1>5, <1>6

\* A text is an event, a comment or Bad, and no two of these.
LEMMA TextKinds ==
  /\ Bad \in Text /\ ~ IsComment(Bad) /\ ~ IsEvent(Bad)
  /\ \A t \in Text :
       /\ t # Bad => IsComment(t) \/ IsEvent(t)
       /\ IsComment(t) => t \in Comment /\ ~ IsEvent(t)
       /\ IsEvent(t) => t \in AuditEvent /\ ~ IsComment(t)
  /\ \A t \in AuditEvent : IsEvent(t) /\ t \in Text /\ ~ IsComment(t) /\ t # Bad
  /\ \A t \in Comment : IsComment(t) /\ t \in Text /\ ~ IsEvent(t) /\ t # Bad
<1>1. \A t \in AuditEvent : t # Bad /\ DOMAIN t = {"type", "comment", "at", "late"}
  BY TextAssumption DEF AuditEvent
<1>2. \A t \in Comment : t # Bad /\ DOMAIN t = {"id", "at"}
  BY TextAssumption DEF Comment
<1> HIDE DEF AuditEvent, Comment
<1>3. \A t \in Text : t = Bad \/ t \in AuditEvent \/ t \in Comment
  BY DEF Text
<1> QED BY <1>1, <1>2, <1>3 DEF IsComment, IsEvent, Text

-----------------------------------------------------------------------------
\* An end without newline has a line to be the end of.
EndsOK ==
  /\ events.open => events.lines # <<>>
  /\ comments.open => comments.lines # <<>>
  /\ snap.open => snap.lines # <<>>
  /\ \A p \in Proc : recovery[p].from.open => recovery[p].from.lines # <<>>

LEMMA NewEventFacts ==
  ASSUME now \in Nat, NEW type \in EventType, NEW c \in CommentId \cup {NoComment}
  PROVE  /\ NewEvent(type, c) \in AuditEvent
         /\ NewEvent(type, c).comment = c
         /\ NewEvent(type, c).at = now
         /\ NewEvent(type, c).late = FALSE
BY DEF NewEvent, AuditEvent

\* What Done leaves of the other jobs.
LEMMA DoneFacts ==
  ASSUME TypeOK, NEW p \in Proc, NEW appended \in BOOLEAN, Done(p, appended)
  PROVE  /\ job' \in [Proc -> Text]
         /\ job'[p] = Bad
         /\ \A q \in Proc \ {p} :
              /\ IsEvent(job[q]) <=> IsEvent(job'[q])
              /\ ~ IsEvent(job[q]) => job'[q] = job[q]
              /\ IsEvent(job[q]) =>
                   /\ job'[q].comment = job[q].comment
                   /\ job'[q].at = job[q].at
                   /\ ~ appended => job'[q] = job[q]
                   /\ appended => job'[q].late
<1> DEFINE Delayed(t) == [t EXCEPT !.late = TRUE]
<1>1. \A t \in AuditEvent :
        /\ Delayed(t) \in AuditEvent /\ Delayed(t).late = TRUE
        /\ Delayed(t).comment = t.comment /\ Delayed(t).at = t.at
  BY DEF AuditEvent
<1>2. \A q \in Proc : job[q] \in Text
  BY DEF TypeOK
<1>3. \A q \in Proc :
        /\ q = p => job'[q] = Bad
        /\ q # p /\ ~ (appended /\ IsEvent(job[q])) => job'[q] = job[q]
        /\ q # p /\ appended /\ IsEvent(job[q]) => job'[q] = Delayed(job[q])
  BY DEF Done
<1> HIDE DEF Delayed
<1>4. \A q \in Proc : job'[q] \in Text
  BY <1>1, <1>2, <1>3, TextKinds
<1>5. job' \in [Proc -> Text]
  <2>1. job' = [q \in Proc |-> job'[q]]
    BY DEF Done
  <2> QED BY <1>4, <2>1
<1>6. ASSUME NEW q \in Proc \ {p}
      PROVE  /\ IsEvent(job[q]) <=> IsEvent(job'[q])
             /\ ~ IsEvent(job[q]) => job'[q] = job[q]
             /\ IsEvent(job[q]) =>
                  /\ job'[q].comment = job[q].comment
                  /\ job'[q].at = job[q].at
                  /\ ~ appended => job'[q] = job[q]
                  /\ appended => job'[q].late
  <2>1. CASE IsEvent(job[q]) /\ appended
    BY <1>1, <1>2, <1>3, <2>1, TextKinds
  <2>2. CASE ~ (IsEvent(job[q]) /\ appended)
    BY <1>3, <2>2
  <2> QED BY <2>1, <2>2
<1> QED BY <1>3, <1>5, <1>6

-----------------------------------------------------------------------------
\* What the actions that write do, one lemma each.
LEMMA CommentAppendedEffect ==
  ASSUME TypeOK, EndsOK, NEW p \in Proc, CommentAppended(p)
  PROVE  /\ job[p] \in Comment
         /\ comments' \in CommentFile /\ Grown(comments, comments', job[p], TRUE)
         /\ NewEvent("Commented", job[p].id) \in AuditEvent
         /\ job' = [job EXCEPT ![p] = NewEvent("Commented", job[p].id)]
         /\ UNCHANGED <<events, snap, call, now, recovery, fails, recoveries, seen>>
<1>1. job[p] \in Comment
  BY TextKinds DEF TypeOK, CommentAppended
<1>2. job[p].id \in CommentId
  BY <1>1 DEF Comment
<1>3. NewEvent("Commented", job[p].id) \in AuditEvent
  BY <1>2, NewEventFacts DEF TypeOK, EventType
<1>4. comments' = Extended(comments, job[p], TRUE)
  BY DEF CommentAppended
<1>5. comments \in CommentFile /\ (comments.open => comments.lines # <<>>)
  BY DEF TypeOK, EndsOK, CommentFile
<1>6. comments' \in CommentFile /\ Grown(comments, comments', job[p], TRUE)
  <2> QED BY <1>1, <1>4, <1>5, GrownFacts DEF CommentFile
<1> QED BY <1>1, <1>3, <1>6 DEF CommentAppended

LEMMA EventAppendedEffect ==
  ASSUME TypeOK, EndsOK, NEW p \in Proc, EventAppended(p)
  PROVE  /\ job[p] \in AuditEvent
         /\ events' \in EventFile /\ Grown(events, events', job[p], TRUE)
         /\ Done(p, TRUE) /\ NoteRace
         /\ UNCHANGED <<comments, snap, now, recovery, fails, recoveries>>
<1>1. job[p] \in AuditEvent
  BY TextKinds DEF TypeOK, EventAppended
<1>2. events' = Extended(events, job[p], TRUE)
  BY DEF EventAppended
<1>3. events \in EventFile /\ (events.open => events.lines # <<>>)
  BY DEF TypeOK, EndsOK, EventFile
<1>4. events' \in EventFile /\ Grown(events, events', job[p], TRUE)
  <2> QED BY <1>1, <1>2, <1>3, GrownFacts DEF EventFile
<1> QED BY <1>1, <1>4 DEF EventAppended

\* g is what a failed write of t makes of f.
Spoilt(f, g, t) ==
  /\ g.open => g.lines # <<>>
  /\ g = f \/ Grown(f, g, t, FALSE) \/ Grown(f, g, Bad, FALSE)

LEMMA AppendFailsEffect ==
  ASSUME TypeOK, EndsOK, NEW p \in Proc, AppendFails(p)
  PROVE  /\ \/ /\ job[p] \in Comment
               /\ comments' \in CommentFile /\ Spoilt(comments, comments', job[p])
               /\ events' = events
               /\ Done(p, FALSE)
            \/ /\ job[p] \in AuditEvent
               /\ events' \in EventFile /\ Spoilt(events, events', job[p])
               /\ comments' = comments
               /\ Done(p, events' # events)
         /\ fails' = fails + 1 /\ NoteRace
         /\ UNCHANGED <<snap, now, recovery, recoveries>>
<1>1. job[p] \in Text /\ job[p] # Bad
  BY DEF TypeOK, AppendFails
<1>2. /\ comments \in CommentFile /\ (comments.open => comments.lines # <<>>)
      /\ events \in EventFile /\ (events.open => events.lines # <<>>)
  BY DEF TypeOK, EndsOK, CommentFile, EventFile
<1>3. fails' = fails + 1 /\ NoteRace /\ UNCHANGED <<snap, now, recovery, recoveries>>
  BY DEF AppendFails
<1>4. CASE IsComment(job[p])
  <2>1. job[p] \in Comment
    BY <1>1, <1>4, TextKinds
  <2>2. /\ comments' \in Remains(comments, job[p]) /\ events' = events
        /\ Done(p, FALSE)
    BY <1>4 DEF AppendFails
  <2>3. comments' \in CommentFile /\ Spoilt(comments, comments', job[p])
    <3> QED BY <1>2, <2>1, <2>2, RemainsFacts DEF CommentFile, Spoilt
  <2> QED BY <1>3, <2>1, <2>2, <2>3
<1>5. CASE ~ IsComment(job[p])
  <2>1. job[p] \in AuditEvent
    BY <1>1, <1>5, TextKinds
  <2>2. /\ events' \in Remains(events, job[p]) /\ comments' = comments
        /\ Done(p, events' # events)
    BY <1>5 DEF AppendFails
  <2>3. events' \in EventFile /\ Spoilt(events, events', job[p])
    <3> QED BY <1>2, <2>1, <2>2, RemainsFacts DEF EventFile, Spoilt
  <2> QED BY <1>3, <2>1, <2>2, <2>3
<1> QED BY <1>4, <1>5

LEMMA LogEffect ==
  ASSUME TypeOK, NEW p \in Proc, NEW type \in Logged, Log(p, type)
  PROVE  /\ NewEvent(type, NoComment) \in AuditEvent
         /\ job[p] = Bad /\ job' = [job EXCEPT ![p] = NewEvent(type, NoComment)]
         /\ UNCHANGED <<events, comments, snap, call, now, recovery, fails, recoveries, seen>>
<1>1. type \in EventType
  BY LoggedAssumption
<1> QED BY <1>1, NewEventFacts DEF TypeOK, Log, Begin, Idle

LEMMA AddCommentEffect ==
  ASSUME TypeOK, NEW p \in Proc, NEW c \in CommentId, AddComment(p, c)
  PROVE  /\ [id |-> c, at |-> now] \in Comment
         /\ job[p] = Bad /\ job' = [job EXCEPT ![p] = [id |-> c, at |-> now]]
         /\ UNCHANGED <<events, comments, snap, now, recovery, fails, recoveries, seen>>
BY DEF TypeOK, AddComment, Begin, Idle, Comment

-----------------------------------------------------------------------------
LEMMA InitTypeOK == Init => TypeOK /\ EndsOK
<1> SUFFICES ASSUME Init PROVE TypeOK /\ EndsOK
  OBVIOUS
<1>1. \A S : Empty \in [lines : Seq(S), open : BOOLEAN] /\ ~ Empty.open
  BY DEF Empty
<1>2. job \in [Proc -> Text]
  BY TextKinds DEF Init
<1>3. call \in [CommentId -> {"new", "adding", "failed", "added"}]
  BY DEF Init
<1>4. /\ recovery \in [Proc -> [step : {"none", "restore", "refill"}, from : EventFile]]
      /\ \A p \in Proc : ~ recovery[p].from.open
  <2>1. NoRecovery \in [step : {"none", "restore", "refill"}, from : EventFile]
    BY <1>1 DEF NoRecovery, EventFile
  <2>2. ~ NoRecovery.from.open
    BY <1>1 DEF NoRecovery
  <2> QED BY <2>1, <2>2 DEF Init
<1> QED BY <1>1, <1>2, <1>3, <1>4 DEF Init, TypeOK, EndsOK, EventFile, CommentFile

\* The state of a call is one of the four, whatever a process does.
LEMMA CallTyped == TypeOK /\ Next => call' \in [CommentId -> {"new", "adding", "failed", "added"}]
<1> SUFFICES ASSUME TypeOK, Next
             PROVE  call' \in [CommentId -> {"new", "adding", "failed", "added"}]
  OBVIOUS
<1> USE DEF TypeOK
<1>1. CASE Tick \/ Snapshot \/ \E p \in Proc : Recover(p) \/ Restore(p) \/ Refill(p)
  BY <1>1 DEF Tick, Snapshot, Recover, Restore, Refill
<1>2. ASSUME NEW p \in Proc, NEW type \in Logged, Log(p, type)
      PROVE  call' \in [CommentId -> {"new", "adding", "failed", "added"}]
  BY <1>2 DEF Log
<1>3. ASSUME NEW p \in Proc, NEW c \in CommentId, AddComment(p, c)
      PROVE  call' \in [CommentId -> {"new", "adding", "failed", "added"}]
  BY <1>3 DEF AddComment
<1>4. ASSUME NEW p \in Proc, CommentAppended(p)
      PROVE  call' \in [CommentId -> {"new", "adding", "failed", "added"}]
  BY <1>4 DEF CommentAppended
<1>5. ASSUME NEW p \in Proc, EventAppended(p)
      PROVE  call' \in [CommentId -> {"new", "adding", "failed", "added"}]
  BY <1>5 DEF EventAppended
<1>6. ASSUME NEW p \in Proc, AppendFails(p)
      PROVE  call' \in [CommentId -> {"new", "adding", "failed", "added"}]
  BY <1>6 DEF AppendFails
<1> QED BY <1>1, <1>2, <1>3, <1>4, <1>5, <1>6 DEF Next

\* What a step has to keep of the types, but for the calls.
Shape ==
  /\ events \in EventFile /\ comments \in CommentFile /\ snap \in EventFile
  /\ job \in [Proc -> Text]
  /\ recovery \in [Proc -> [step : {"none", "restore", "refill"}, from : EventFile]]
  /\ now \in Nat /\ fails \in Nat /\ recoveries \in Nat
  /\ seen \subseteq {"raced", "overlap"}
  /\ EndsOK

\* What the steps of a recovery do.
LEMMA RecoveryEffect ==
  ASSUME TypeOK, EndsOK, NEW p \in Proc
  PROVE  /\ Recover(p) =>
              /\ recovery' = [recovery EXCEPT ![p] = [step |-> "restore", from |-> snap]]
              /\ recovery[p].step = "none"
              /\ recoveries' = recoveries + 1
              /\ UNCHANGED <<events, comments, snap, job, now, fails>>
         /\ Restore(p) =>
              /\ recovery' = [recovery EXCEPT ![p].step = "refill"]
              /\ recovery[p].step = "restore"
              /\ events' = Empty
              /\ UNCHANGED <<comments, snap, job, now, fails, recoveries, seen>>
         /\ Refill(p) =>
              /\ recovery' = [recovery EXCEPT ![p] = NoRecovery]
              /\ recovery[p].step = "refill"
              /\ events' \in EventFile /\ (events'.open => events'.lines # <<>>)
              /\ Pieced(recovery[p].from, events, events')
              /\ events = Empty => events' = recovery[p].from
              /\ UNCHANGED <<comments, snap, job, now, fails, recoveries, seen>>
<1>1. /\ recovery[p].from \in EventFile /\ events \in EventFile
      /\ recovery[p].from.open => recovery[p].from.lines # <<>>
      /\ events.open => events.lines # <<>>
  BY DEF TypeOK, EndsOK
<1>2. ASSUME Refill(p)
      PROVE  /\ events' \in EventFile /\ (events'.open => events'.lines # <<>>)
             /\ Pieced(recovery[p].from, events, events')
             /\ events = Empty => events' = recovery[p].from
  <2>1. events' \in Over(recovery[p].from, events)
    BY <1>2 DEF Refill
  <2> QED BY <1>1, <2>1, OverFacts
<1> QED BY <1>2 DEF Recover, Idle, Restore, Refill

LEMMA NextTypeOK == TypeOK /\ EndsOK /\ [Next]_vars => TypeOK' /\ EndsOK'
<1> SUFFICES ASSUME TypeOK, EndsOK, [Next]_vars PROVE TypeOK' /\ EndsOK'
  OBVIOUS
<1>1. Shape
  BY DEF Shape, TypeOK, EventFile, CommentFile
<1>2. CASE UNCHANGED vars
  BY <1>2 DEF TypeOK, EndsOK, vars
<1>3. CASE Next
  <2>1. ASSUME Tick \/ Snapshot PROVE Shape'
    <3>1. CASE Tick
      BY <1>1, <3>1 DEF Tick, Shape, EndsOK
    <3>2. CASE Snapshot
      BY <1>1, <3>2 DEF Snapshot, Shape, EndsOK
    <3> QED BY <2>1, <3>1, <3>2
  <2>2. ASSUME NEW p \in Proc, NEW type \in Logged, Log(p, type)
        PROVE  Shape'
    <3>1. /\ NewEvent(type, NoComment) \in Text
          /\ job' = [job EXCEPT ![p] = NewEvent(type, NoComment)]
          /\ UNCHANGED <<events, comments, snap, now, recovery, fails, recoveries, seen>>
      BY <2>2, LogEffect, TextKinds
    <3> QED BY <1>1, <3>1 DEF Shape, EndsOK
  <2>3. ASSUME NEW p \in Proc, NEW c \in CommentId, AddComment(p, c)
        PROVE  Shape'
    <3>1. /\ [id |-> c, at |-> now] \in Text
          /\ job' = [job EXCEPT ![p] = [id |-> c, at |-> now]]
          /\ UNCHANGED <<events, comments, snap, now, recovery, fails, recoveries, seen>>
      BY <2>3, AddCommentEffect, TextKinds
    <3> QED BY <1>1, <3>1 DEF Shape, EndsOK
  <2>4. ASSUME NEW p \in Proc, CommentAppended(p) PROVE Shape'
    <3>1. /\ NewEvent("Commented", job[p].id) \in Text
          /\ job' = [job EXCEPT ![p] = NewEvent("Commented", job[p].id)]
          /\ UNCHANGED <<events, snap, now, recovery, fails, recoveries, seen>>
      BY <2>4, CommentAppendedEffect, TextKinds
    <3>2. comments' \in CommentFile /\ (comments'.open => comments'.lines # <<>>)
      BY <2>4, CommentAppendedEffect DEF Grown
    <3> QED BY <1>1, <3>1, <3>2 DEF Shape, EndsOK
  <2>5. ASSUME NEW p \in Proc, EventAppended(p) PROVE Shape'
    <3>1. seen' \subseteq {"raced", "overlap"}
      BY <1>1, <2>5, EventAppendedEffect DEF NoteRace, Shape
    <3>2. /\ job' \in [Proc -> Text]
          /\ UNCHANGED <<comments, snap, now, recovery, fails, recoveries>>
      BY <2>5, EventAppendedEffect, DoneFacts
    <3>3. events' \in EventFile /\ (events'.open => events'.lines # <<>>)
      BY <2>5, EventAppendedEffect DEF Grown
    <3> QED BY <1>1, <3>1, <3>2, <3>3 DEF Shape, EndsOK
  <2>6. ASSUME NEW p \in Proc, AppendFails(p) PROVE Shape'
    <3>1. job' \in [Proc -> Text]
      BY <2>6, AppendFailsEffect, DoneFacts
    <3>2. /\ events' \in EventFile /\ (events'.open => events'.lines # <<>>)
          /\ comments' \in CommentFile /\ (comments'.open => comments'.lines # <<>>)
      BY <1>1, <2>6, AppendFailsEffect DEF Shape, EndsOK, Spoilt
    <3>3. /\ fails' = fails + 1 /\ UNCHANGED <<snap, now, recovery, recoveries>>
          /\ seen' \subseteq {"raced", "overlap"}
      BY <1>1, <2>6, AppendFailsEffect DEF NoteRace, Shape
    <3> QED BY <1>1, <3>1, <3>2, <3>3 DEF Shape, EndsOK
  <2>7. ASSUME NEW p \in Proc, Recover(p) PROVE Shape'
    <3>1. [step |-> "restore", from |-> snap]
            \in [step : {"none", "restore", "refill"}, from : EventFile]
      BY <1>1 DEF Shape
    <3>2. seen' \subseteq {"raced", "overlap"}
      BY <1>1, <2>7 DEF Recover, Shape
    <3> QED BY <1>1, <2>7, <3>1, <3>2, RecoveryEffect DEF Shape, EndsOK
  <2>8. ASSUME NEW p \in Proc, Restore(p) PROVE Shape'
    <3>1. Empty \in EventFile /\ ~ Empty.open
      BY DEF Empty, EventFile
    <3> QED BY <1>1, <2>8, <3>1, RecoveryEffect DEF Shape, EndsOK
  <2>9. ASSUME NEW p \in Proc, Refill(p) PROVE Shape'
    <3>1. /\ NoRecovery \in [step : {"none", "restore", "refill"}, from : EventFile]
          /\ ~ NoRecovery.from.open
      BY DEF NoRecovery, Empty, EventFile
    <3> QED BY <1>1, <2>9, <3>1, RecoveryEffect DEF Shape, EndsOK
  <2>10. Shape'
    BY <1>3, <2>1, <2>2, <2>3, <2>4, <2>5, <2>6, <2>7, <2>8, <2>9 DEF Next
  <2> QED BY <1>3, <2>10, CallTyped DEF Shape, TypeOK
<1> QED BY <1>2, <1>3

-----------------------------------------------------------------------------
\* One recovery at a time, unless it is noted, nothing in the file between its two
\* halves, unless that is, and none that is not counted.
OneAtATime ==
  "overlap" \notin seen =>
    \A p, q \in Proc : recovery[p].step # "none" /\ recovery[q].step # "none" => p = q

Truncated == seen = {} => \A p \in Proc : recovery[p].step = "refill" => events = Empty

Counted == recoveries = 0 => \A p \in Proc : recovery[p].step = "none"

LEMMA RaceNoted ==
  ASSUME NoteRace
  PROVE  /\ seen \subseteq seen' /\ ("overlap" \in seen' <=> "overlap" \in seen)
         /\ events' = events \/ ((\E p \in Proc : recovery[p].step = "refill") => seen' # {})
BY DEF NoteRace

\* What a step other than those of a recovery leaves.
LEMMA NoRecoveryStep ==
  ASSUME TypeOK, EndsOK, [Next]_vars, \A p \in Proc : ~ Recover(p) /\ ~ Restore(p) /\ ~ Refill(p)
  PROVE  /\ UNCHANGED <<recovery, recoveries>>
         /\ seen \subseteq seen' /\ ("overlap" \in seen' <=> "overlap" \in seen)
         /\ \/ events' = events
            \/ (\E p \in Proc : recovery[p].step = "refill") => seen' # {}
<1>1. CASE UNCHANGED vars \/ Tick \/ Snapshot
  BY <1>1 DEF vars, Tick, Snapshot
<1>2. CASE \E p \in Proc, type \in Logged : Log(p, type)
  BY <1>2, LogEffect
<1>3. CASE \E p \in Proc, c \in CommentId : AddComment(p, c)
  BY <1>3, AddCommentEffect
<1>4. CASE \E p \in Proc : CommentAppended(p)
  BY <1>4, CommentAppendedEffect
<1>5. CASE \E p \in Proc : EventAppended(p)
  <2>1. NoteRace /\ UNCHANGED <<recovery, recoveries>>
    BY <1>5, EventAppendedEffect
  <2> QED BY <2>1, RaceNoted
<1>6. CASE \E p \in Proc : AppendFails(p)
  <2>1. NoteRace /\ UNCHANGED <<recovery, recoveries>>
    BY <1>6, AppendFailsEffect
  <2> QED BY <2>1, RaceNoted
<1> QED BY <1>1, <1>2, <1>3, <1>4, <1>5, <1>6 DEF Next

LEMMA NextRecovery ==
  TypeOK /\ EndsOK /\ OneAtATime /\ Truncated /\ Counted /\ [Next]_vars =>
    OneAtATime' /\ Truncated' /\ Counted'
<1> SUFFICES ASSUME TypeOK, EndsOK, OneAtATime, Truncated, Counted, [Next]_vars
             PROVE  OneAtATime' /\ Truncated' /\ Counted'
  OBVIOUS
<1>1. recovery \in [Proc -> [step : {"none", "restore", "refill"}, from : EventFile]]
  BY DEF TypeOK
<1>2. ASSUME NEW p \in Proc, Recover(p) PROVE OneAtATime' /\ Truncated' /\ Counted'
  <2>1. /\ recovery' = [recovery EXCEPT ![p] = [step |-> "restore", from |-> snap]]
        /\ recovery[p].step = "none" /\ events' = events
    BY <1>2, RecoveryEffect
  <2>2. \A q \in Proc : recovery'[q] = IF q = p THEN [step |-> "restore", from |-> snap]
                                       ELSE recovery[q]
    BY <1>1, <2>1
  <2>3. /\ seen \subseteq seen'
        /\ "overlap" \notin seen' => \A q \in Proc : recovery[q].step = "none"
    BY <1>2 DEF Recover
  <2>4. OneAtATime'
    BY <2>2, <2>3 DEF OneAtATime
  <2>5. Truncated'
    BY <2>1, <2>2, <2>3 DEF Truncated
  <2>6. Counted'
    <3>1. recoveries \in Nat /\ recoveries' = recoveries + 1
      BY <1>2, RecoveryEffect DEF TypeOK
    <3> QED BY <3>1 DEF Counted
  <2> QED BY <2>4, <2>5, <2>6
<1>3. ASSUME NEW p \in Proc, Restore(p) PROVE OneAtATime' /\ Truncated' /\ Counted'
  <2>1. /\ recovery' = [recovery EXCEPT ![p].step = "refill"]
        /\ recovery[p].step = "restore" /\ events' = Empty
        /\ UNCHANGED <<seen, recoveries>>
    BY <1>3, RecoveryEffect
  <2>2. \A q \in Proc : recovery[q].step # "none" <=> recovery'[q].step # "none"
    BY <1>1, <2>1
  <2> QED BY <2>1, <2>2 DEF OneAtATime, Truncated, Counted
<1>4. ASSUME NEW p \in Proc, Refill(p) PROVE OneAtATime' /\ Truncated' /\ Counted'
  <2>1. /\ recovery' = [recovery EXCEPT ![p] = NoRecovery]
        /\ recovery[p].step = "refill" /\ UNCHANGED <<seen, recoveries>>
    BY <1>4, RecoveryEffect
  <2>2. \A q \in Proc : /\ q = p => recovery'[q].step = "none"
                        /\ q # p => recovery'[q] = recovery[q]
    BY <1>1, <2>1 DEF NoRecovery
  <2>3. OneAtATime'
    BY <2>1, <2>2 DEF OneAtATime
  <2>4. "overlap" \notin seen' => \A q \in Proc : recovery'[q].step = "none"
    BY <2>1, <2>2 DEF OneAtATime
  <2>5. Truncated'
    BY <2>4 DEF Truncated
  <2>6. Counted'
    BY <2>1 DEF Counted
  <2> QED BY <2>3, <2>5, <2>6
<1>5. CASE \A p \in Proc : ~ Recover(p) /\ ~ Restore(p) /\ ~ Refill(p)
  <2>1. /\ UNCHANGED <<recovery, recoveries>> /\ seen \subseteq seen'
        /\ "overlap" \in seen' <=> "overlap" \in seen
        /\ \/ events' = events
           \/ (\E p \in Proc : recovery[p].step = "refill") => seen' # {}
    BY <1>5, NoRecoveryStep
  <2>2. OneAtATime'
    BY <2>1 DEF OneAtATime
  <2>3. Truncated'
    BY <2>1 DEF Truncated
  <2> QED BY <2>1, <2>2, <2>3 DEF Counted
<1> QED BY <1>2, <1>3, <1>4, <1>5

-----------------------------------------------------------------------------
\* The events as they are, at the snapshot, and as recoveries will restore them.
Sources == {events, snap} \cup {recovery[p].from : p \in Proc}

\* Chronological, of any of these.
InOrder(f) ==
  \A i, j \in DOMAIN f.lines :
    LET e == f.lines[i]
        l == f.lines[j]
    IN i < j /\ e # Bad /\ l # Bad /\ e.at > l.at => l.late

\* The events of g are later than those of f, or were overtaken.
Behind(f, g) ==
  \A e \in SomeText(f), l \in SomeText(g) : e # Bad /\ l # Bad /\ e.at > l.at => l.late

\* No event of f is later than the time `when`.
UpTo(f, when) == \A t \in SomeText(f) : t # Bad => t.at <= when

\* Nothing is from the future, and an event that is to be appended is as late as
\* all that are there or may come back, unless it is late.
NothingAhead ==
  /\ \A f \in Sources : UpTo(f, now)
  /\ \A p \in Proc : IsEvent(job[p]) =>
       /\ job[p].at <= now
       /\ ~ job[p].late => \A f \in Sources : UpTo(f, job[p].at)

\* What is in the file before a refill can stick out behind it.
Chronology ==
  /\ NothingAhead
  /\ "overlap" \notin seen =>
       /\ \A f \in Sources : InOrder(f)
       /\ \A p \in Proc : recovery[p].step = "refill" => Behind(recovery[p].from, events)

LEMMA SourcesTyped == TypeOK => Sources \subseteq EventFile
BY DEF TypeOK, Sources

LEMMA TextTyped ==
  ASSUME NEW f \in EventFile
  PROVE  \A t \in SomeText(f) : t # Bad => t \in AuditEvent /\ t.at \in Nat
<1>1. f.lines \in Seq(AuditEvent \cup {Bad})
  BY DEF EventFile
<1>2. \A t \in SomeText(f) : t \in AuditEvent \cup {Bad}
  BY <1>1, ElementOfSeq, LenProperties DEF SomeText
<1> QED BY <1>2 DEF AuditEvent

LEMMA EmptyOrdered == SomeText(Empty) = {} /\ InOrder(Empty) /\ \A when : UpTo(Empty, when)
<1>1. DOMAIN Empty.lines = {}
  BY DEF Empty
<1> QED BY <1>1 DEF SomeText, InOrder, UpTo

\* The order through a refill.
LEMMA PiecedOrder ==
  ASSUME NEW c \in EventFile, NEW s \in EventFile, NEW g \in EventFile, Pieced(c, s, g)
  PROVE  /\ SomeText(g) \subseteq SomeText(c) \cup SomeText(s) \cup {Bad}
         /\ InOrder(c) /\ InOrder(s) /\ Behind(c, s) => InOrder(g)
<1>1. PICK n \in Nat, k \in Nat : \A i \in DOMAIN g.lines :
        \/ g.lines[i] = Bad
        \/ i <= n /\ i \in DOMAIN c.lines /\ g.lines[i] = c.lines[i]
        \/ i > n /\ i - n + k \in DOMAIN s.lines /\ g.lines[i] = s.lines[i - n + k]
  BY DEF Pieced
<1>2. SomeText(g) \subseteq SomeText(c) \cup SomeText(s) \cup {Bad}
  BY <1>1 DEF SomeText
<1>3. ASSUME InOrder(c), InOrder(s), Behind(c, s), NEW i \in DOMAIN g.lines,
             NEW j \in DOMAIN g.lines, i < j, g.lines[i] # Bad, g.lines[j] # Bad,
             g.lines[i].at > g.lines[j].at
      PROVE  g.lines[j].late
  <2>1. i \in Int /\ j \in Int
    <3>1. g.lines \in Seq(AuditEvent \cup {Bad})
      BY DEF EventFile
    <3>2. DOMAIN g.lines = 1 .. Len(g.lines) /\ Len(g.lines) \in Nat
      BY <3>1, LenProperties
    <3> QED BY <3>2
  <2>2. CASE j <= n
    <3>1. /\ i \in DOMAIN c.lines /\ g.lines[i] = c.lines[i]
          /\ j \in DOMAIN c.lines /\ g.lines[j] = c.lines[j]
      <4>1. i <= n /\ ~ (i > n) /\ ~ (j > n)
        BY <1>3, <2>1, <2>2
      <4> QED BY <1>1, <1>3, <4>1
    <3> QED BY <1>3, <3>1 DEF InOrder
  <2>3. CASE i > n
    <3>1. /\ i - n + k \in DOMAIN s.lines /\ g.lines[i] = s.lines[i - n + k]
          /\ j - n + k \in DOMAIN s.lines /\ g.lines[j] = s.lines[j - n + k]
      <4>1. j > n /\ ~ (i <= n) /\ ~ (j <= n)
        BY <1>3, <2>1, <2>3
      <4> QED BY <1>1, <1>3, <2>3, <4>1
    <3>2. i - n + k < j - n + k
      BY <1>3, <2>1
    <3> QED BY <1>3, <3>1, <3>2 DEF InOrder
  <2>4. CASE i <= n /\ j > n
    <3>1. g.lines[i] \in SomeText(c) /\ g.lines[j] \in SomeText(s)
      <4>1. ~ (i > n) /\ ~ (j <= n)
        BY <2>1, <2>4
      <4> QED BY <1>1, <1>3, <4>1 DEF SomeText
    <3> QED BY <1>3, <3>1 DEF Behind
  <2> QED BY <2>1, <2>2, <2>3, <2>4
<1> QED BY <1>2, <1>3 DEF InOrder

LEMMA OrderGrows ==
  ASSUME NEW f \in EventFile, NEW g \in EventFile, NEW t \in AuditEvent \cup {Bad},
         NEW whole \in BOOLEAN, Grown(f, g, t, whole), InOrder(f),
         t # Bad /\ ~ t.late => UpTo(f, t.at)
  PROVE  InOrder(g)
<1> DEFINE n == Len(f.lines)
<1>1. /\ f.lines \in Seq(AuditEvent \cup {Bad}) /\ g.lines \in Seq(AuditEvent \cup {Bad})
      /\ f.open \in BOOLEAN
  BY DEF EventFile
<1>2. n \in Nat /\ DOMAIN f.lines = 1 .. n /\ DOMAIN g.lines = 1 .. Len(g.lines)
  BY <1>1, LenProperties
<1>3. \A e \in AuditEvent : e.at \in Nat /\ e.late \in BOOLEAN
  BY DEF AuditEvent
<1>4. \A i \in 1 .. n : f.lines[i] \in AuditEvent \cup {Bad}
  BY <1>1, <1>2, ElementOfSeq
<1>5. SUFFICES ASSUME NEW i \in DOMAIN g.lines, NEW j \in DOMAIN g.lines, i < j,
                      g.lines[i] # Bad, g.lines[j] # Bad, g.lines[i].at > g.lines[j].at
               PROVE  g.lines[j].late
  BY DEF InOrder
<1> HIDE DEF n
<1>6. CASE ~ f.open
  <2>1. /\ Len(g.lines) = n + 1 /\ g.lines[n + 1] = t
        /\ \A k \in 1 .. n : g.lines[k] = f.lines[k]
    BY <1>6 DEF Grown, n
  <2>2. i \in 1 .. n + 1 /\ j \in 1 .. n + 1 /\ i \in 1 .. n
    BY <1>2, <1>5, <2>1
  <2>3. CASE j = n + 1
    <3>1. t # Bad /\ f.lines[i] \in SomeText(f) /\ f.lines[i] # Bad /\ f.lines[i].at > t.at
      BY <1>2, <1>5, <2>1, <2>2, <2>3 DEF SomeText
    <3>2. ~ (f.lines[i].at <= t.at)
      BY <1>3, <1>4, <2>2, <3>1
    <3> QED BY <2>1, <2>3, <3>1, <3>2 DEF UpTo
  <2>4. CASE j # n + 1
    <3>1. j \in 1 .. n
      BY <1>2, <2>2, <2>4
    <3> QED BY <1>2, <1>5, <2>1, <2>2, <3>1 DEF InOrder
  <2> QED BY <2>3, <2>4
<1>7. CASE f.open
  <2>1. /\ Len(g.lines) = n /\ g.lines[n] = Bad
        /\ \A k \in 1 .. n - 1 : g.lines[k] = f.lines[k]
    BY <1>7 DEF Grown, n
  <2>2. i \in 1 .. n /\ j \in 1 .. n /\ i # n /\ j # n
    BY <1>2, <1>5, <2>1
  <2>3. i \in 1 .. n - 1 /\ j \in 1 .. n - 1
    BY <1>2, <2>2
  <2> QED BY <1>2, <1>5, <2>1, <2>2, <2>3 DEF InOrder
<1> QED BY <1>1, <1>6, <1>7

LEMMA UpToGrows ==
  ASSUME NEW f, NEW g, NEW t, NEW whole, Grown(f, g, t, whole), f.open \in BOOLEAN,
         NEW when, UpTo(f, when), t # Bad => t.at <= when
  PROVE  UpTo(g, when)
BY DEF Grown, UpTo

LEMMA JobGiven ==
  ASSUME TypeOK, Chronology, NEW p \in Proc, NEW t \in Text,
         job' = [job EXCEPT ![p] = t], IsEvent(t) => t.at = now,
         UNCHANGED <<events, snap, recovery, seen, now>>
  PROVE  Chronology'
<1>1. \A q \in Proc : job'[q] = IF q = p THEN t ELSE job[q]
  BY DEF TypeOK
<1>2. now \in Nat /\ Sources' = Sources
  BY DEF TypeOK, Sources
<1>3. ASSUME NEW q \in Proc, IsEvent(job'[q])
      PROVE  /\ job'[q].at <= now
             /\ ~ job'[q].late => \A f \in Sources : UpTo(f, job'[q].at)
  <2>1. CASE q = p
    BY <1>1, <1>2, <1>3, <2>1 DEF Chronology, NothingAhead
  <2>2. CASE q # p
    BY <1>1, <1>3, <2>2 DEF Chronology, NothingAhead
  <2> QED BY <2>1, <2>2
<1>4. NothingAhead'
  BY <1>2, <1>3 DEF Chronology, NothingAhead
<1> QED BY <1>2, <1>4 DEF Chronology

\* An event behind what a recovery will restore.
LEMMA BehindGrows ==
  ASSUME NEW c \in EventFile, NEW f \in EventFile, NEW g, NEW t \in AuditEvent \cup {Bad},
         SomeText(g) \subseteq SomeText(f) \cup {t, Bad}, Behind(c, f),
         t # Bad /\ ~ t.late => UpTo(c, t.at)
  PROVE  Behind(c, g)
<1> SUFFICES ASSUME NEW e \in SomeText(c), NEW l \in SomeText(g),
                    e # Bad, l # Bad, e.at > l.at
             PROVE  l.late
  BY DEF Behind
<1>1. CASE l \in SomeText(f)
  BY <1>1 DEF Behind
<1>2. CASE l = t
  <2>1. e.at \in Nat /\ l.at \in Nat
    BY <1>2, TextTyped DEF AuditEvent
  <2>2. ~ (e.at <= l.at)
    BY <2>1
  <2> QED BY <1>2, <2>2 DEF UpTo
<1> QED BY <1>1, <1>2

LEMMA EventGiven ==
  ASSUME TypeOK, Chronology, NEW p \in Proc, job[p] \in AuditEvent,
         events' \in EventFile, NEW t \in {job[p], Bad}, NEW whole \in BOOLEAN,
         Grown(events, events', t, whole), Done(p, TRUE),
         "overlap" \in seen' <=> "overlap" \in seen, UNCHANGED <<snap, recovery, now>>
  PROVE  Chronology'
<1>1. events \in EventFile /\ events.open \in BOOLEAN /\ now \in Nat
  BY DEF TypeOK, EventFile
<1>2. t # Bad => t = job[p] /\ t.at <= now /\ (~ t.late => \A f \in Sources : UpTo(f, t.at))
  BY TextKinds DEF Chronology, NothingAhead
<1>3. events \in Sources /\ \A f \in Sources' : f \in Sources \/ f = events'
  BY DEF Sources
<1>4. \A f \in Sources' : UpTo(f, now)
  <2>1. UpTo(events', now)
    BY <1>1, <1>2, <1>3, UpToGrows DEF Chronology, NothingAhead
  <2> QED BY <1>3, <2>1 DEF Chronology, NothingAhead
<1>5. ASSUME NEW q \in Proc, IsEvent(job'[q])
      PROVE  job'[q].at <= now /\ job'[q].late
  <2>1. q # p
    <3>1. job'[p] = Bad
      BY DoneFacts
    <3>2. ~ IsEvent(job'[p])
      BY <3>1, TextKinds
    <3> QED BY <1>5, <3>2
  <2>2. IsEvent(job[q]) /\ job'[q].at = job[q].at /\ job'[q].late
    BY <1>5, <2>1, DoneFacts
  <2> QED BY <2>2 DEF Chronology, NothingAhead
<1>6. NothingAhead'
  BY <1>4, <1>5 DEF NothingAhead
<1>7. ASSUME "overlap" \notin seen'
      PROVE  /\ \A f \in Sources' : InOrder(f)
             /\ \A q \in Proc : recovery'[q].step = "refill" =>
                  Behind(recovery'[q].from, events')
  <2>1. InOrder(events')
    BY <1>1, <1>2, <1>3, <1>7, OrderGrows DEF Chronology
  <2>2. SomeText(events') \subseteq SomeText(events) \cup {t, Bad}
    BY <1>1 DEF Grown
  <2>3. ASSUME NEW q \in Proc, recovery[q].step = "refill"
        PROVE  Behind(recovery[q].from, events')
    <3>1. recovery[q].from \in Sources /\ recovery[q].from \in EventFile
      BY DEF Sources, TypeOK
    <3>2. Behind(recovery[q].from, events)
      BY <1>7, <2>3 DEF Chronology
    <3> QED BY <1>1, <1>2, <2>2, <3>1, <3>2, BehindGrows
  <2> QED BY <1>3, <1>7, <2>1, <2>3 DEF Chronology
<1> QED BY <1>6, <1>7 DEF Chronology

LEMMA JobDropped ==
  ASSUME TypeOK, Chronology, NEW p \in Proc, Done(p, FALSE),
         "overlap" \in seen' <=> "overlap" \in seen, UNCHANGED <<events, snap, recovery, now>>
  PROVE  Chronology'
<1>1. ASSUME NEW q \in Proc, IsEvent(job'[q])
      PROVE  job'[q] = job[q]
  <2>1. q # p
    <3>1. job'[p] = Bad
      BY DoneFacts
    <3>2. ~ IsEvent(job'[p])
      BY <3>1, TextKinds
    <3> QED BY <1>1, <3>2
  <2> QED BY <1>1, <2>1, DoneFacts
<1>2. Sources' = Sources
  BY DEF Sources
<1> QED BY <1>1, <1>2 DEF Chronology, NothingAhead

\* A step that makes up no events: the sources are old ones, an empty file, or put
\* together from old ones.
LEMMA SourcesKept ==
  ASSUME TypeOK, NothingAhead, UNCHANGED <<job, now>>,
         \A f \in Sources' : \A t \in SomeText(f) :
           t = Bad \/ \E g \in Sources : t \in SomeText(g)
  PROVE  NothingAhead'
BY DEF NothingAhead, UpTo

LEMMA RecoveryChronology ==
  ASSUME TypeOK, EndsOK, OneAtATime, Chronology, NEW p \in Proc,
         Recover(p) \/ Restore(p) \/ Refill(p)
  PROVE  Chronology'
<1>1. recovery \in [Proc -> [step : {"none", "restore", "refill"}, from : EventFile]]
  BY DEF TypeOK
<1>2. CASE Recover(p)
  <2>1. /\ recovery' = [recovery EXCEPT ![p] = [step |-> "restore", from |-> snap]]
        /\ UNCHANGED <<events, snap, job, now>>
    BY <1>2, RecoveryEffect
  <2>2. \A q \in Proc : recovery'[q] = IF q = p THEN [step |-> "restore", from |-> snap]
                                       ELSE recovery[q]
    BY <1>1, <2>1
  <2>3. \A f \in Sources' : f \in Sources
    BY <2>1, <2>2 DEF Sources
  <2>4. NothingAhead'
    BY <2>1, <2>3, SourcesKept DEF Chronology
  <2>5. "overlap" \notin seen' => "overlap" \notin seen
    BY <1>2 DEF Recover
  <2> QED BY <2>1, <2>2, <2>3, <2>4, <2>5 DEF Chronology
<1>3. CASE Restore(p)
  <2>1. /\ recovery' = [recovery EXCEPT ![p].step = "refill"]
        /\ events' = Empty /\ UNCHANGED <<snap, job, now, seen>>
    BY <1>3, RecoveryEffect
  <2>2. \A q \in Proc : recovery'[q].from = recovery[q].from
    BY <1>1, <2>1
  <2>3. \A f \in Sources' : f \in Sources \/ f = Empty
    BY <2>1, <2>2 DEF Sources
  <2>4. NothingAhead'
    BY <2>1, <2>3, SourcesKept, EmptyOrdered DEF Chronology
  <2>5. \A f : Behind(f, Empty)
    BY EmptyOrdered DEF Behind
  <2> QED BY <2>1, <2>3, <2>4, <2>5, EmptyOrdered DEF Chronology
<1>4. CASE Refill(p)
  <2> DEFINE c == recovery[p].from
  <2>1. /\ recovery' = [recovery EXCEPT ![p] = NoRecovery]
        /\ recovery[p].step = "refill" /\ events' \in EventFile
        /\ Pieced(c, events, events') /\ UNCHANGED <<snap, job, now, seen>>
    BY <1>4, RecoveryEffect
  <2>2. \A q \in Proc : /\ q = p => recovery'[q].step = "none" /\ recovery'[q].from = Empty
                        /\ q # p => recovery'[q] = recovery[q]
    BY <1>1, <2>1 DEF NoRecovery
  <2>3. /\ c \in EventFile /\ events \in EventFile /\ c \in Sources /\ events \in Sources
        /\ \A f \in Sources' : f \in Sources \/ f = Empty \/ f = events'
    BY <2>1, <2>2 DEF TypeOK, Sources
  <2> HIDE DEF c
  <2>4. /\ SomeText(events') \subseteq SomeText(c) \cup SomeText(events) \cup {Bad}
        /\ InOrder(c) /\ InOrder(events) /\ Behind(c, events) => InOrder(events')
    BY <2>1, <2>3, PiecedOrder
  <2>5. NothingAhead'
    BY <2>1, <2>3, <2>4, SourcesKept, EmptyOrdered DEF Chronology
  <2>6. ASSUME "overlap" \notin seen
        PROVE  /\ \A f \in Sources' : InOrder(f)
               /\ \A q \in Proc : recovery'[q].step = "none"
    <3>1. InOrder(c) /\ InOrder(events) /\ Behind(c, events)
      BY <2>1, <2>3, <2>6 DEF Chronology, c
    <3>2. \A q \in Proc : q # p => recovery[q].step = "none"
      BY <2>1, <2>6 DEF OneAtATime
    <3> QED BY <2>2, <2>3, <2>4, <2>6, <3>1, <3>2, EmptyOrdered DEF Chronology
  <2> QED BY <2>1, <2>5, <2>6 DEF Chronology
<1> QED BY <1>2, <1>3, <1>4

LEMMA NextChronology ==
  TypeOK /\ EndsOK /\ OneAtATime /\ Chronology /\ [Next]_vars => Chronology'
<1> SUFFICES ASSUME TypeOK, EndsOK, OneAtATime, Chronology, [Next]_vars PROVE Chronology'
  OBVIOUS
<1>1. CASE UNCHANGED vars
  <2>1. Sources' = Sources
    BY <1>1 DEF vars, Sources
  <2> QED BY <1>1, <2>1 DEF Chronology, NothingAhead, vars
<1>2. CASE Tick
  <2>1. /\ now \in Nat /\ now' = now + 1 /\ now <= now'
        /\ UNCHANGED <<events, snap, recovery, seen, job>>
    BY <1>2 DEF Tick, TypeOK
  <2>2. \A f \in EventFile : UpTo(f, now) => UpTo(f, now')
    BY <2>1, TextTyped DEF UpTo
  <2>3. \A p \in Proc : IsEvent(job[p]) /\ job[p].at <= now => job[p].at <= now'
    <3>1. \A p \in Proc : IsEvent(job[p]) => job[p].at \in Nat
      BY TextKinds DEF TypeOK, AuditEvent
    <3> QED BY <2>1, <3>1
  <2>4. Sources' = Sources /\ Sources \subseteq EventFile
    BY <2>1, SourcesTyped DEF Sources
  <2>5. NothingAhead'
    BY <2>1, <2>2, <2>3, <2>4 DEF Chronology, NothingAhead
  <2> QED BY <2>1, <2>4, <2>5 DEF Chronology
<1>3. CASE Snapshot
  <2>1. snap' = events /\ UNCHANGED <<events, recovery, seen, job, now>>
    BY <1>3 DEF Snapshot
  <2>2. \A f \in Sources' : f \in Sources
    BY <2>1 DEF Sources
  <2>3. NothingAhead'
    BY <2>1, <2>2 DEF Chronology, NothingAhead
  <2> QED BY <2>1, <2>2, <2>3 DEF Chronology
<1>4. CASE \E p \in Proc : Recover(p) \/ Restore(p) \/ Refill(p)
  BY <1>4, RecoveryChronology
<1>5. ASSUME NEW p \in Proc, NEW type \in Logged, Log(p, type) PROVE Chronology'
  <2>1. NewEvent(type, NoComment) \in Text /\ NewEvent(type, NoComment).at = now
    BY <1>5, LogEffect, TextKinds DEF NewEvent
  <2> QED BY <1>5, <2>1, LogEffect, JobGiven
<1>6. ASSUME NEW p \in Proc, NEW c \in CommentId, AddComment(p, c) PROVE Chronology'
  <2>1. [id |-> c, at |-> now] \in Text /\ ~ IsEvent([id |-> c, at |-> now])
    BY <1>6, AddCommentEffect, TextKinds
  <2> QED BY <1>6, <2>1, AddCommentEffect, JobGiven
<1>7. ASSUME NEW p \in Proc, CommentAppended(p) PROVE Chronology'
  <2>1. /\ NewEvent("Commented", job[p].id) \in Text
        /\ NewEvent("Commented", job[p].id).at = now
    BY <1>7, CommentAppendedEffect, TextKinds DEF NewEvent
  <2> QED BY <1>7, <2>1, CommentAppendedEffect, JobGiven
<1>8. ASSUME NEW p \in Proc, EventAppended(p) PROVE Chronology'
  <2>1. "overlap" \in seen' <=> "overlap" \in seen
    BY <1>8, EventAppendedEffect, RaceNoted
  <2> QED BY <1>8, <2>1, EventAppendedEffect, EventGiven
<1>9. ASSUME NEW p \in Proc, AppendFails(p) PROVE Chronology'
  <2>1. UNCHANGED <<snap, recovery, now>> /\ ("overlap" \in seen' <=> "overlap" \in seen)
    BY <1>9, AppendFailsEffect, RaceNoted
  <2>2. CASE events' = events
    <3>1. Done(p, FALSE)
      BY <1>9, <2>2, AppendFailsEffect
    <3> QED BY <2>1, <2>2, <3>1, JobDropped
  <2>3. CASE events' # events
    <3>1. /\ job[p] \in AuditEvent /\ events' \in EventFile /\ Done(p, TRUE)
          /\ Grown(events, events', job[p], FALSE) \/ Grown(events, events', Bad, FALSE)
      BY <1>9, <2>3, AppendFailsEffect DEF Spoilt
    <3> QED BY <2>1, <3>1, EventGiven
  <2> QED BY <2>2, <2>3
<1> QED BY <1>1, <1>2, <1>3, <1>4, <1>5, <1>6, <1>7, <1>8, <1>9 DEF Next

-----------------------------------------------------------------------------
\* The comments that a set of events is about, and those in a set of comments.
Subjects(T) == {c \in CommentId : \E t \in T : t # Bad /\ t.comment = c}

Ids(T) == {c \in CommentId : \E t \in T : t # Bad /\ t.id = c}

\* The comments with an event that is to be appended.
Pending == {c \in CommentId : \E p \in Proc : IsEvent(job[p]) /\ job[p].comment = c}

\* The events that are there or may come back.
Heard == UNION {SomeText(f) : f \in Sources}

\* The comments that are announced, may be so after a recovery or are about to be,
\* and are not in a line that will stay.
Doubtful == (Subjects(Heard) \cup Pending) \ Ids(SafeText(comments))

\* The comments that no line announces which will stay, nor one to come.
Unheard == Ids(SomeText(comments)) \ (Subjects(SafeText(events)) \cup Pending)

\* What the failed writes account for: a missing newline, which will spoil
\* another line, is charged in advance.
Charged ==
  /\ Cardinality(Doubtful) + (IF comments.open THEN 1 ELSE 0) <= fails
  /\ recoveries = 0 =>
       Cardinality(Unheard) + (IF events.open THEN 1 ELSE 0) <= 2 * fails

\* Nothing of f is bad, and its end is not open.
Sound(f) == ~ f.open /\ Bad \notin SomeText(f)

\* Without failures the comments are sound, and all events too if nothing falls
\* into a recovery.
Clean ==
  /\ fails = 0 => Sound(comments)
  /\ fails = 0 /\ seen = {} => \A f \in Sources : Sound(f)

LEMMA GrownTexts ==
  ASSUME NEW f, NEW g, NEW t, NEW whole \in BOOLEAN, f.open \in BOOLEAN,
         Grown(f, g, t, whole)
  PROVE  /\ SomeText(g) \subseteq SomeText(f) \cup {t, Bad}
         /\ SafeText(f) \subseteq SafeText(g)
         /\ g.open = ~ whole
         /\ whole /\ ~ f.open => t \in SafeText(g) /\ SomeText(g) = SomeText(f) \cup {t}
BY DEF Grown

LEMMA SpoiltTexts ==
  ASSUME NEW f, NEW g, NEW t, f.open \in BOOLEAN, Spoilt(f, g, t)
  PROVE  /\ SomeText(g) \subseteq SomeText(f) \cup {t, Bad}
         /\ SafeText(f) \subseteq SafeText(g)
<1>1. CASE g = f
  BY <1>1
<1>2. CASE Grown(f, g, t, FALSE)
  BY <1>2, GrownTexts
<1>3. CASE Grown(f, g, Bad, FALSE)
  <2>1. /\ SomeText(g) \subseteq SomeText(f) \cup {Bad, Bad}
        /\ SafeText(f) \subseteq SafeText(g)
    BY <1>3, GrownTexts
  <2> QED BY <2>1
<1> QED BY <1>1, <1>2, <1>3 DEF Spoilt

\* What a step adds to the events, unless it recovers, is all it adds to Heard.
LEMMA HeardGrows ==
  ASSUME NEW t, UNCHANGED <<snap, recovery>>,
         SomeText(events') \subseteq SomeText(events) \cup {t, Bad}
  PROVE  Heard' \subseteq Heard \cup {t, Bad}
<1>1. \A f \in Sources' : f \in Sources \/ f = events'
  BY DEF Sources
<1>2. \A f \in Sources : SomeText(f) \subseteq Heard
  BY DEF Heard
<1>3. events \in Sources
  BY DEF Sources
<1>4. \A f \in Sources' : SomeText(f) \subseteq Heard \cup {t, Bad}
  BY <1>1, <1>2, <1>3
<1>5. Heard' = UNION {SomeText(f) : f \in Sources'}
  BY DEF Heard, SomeText
<1> QED BY <1>4, <1>5

\* A recovery makes up no events.
LEMMA RecoverySources ==
  ASSUME TypeOK, EndsOK, NEW p \in Proc, Recover(p) \/ Restore(p) \/ Refill(p)
  PROVE  /\ \A f \in Sources' : f \in Sources \/ f = Empty \/ f = events'
         /\ Heard' \subseteq Heard \cup {Bad}
<1>1. recovery \in [Proc -> [step : {"none", "restore", "refill"}, from : EventFile]]
  BY DEF TypeOK
<1>2. recovery[p].from \in Sources /\ events \in Sources /\ snap \in Sources
  BY DEF Sources
<1>3. /\ \A f \in Sources' : f \in Sources \/ f = Empty \/ f = events'
      /\ SomeText(events') \subseteq
           SomeText(recovery[p].from) \cup SomeText(events) \cup {Bad}
  <2>1. CASE Recover(p)
    <3>1. /\ recovery' = [recovery EXCEPT ![p] = [step |-> "restore", from |-> snap]]
          /\ UNCHANGED <<events, snap>>
      BY <2>1, RecoveryEffect
    <3>2. \A q \in Proc : recovery'[q].from \in {snap, recovery[q].from}
      BY <1>1, <3>1
    <3> QED BY <3>1, <3>2 DEF Sources
  <2>2. CASE Restore(p)
    <3>1. /\ recovery' = [recovery EXCEPT ![p].step = "refill"]
          /\ events' = Empty /\ snap' = snap
      BY <2>2, RecoveryEffect
    <3>2. \A q \in Proc : recovery'[q].from = recovery[q].from
      BY <1>1, <3>1
    <3> QED BY <3>1, <3>2, EmptyOrdered DEF Sources
  <2>3. CASE Refill(p)
    <3>1. /\ recovery' = [recovery EXCEPT ![p] = NoRecovery] /\ snap' = snap
          /\ events' \in EventFile /\ Pieced(recovery[p].from, events, events')
      BY <2>3, RecoveryEffect
    <3>2. \A q \in Proc : recovery'[q].from \in {Empty, recovery[q].from}
      BY <1>1, <3>1 DEF NoRecovery
    <3>3. \A f \in Sources' : f \in Sources \/ f = Empty \/ f = events'
      BY <3>1, <3>2 DEF Sources
    <3>4. recovery[p].from \in EventFile /\ events \in EventFile
      BY DEF TypeOK
    <3> QED BY <3>1, <3>3, <3>4, PiecedOrder
  <2> QED BY <2>1, <2>2, <2>3
<1>4. \A f \in Sources : SomeText(f) \subseteq Heard
  BY DEF Heard
<1>5. \A f \in Sources' : SomeText(f) \subseteq Heard \cup {Bad}
  BY <1>2, <1>3, <1>4, EmptyOrdered
<1>6. Heard' = UNION {SomeText(f) : f \in Sources'}
  BY DEF Heard, SomeText
<1> QED BY <1>3, <1>5, <1>6

LEMMA SubjectsGrow ==
  ASSUME NEW T, NEW U
  PROVE  /\ T \subseteq U => Subjects(T) \subseteq Subjects(U)
         /\ \A t : U \subseteq T \cup {t, Bad} =>
              Subjects(U) \subseteq Subjects(T) \cup {t.comment}
         /\ \A t \in U : t # Bad /\ t.comment \in CommentId => t.comment \in Subjects(U)
BY DEF Subjects

LEMMA IdsGrow ==
  ASSUME NEW T, NEW U
  PROVE  /\ T \subseteq U => Ids(T) \subseteq Ids(U)
         /\ \A t : U \subseteq T \cup {t, Bad} => Ids(U) \subseteq Ids(T) \cup {t.id}
         /\ \A t \in U : t # Bad /\ t.id \in CommentId => t.id \in Ids(U)
BY DEF Ids

LEMMA Counting ==
  ASSUME NEW A, NEW B, A \subseteq CommentId, B \subseteq CommentId
  PROVE  /\ Cardinality(A) \in Nat /\ Cardinality(B) \in Nat
         /\ B \subseteq A => Cardinality(B) <= Cardinality(A)
         /\ \A c : B \subseteq A \cup {c} => Cardinality(B) <= Cardinality(A) + 1
<1>1. IsFiniteSet(A) /\ IsFiniteSet(B)
  BY CommentIdAssumption, FS_Subset
<1>2. Cardinality(A) \in Nat /\ Cardinality(B) \in Nat
  BY <1>1, FS_CardinalityType
<1>3. B \subseteq A => Cardinality(B) <= Cardinality(A)
  BY <1>1, FS_Subset
<1>4. ASSUME NEW c, B \subseteq A \cup {c}
      PROVE  Cardinality(B) <= Cardinality(A) + 1
  <2>1. /\ IsFiniteSet(A \cup {c})
        /\ Cardinality(A \cup {c}) = Cardinality(A)
           \/ Cardinality(A \cup {c}) = Cardinality(A) + 1
    BY <1>1, FS_AddElement
  <2>2. Cardinality(B) <= Cardinality(A \cup {c})
    BY <1>4, <2>1, FS_Subset
  <2> QED BY <1>2, <2>1, <2>2
<1> QED BY <1>2, <1>3, <1>4

LEMMA SetsOfComments == Doubtful \subseteq CommentId /\ Unheard \subseteq CommentId
BY DEF Doubtful, Unheard, Subjects, Ids, Pending

\* How the count holds on: what a step adds to a set, and what it charges.
LEMMA ChargedStep ==
  ASSUME TypeOK, Charged,
         \/ Doubtful' \subseteq Doubtful /\ (comments'.open => comments.open \/ fails' = fails + 1)
         \/ /\ ~ comments'.open /\ (comments.open \/ fails' = fails + 1)
            /\ \E c : Doubtful' \subseteq Doubtful \cup {c},
         recoveries' = 0 =>
           /\ recoveries = 0
           /\ \/ Unheard' \subseteq Unheard /\ (events'.open => events.open \/ fails' = fails + 1)
              \/ fails' = fails + 1 /\ \E c : Unheard' \subseteq Unheard \cup {c}
              \/ events.open /\ ~ events'.open /\ \E c : Unheard' \subseteq Unheard \cup {c},
         fails' = fails \/ fails' = fails + 1
  PROVE  Charged'
<1>1. /\ Doubtful \subseteq CommentId /\ Unheard \subseteq CommentId
      /\ Doubtful' \subseteq CommentId /\ Unheard' \subseteq CommentId
  <2>1. Doubtful' \subseteq CommentId /\ Unheard' \subseteq CommentId
    BY DEF Doubtful, Unheard, Subjects, Ids, Pending
  <2> QED BY <2>1, SetsOfComments
<1> DEFINE d == Cardinality(Doubtful)
           e == Cardinality(Doubtful')
           u == Cardinality(Unheard)
           v == Cardinality(Unheard')
<1>2. /\ d \in Nat /\ e \in Nat /\ u \in Nat /\ v \in Nat
      /\ Doubtful' \subseteq Doubtful => e <= d
      /\ (\E c : Doubtful' \subseteq Doubtful \cup {c}) => e <= d + 1
      /\ Unheard' \subseteq Unheard => v <= u
      /\ (\E c : Unheard' \subseteq Unheard \cup {c}) => v <= u + 1
  BY <1>1, Counting
<1>3. /\ d + (IF comments.open THEN 1 ELSE 0) <= fails
      /\ recoveries = 0 => u + (IF events.open THEN 1 ELSE 0) <= 2 * fails
      /\ fails \in Nat
  BY DEF Charged, TypeOK
<1> HIDE DEF d, e, u, v
<1>4. e + (IF comments'.open THEN 1 ELSE 0) <= fails'
  BY <1>2, <1>3
<1>5. recoveries' = 0 => v + (IF events'.open THEN 1 ELSE 0) <= 2 * fails'
  BY <1>2, <1>3
<1> QED BY <1>4, <1>5 DEF Charged, e, v

\* A process that has no event takes on the text t.
LEMMA PendingGiven ==
  ASSUME TypeOK, NEW p \in Proc, ~ IsEvent(job[p]), NEW t \in Text,
         job' = [job EXCEPT ![p] = t]
  PROVE  /\ ~ IsEvent(t) => Pending' = Pending
         /\ IsEvent(t) => Pending' = Pending \cup ({t.comment} \cap CommentId)
<1>1. \A q \in Proc : job'[q] = IF q = p THEN t ELSE job[q]
  BY DEF TypeOK
<1> QED BY <1>1 DEF Pending

\* A process is done with its text.
LEMMA PendingDone ==
  ASSUME TypeOK, NEW p \in Proc, NEW appended \in BOOLEAN, Done(p, appended)
  PROVE  /\ Pending' \subseteq Pending
         /\ ~ IsEvent(job[p]) => Pending' = Pending
         /\ Pending \subseteq Pending' \cup {job[p].comment}
<1>1. \A q \in Proc \ {p} :
        /\ IsEvent(job[q]) <=> IsEvent(job'[q])
        /\ IsEvent(job[q]) => job'[q].comment = job[q].comment
  BY DoneFacts
<1>2. ~ IsEvent(job'[p])
  <2>1. job'[p] = Bad
    BY DoneFacts
  <2> QED BY <2>1, TextKinds
<1> QED BY <1>1, <1>2 DEF Pending

LEMMA CommentAppendedCharged ==
  ASSUME TypeOK, EndsOK, Charged, NEW p \in Proc, CommentAppended(p)
  PROVE  Charged'
<1> DEFINE c == job[p].id
           t == job[p]
           n == NewEvent("Commented", c)
<1>1. /\ t \in Comment /\ t # Bad /\ c \in CommentId /\ ~ IsEvent(t)
      /\ n \in Text /\ IsEvent(n) /\ n.comment = c
  <2>1. t \in Comment
    BY CommentAppendedEffect
  <2>2. c \in CommentId
    BY <2>1 DEF Comment
  <2>3. n \in AuditEvent
    BY CommentAppendedEffect
  <2> QED BY <2>1, <2>2, <2>3, TextKinds DEF NewEvent
<1>2. /\ Grown(comments, comments', t, TRUE) /\ job' = [job EXCEPT ![p] = n]
      /\ UNCHANGED <<events, snap, fails, recoveries>> /\ Heard' = Heard
  <2>1. /\ Grown(comments, comments', t, TRUE) /\ job' = [job EXCEPT ![p] = n]
        /\ UNCHANGED <<events, snap, recovery, fails, recoveries>>
    BY CommentAppendedEffect
  <2>2. Heard' = Heard
    BY <2>1 DEF Heard, Sources, SomeText
  <2> QED BY <2>1, <2>2
<1>3. Pending' = Pending \cup {c}
  BY <1>1, <1>2, PendingGiven
<1>4. /\ SomeText(comments') \subseteq SomeText(comments) \cup {t, Bad}
      /\ SafeText(comments) \subseteq SafeText(comments')
      /\ ~ comments'.open /\ comments.open \in BOOLEAN
      /\ ~ comments.open => t \in SafeText(comments')
  BY <1>2, GrownTexts DEF TypeOK, EventFile, CommentFile
<1>5. /\ Ids(SomeText(comments')) \subseteq Ids(SomeText(comments)) \cup {c}
      /\ Ids(SafeText(comments)) \subseteq Ids(SafeText(comments'))
      /\ ~ comments.open => c \in Ids(SafeText(comments'))
  BY <1>1, <1>4, IdsGrow
<1>6. Unheard' \subseteq Unheard
  BY <1>2, <1>3, <1>5 DEF Unheard
<1>7. Doubtful' \subseteq Doubtful \cup {c}
  BY <1>2, <1>3, <1>5 DEF Doubtful
<1>8. ~ comments.open => Doubtful' \subseteq Doubtful
  BY <1>2, <1>3, <1>5 DEF Doubtful
<1> QED BY <1>2, <1>4, <1>6, <1>7, <1>8, ChargedStep

LEMMA EventAppendedCharged ==
  ASSUME TypeOK, EndsOK, Charged, NEW p \in Proc, EventAppended(p)
  PROVE  Charged'
<1> DEFINE c == job[p].comment
           t == job[p]
<1>1. t # Bad /\ IsEvent(t)
  BY EventAppendedEffect, TextKinds
<1>2. /\ Grown(events, events', t, TRUE) /\ Done(p, TRUE)
      /\ UNCHANGED <<comments, snap, recovery, fails, recoveries>>
  BY EventAppendedEffect
<1>3. /\ Pending' \subseteq Pending /\ Pending \subseteq Pending' \cup {c}
      /\ c \in CommentId => c \in Pending
  BY <1>1, <1>2, PendingDone DEF Pending
<1>4. /\ SomeText(events') \subseteq SomeText(events) \cup {t, Bad}
      /\ SafeText(events) \subseteq SafeText(events')
      /\ ~ events'.open /\ events.open \in BOOLEAN
      /\ ~ events.open => t \in SafeText(events')
  BY <1>2, GrownTexts DEF TypeOK, EventFile, CommentFile
<1>5. /\ Subjects(Heard') \subseteq Subjects(Heard) \cup {c}
      /\ Subjects(SafeText(events)) \subseteq Subjects(SafeText(events'))
      /\ ~ events.open /\ c \in CommentId => c \in Subjects(SafeText(events'))
      /\ Subjects(Heard') \subseteq CommentId
  <2>1. Heard' \subseteq Heard \cup {t, Bad}
    BY <1>2, <1>4, HeardGrows
  <2>2. Subjects(Heard') \subseteq Subjects(Heard) \cup {c}
    BY <2>1, SubjectsGrow
  <2>3. Subjects(SafeText(events)) \subseteq Subjects(SafeText(events'))
    BY <1>4, SubjectsGrow
  <2>4. ~ events.open /\ c \in CommentId => c \in Subjects(SafeText(events'))
    BY <1>1, <1>4, SubjectsGrow
  <2> QED BY <2>2, <2>3, <2>4 DEF Subjects
<1>6. Doubtful' \subseteq Doubtful
  BY <1>2, <1>3, <1>5 DEF Doubtful
<1>7. Unheard' \subseteq Unheard \cup {c}
  BY <1>2, <1>3, <1>5 DEF Unheard
<1>8. ~ events.open => Unheard' \subseteq Unheard
  BY <1>2, <1>3, <1>5 DEF Unheard, Pending
<1> QED BY <1>2, <1>4, <1>6, <1>7, <1>8, ChargedStep

LEMMA AppendFailsCharged ==
  ASSUME TypeOK, EndsOK, Charged, NEW p \in Proc, AppendFails(p)
  PROVE  Charged'
<1> DEFINE t == job[p]
<1>1. /\ fails' = fails + 1 /\ UNCHANGED <<snap, recovery, recoveries>>
      /\ comments.open \in BOOLEAN /\ events.open \in BOOLEAN
  BY AppendFailsEffect DEF TypeOK, EventFile, CommentFile
<1>2. CASE t \in Comment
  <2>1. /\ Spoilt(comments, comments', t) /\ events' = events /\ Done(p, FALSE)
        /\ ~ IsEvent(t)
    BY <1>2, AppendFailsEffect, TextKinds
  <2>2. Pending' = Pending
    BY <2>1, PendingDone
  <2>3. /\ Ids(SomeText(comments')) \subseteq Ids(SomeText(comments)) \cup {t.id}
        /\ Ids(SafeText(comments)) \subseteq Ids(SafeText(comments'))
    BY <1>1, <2>1, SpoiltTexts, IdsGrow
  <2>4. Doubtful' \subseteq Doubtful
    <3>1. Heard' = Heard
      BY <1>1, <2>1 DEF Heard, Sources
    <3> QED BY <2>2, <2>3, <3>1 DEF Doubtful
  <2>5. Unheard' \subseteq Unheard \cup {t.id}
    BY <1>1, <2>1, <2>2, <2>3 DEF Unheard
  <2> QED BY <1>1, <2>4, <2>5, ChargedStep
<1>3. CASE t \in AuditEvent
  <2> DEFINE c == t.comment
  <2>1. /\ Spoilt(events, events', t) /\ comments' = comments
        /\ Done(p, events' # events) /\ IsEvent(t)
    BY <1>3, AppendFailsEffect, TextKinds
  <2>2. /\ Pending' \subseteq Pending /\ Pending \subseteq Pending' \cup {c}
        /\ c \in CommentId => c \in Pending
    <3>1. (events' # events) \in BOOLEAN
      OBVIOUS
    <3> QED BY <2>1, <3>1, PendingDone DEF Pending
  <2>3. /\ Subjects(Heard') \subseteq Subjects(Heard) \cup {c}
        /\ Subjects(SafeText(events)) \subseteq Subjects(SafeText(events'))
        /\ Subjects(Heard') \subseteq CommentId
    <3>1. /\ SomeText(events') \subseteq SomeText(events) \cup {t, Bad}
          /\ SafeText(events) \subseteq SafeText(events')
      BY <1>1, <2>1, SpoiltTexts
    <3>2. Heard' \subseteq Heard \cup {t, Bad}
      BY <1>1, <3>1, HeardGrows
    <3> QED BY <3>1, <3>2, SubjectsGrow DEF Subjects
  <2>4. Doubtful' \subseteq Doubtful
    BY <1>1, <2>1, <2>2, <2>3 DEF Doubtful
  <2>5. Unheard' \subseteq Unheard \cup {c}
    BY <1>1, <2>1, <2>2, <2>3 DEF Unheard
  <2> QED BY <1>1, <2>1, <2>4, <2>5, ChargedStep
<1> QED BY <1>2, <1>3, AppendFailsEffect

LEMMA NextCharged == TypeOK /\ EndsOK /\ Counted /\ Charged /\ [Next]_vars => Charged'
<1> SUFFICES ASSUME TypeOK, EndsOK, Counted, Charged, [Next]_vars PROVE Charged'
  OBVIOUS
<1>1. CASE UNCHANGED vars
  BY <1>1 DEF Charged, Doubtful, Heard, Sources, Unheard, Pending, vars
<1>2. CASE Tick
  BY <1>2 DEF Tick, Charged, Doubtful, Heard, Sources, Unheard, Pending
<1>3. CASE Snapshot
  <2>1. UNCHANGED <<events, comments, job, recovery, fails, recoveries>> /\ snap' = events
    BY <1>3 DEF Snapshot
  <2>2. Sources' \subseteq Sources /\ Pending' = Pending
    BY <2>1 DEF Sources, Pending
  <2>3. Heard' \subseteq Heard
    BY <2>2 DEF Heard
  <2>4. Doubtful' \subseteq Doubtful /\ Unheard' = Unheard
    BY <2>1, <2>2, <2>3, SubjectsGrow DEF Doubtful, Unheard
  <2> QED BY <2>1, <2>4, ChargedStep
<1>4. ASSUME NEW p \in Proc, Recover(p) \/ Restore(p) \/ Refill(p) PROVE Charged'
  <2>1. UNCHANGED <<comments, job, fails>>
    BY <1>4, RecoveryEffect
  <2>2. recoveries' # 0
    BY <1>4, RecoveryEffect DEF Counted, TypeOK
  <2>3. Heard' \subseteq Heard \cup {Bad} /\ Pending' = Pending
    BY <1>4, <2>1, RecoverySources DEF Pending
  <2>4. Subjects(Heard') \subseteq Subjects(Heard)
    BY <2>3 DEF Subjects
  <2>5. Doubtful' \subseteq Doubtful
    BY <2>1, <2>3, <2>4 DEF Doubtful
  <2> QED BY <2>1, <2>2, <2>5, ChargedStep
<1>5. ASSUME NEW p \in Proc, NEW type \in Logged, Log(p, type) PROVE Charged'
  <2>1. /\ ~ IsEvent(job[p]) /\ NewEvent(type, NoComment) \in Text
        /\ IsEvent(NewEvent(type, NoComment))
        /\ NewEvent(type, NoComment).comment \notin CommentId
    BY <1>5, LogEffect, TextKinds, CommentIdAssumption DEF NewEvent
  <2>2. /\ Pending' = Pending
        /\ UNCHANGED <<events, comments, snap, recovery, fails, recoveries>>
    BY <1>5, <2>1, LogEffect, PendingGiven
  <2>3. Doubtful' = Doubtful /\ Unheard' = Unheard
    BY <2>2 DEF Doubtful, Heard, Sources, Unheard
  <2> QED BY <2>2, <2>3 DEF Charged
<1>6. ASSUME NEW p \in Proc, NEW c \in CommentId, AddComment(p, c) PROVE Charged'
  <2>1. /\ ~ IsEvent(job[p]) /\ [id |-> c, at |-> now] \in Text
        /\ ~ IsEvent([id |-> c, at |-> now])
    BY <1>6, AddCommentEffect, TextKinds
  <2>2. /\ Pending' = Pending
        /\ UNCHANGED <<events, comments, snap, recovery, fails, recoveries>>
    BY <1>6, <2>1, AddCommentEffect, PendingGiven
  <2>3. Doubtful' = Doubtful /\ Unheard' = Unheard
    BY <2>2 DEF Doubtful, Heard, Sources, Unheard
  <2> QED BY <2>2, <2>3 DEF Charged
<1> QED BY <1>1, <1>2, <1>3, <1>4, <1>5, <1>6, CommentAppendedCharged,
           EventAppendedCharged, AppendFailsCharged DEF Next

LEMMA NextClean ==
  TypeOK /\ EndsOK /\ OneAtATime /\ Truncated /\ Clean /\ [Next]_vars => Clean'
<1> SUFFICES ASSUME TypeOK, EndsOK, OneAtATime, Truncated, Clean, [Next]_vars, fails' = 0
             PROVE  /\ Sound(comments')
                    /\ seen' = {} => \A f \in Sources' : Sound(f)
  BY DEF Clean, Sound, SomeText
<1>1. /\ events.open \in BOOLEAN /\ comments.open \in BOOLEAN /\ fails \in Nat
      /\ recovery \in [Proc -> [step : {"none", "restore", "refill"}, from : EventFile]]
  BY DEF TypeOK, EventFile, CommentFile
<1>2. Sound(Empty)
  BY EmptyOrdered DEF Sound, Empty
<1>3. CASE UNCHANGED vars \/ Tick \/ Snapshot
  <2>1. /\ UNCHANGED <<comments, recovery, fails, seen>>
        /\ {events', snap'} \subseteq {events, snap}
    BY <1>3 DEF vars, Tick, Snapshot
  <2>2. Sources' \subseteq Sources
    BY <2>1 DEF Sources
  <2> QED BY <2>1, <2>2 DEF Clean
<1>4. ASSUME UNCHANGED <<events, comments, snap, recovery, fails, seen>>
      PROVE  Sound(comments') /\ (seen' = {} => \A f \in Sources' : Sound(f))
  <2>1. Sources' = Sources
    BY <1>4 DEF Sources
  <2> QED BY <1>4, <2>1 DEF Clean
<1>5. CASE \E p \in Proc, type \in Logged : Log(p, type)
  BY <1>4, <1>5, LogEffect
<1>6. CASE \E p \in Proc, c \in CommentId : AddComment(p, c)
  BY <1>4, <1>6, AddCommentEffect
<1>7. CASE \E p \in Proc : CommentAppended(p)
  <2> PICK p \in Proc : CommentAppended(p)
    BY <1>7
  <2>1. /\ Grown(comments, comments', job[p], TRUE) /\ job[p] # Bad
        /\ UNCHANGED <<events, snap, recovery, fails, seen>>
    BY CommentAppendedEffect, TextKinds
  <2>2. ~ comments.open /\ Bad \notin SomeText(comments)
    BY <2>1 DEF Clean, Sound
  <2>3. ~ comments'.open /\ SomeText(comments') = SomeText(comments) \cup {job[p]}
    BY <1>1, <2>1, <2>2, GrownTexts
  <2>4. Sources' = Sources
    BY <2>1 DEF Sources
  <2> QED BY <2>1, <2>2, <2>3, <2>4 DEF Clean, Sound
<1>8. CASE \E p \in Proc : EventAppended(p)
  <2> PICK p \in Proc : EventAppended(p)
    BY <1>8
  <2>1. /\ Grown(events, events', job[p], TRUE) /\ job[p] # Bad
        /\ UNCHANGED <<comments, snap, recovery, fails>>
    BY EventAppendedEffect, TextKinds
  <2>2. seen \subseteq seen'
    BY EventAppendedEffect, RaceNoted
  <2>3. \A f \in Sources' : f \in Sources \/ f = events'
    BY <2>1 DEF Sources
  <2>4. events \in Sources
    BY DEF Sources
  <2>5. ASSUME seen' = {} PROVE Sound(events')
    <3>1. ~ events.open /\ Bad \notin SomeText(events)
      BY <2>1, <2>2, <2>4, <2>5 DEF Clean, Sound
    <3>2. ~ events'.open /\ SomeText(events') = SomeText(events) \cup {job[p]}
      BY <1>1, <2>1, <3>1, GrownTexts
    <3> QED BY <2>1, <3>1, <3>2 DEF Sound
  <2> QED BY <2>1, <2>2, <2>3, <2>5 DEF Clean
<1>9. CASE \E p \in Proc : AppendFails(p)
  <2>1. fails' = fails + 1
    BY <1>9, AppendFailsEffect
  <2> QED BY <1>1, <2>1
<1>10. CASE \E p \in Proc : Recover(p) \/ Restore(p) \/ Refill(p)
  <2> PICK p \in Proc : Recover(p) \/ Restore(p) \/ Refill(p)
    BY <1>10
  <2>1. UNCHANGED <<comments, fails>> /\ seen \subseteq seen'
    BY RecoveryEffect DEF Recover
  <2>2. \A f \in Sources' : f \in Sources \/ f = Empty \/ f = events'
    BY RecoverySources
  <2>3. ASSUME seen' = {}
        PROVE  events' = Empty \/ events' \in Sources
    <3>1. CASE Recover(p) \/ Restore(p)
      BY <3>1, RecoveryEffect DEF Sources
    <3>2. CASE Refill(p)
      <4>1. /\ recovery[p].step = "refill"
            /\ events = Empty => events' = recovery[p].from
        BY <3>2, RecoveryEffect
      <4>2. events = Empty
        BY <2>1, <2>3, <4>1 DEF Truncated
      <4> QED BY <4>1, <4>2 DEF Sources
    <3> QED BY <3>1, <3>2
  <2> QED BY <1>2, <2>1, <2>2, <2>3 DEF Clean
<1> QED BY <1>3, <1>5, <1>6, <1>7, <1>8, <1>9, <1>10 DEF Next

-----------------------------------------------------------------------------
IInv ==
  TypeOK /\ EndsOK /\ OneAtATime /\ Truncated /\ Counted /\ Chronology /\ Charged /\ Clean

LEMMA InitIInv == Init => IInv
<1> SUFFICES ASSUME Init PROVE IInv
  OBVIOUS
<1>1. /\ events = Empty /\ comments = Empty /\ snap = Empty /\ fails = 0
      /\ \A p \in Proc : ~ IsEvent(job[p])
      /\ \A p \in Proc : recovery[p].step = "none" /\ recovery[p].from = Empty
  BY TextKinds DEF Init, NoRecovery
<1>2. ~ Empty.open /\ DOMAIN Empty.lines = {} /\ SomeText(Empty) = {}
  BY EmptyOrdered DEF Empty
<1>3. Sources \subseteq {Empty} /\ Heard = {}
  <2>1. Sources \subseteq {Empty}
    BY <1>1 DEF Sources
  <2> QED BY <1>2, <2>1 DEF Heard
<1>4. OneAtATime /\ Truncated /\ Counted
  BY <1>1 DEF OneAtATime, Truncated, Counted
<1>5. Chronology
  BY <1>1, <1>3, EmptyOrdered DEF Chronology, NothingAhead
<1>6. Clean
  BY <1>1, <1>2, <1>3 DEF Clean, Sound
<1>7. Pending = {} /\ Subjects({}) = {} /\ Ids({}) = {}
  BY <1>1 DEF Pending, Subjects, Ids
<1>8. Doubtful = {} /\ Unheard = {}
  BY <1>1, <1>2, <1>3, <1>7 DEF Doubtful, Unheard
<1>9. Charged
  BY <1>1, <1>2, <1>8, FS_EmptySet DEF Charged
<1> QED BY <1>4, <1>5, <1>6, <1>9, InitTypeOK DEF IInv

LEMMA NextIInv == IInv /\ [Next]_vars => IInv'
BY NextTypeOK, NextRecovery, NextChronology, NextCharged, NextClean DEF IInv

LEMMA Invariant == Spec => []IInv
BY InitIInv, NextIInv, PTL DEF Spec

\* Every state has the types that TypeOK gives it.
THEOREM TypeCorrect == Spec => []TypeOK
<1>1. IInv => TypeOK
  BY DEF IInv
<1> QED BY <1>1, Invariant, PTL

\* all_events returns the events in the order they were made, but for those that
\* another process has overtaken between making its event and appending it.  As
\* long as no two recoveries overlap, this holds through recoveries and whatever is
\* appended between the halves of one.
THEOREM ChronologyKept == Spec => []Chronological
<1>1. IInv => Chronological
  BY DEF IInv, Chronology, Sources, InOrder, Chronological
<1> QED BY <1>1, Invariant, PTL

\* However many processes, comments, failures and recoveries there are: each failed
\* write leaves at most one event of add_comment without its comment and, before
\* any recovery, two comments without their event.  Without failures the comments can
\* be read, and the events too if no append and no other recovery fell into one.
THEOREM AnnouncementsBounded == Spec => []CommentsAnnounced
<1>1. ASSUME IInv PROVE CommentsAnnounced
  <2>1. /\ Announced = Subjects(SomeText(events))
        /\ Commented = Ids(SomeText(comments))
    BY DEF Announced, Commented, Subjects, Ids, SomeText
  <2>2. /\ SafeText(comments) \subseteq SomeText(comments)
        /\ SafeText(events) \subseteq SomeText(events)
    BY DEF SafeText, SomeText
  <2>3. /\ Ids(SafeText(comments)) \subseteq Commented
        /\ Subjects(SafeText(events)) \subseteq Announced
    BY <2>1, <2>2, IdsGrow, SubjectsGrow
  <2>4. SomeText(events) \subseteq Heard /\ Announced \subseteq Subjects(Heard)
    <3>1. SomeText(events) \subseteq Heard
      BY DEF Heard, Sources
    <3> QED BY <2>1, <3>1, SubjectsGrow
  <2>5. /\ Announced \ Commented \subseteq Doubtful
        /\ (\A p \in Proc : job[p] = Bad) => Commented \ Announced \subseteq Unheard
    <3>1. (\A p \in Proc : job[p] = Bad) => Pending = {}
      BY TextKinds DEF Pending
    <3> QED BY <2>1, <2>3, <2>4, <3>1 DEF Doubtful, Unheard
  <2>6. Announced \subseteq CommentId /\ Commented \subseteq CommentId
    BY DEF Announced, Commented
  <2>7. /\ Cardinality(Announced \ Commented) <= fails
        /\ recoveries = 0 /\ (\A p \in Proc : job[p] = Bad) =>
             Cardinality(Commented \ Announced) <= 2 * fails
    <3> DEFINE a == Cardinality(Announced \ Commented)
               m == Cardinality(Commented \ Announced)
               d == Cardinality(Doubtful)
               u == Cardinality(Unheard)
    <3>1. /\ a \in Nat /\ m \in Nat /\ d \in Nat /\ u \in Nat
          /\ a <= d
          /\ (\A p \in Proc : job[p] = Bad) => m <= u
      BY <2>5, <2>6, SetsOfComments, Counting
    <3>2. /\ d + (IF comments.open THEN 1 ELSE 0) <= fails /\ fails \in Nat
          /\ recoveries = 0 => u + (IF events.open THEN 1 ELSE 0) <= 2 * fails
      BY <1>1 DEF IInv, Charged, TypeOK
    <3> HIDE DEF a, m, d, u
    <3>3. /\ a <= fails
          /\ recoveries = 0 /\ (\A p \in Proc : job[p] = Bad) => m <= 2 * fails
      BY <3>1, <3>2
    <3> QED BY <3>3 DEF a, m
  <2>8. fails = 0 => Readable(comments) /\ (seen = {} => Readable(events))
    <3>1. events \in Sources
      BY DEF Sources
    <3> QED BY <1>1, <3>1 DEF IInv, Clean, Sound, SomeText, Readable
  <2> QED BY <2>7, <2>8 DEF CommentsAnnounced
<1> QED BY <1>1, Invariant, PTL
=============================================================================
