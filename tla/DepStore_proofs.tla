--------------------------- MODULE DepStore_proofs ---------------------------
(***************************************************************************)
(* Proofs about DepStore for any processes, orbs and edges: without        *)
(* overlapping additions the blocking edges stay acyclic and the file      *)
(* implements DepPromise.                                                  *)
(***************************************************************************)
EXTENDS DepStore, SequenceTheorems, TLAPS

-----------------------------------------------------------------------------
(* Reachability and acyclicity.                                            *)

\* Removing arcs cannot make a cycle.
LEMMA AcyclicSubset ==
  ASSUME NEW A, NEW B, A \subseteq B, Acyclic(B)
  PROVE  Acyclic(A)
  BY DEF Acyclic

\* What the cycle check rests on: an arc whose head does not lead back to its
\* tail can be added to an acyclic graph.
LEMMA AddArcKeepsAcyclic ==
  ASSUME NEW A, NEW s \in OrbId, NEW d \in OrbId,
         Acyclic(A), ~ Reaches(A, d, s)
  PROVE  Acyclic(A \cup {<<s, d>>})
<1> SUFFICES ASSUME NEW S \in SUBSET OrbId, S # {}
             PROVE  \E x \in S : \A y \in S : <<y, x>> \notin A \cup {<<s, d>>}
  BY DEF Acyclic
<1>1. PICK C \in SUBSET OrbId : Closed(A, C) /\ d \in C /\ s \notin C
  BY DEF Reaches
\* If S leaves C, a minimal member of S \ C will do: nothing of C points out
\* of C, and d, the only orb with a new predecessor, is in C.
<1>2. CASE S \ C # {}
  <2>1. PICK x \in S \ C : \A y \in S \ C : <<y, x>> \notin A
    BY <1>2 DEF Acyclic
  <2>2. \A y \in C : <<y, x>> \notin A
    BY <1>1, <2>1 DEF Closed
  <2>3. x # d
    BY <1>1, <2>1
  <2> QED BY <2>1, <2>2, <2>3
\* Otherwise S lies inside C, where s is not, so the new arc is not in S.
<1>3. CASE S \ C = {}
  <2>1. PICK x \in S : \A y \in S : <<y, x>> \notin A
    BY DEF Acyclic
  <2>2. s \notin S
    BY <1>1, <1>3
  <2> QED BY <2>1, <2>2
<1> QED BY <1>2, <1>3

\* An acyclic graph really has no cycle: no orb leads back to itself.
LEMMA AcyclicNoCycle ==
  ASSUME NEW A, Acyclic(A), NEW x \in OrbId
  PROVE  ~ OnCycle(A, x)
<1> SUFFICES ASSUME NEW y \in OrbId, <<x, y>> \in A, Reaches(A, y, x)
             PROVE  FALSE
  BY DEF OnCycle
\* The orbs that x reaches through y and that reach x: each has a predecessor
\* among them.
<1> DEFINE S == {z \in OrbId : Reaches(A, y, z) /\ Reaches(A, z, x)}
<1>1. x \in S /\ y \in S
  BY DEF Reaches
<1>2. PICK m \in S : \A w \in S : <<w, m>> \notin A
  BY <1>1 DEF Acyclic
<1>3. m # y
  BY <1>1, <1>2
<1> DEFINE C == {w \in OrbId : Reaches(A, y, w) /\ w # m}
<1>4. ASSUME NEW v \in OrbId, NEW w \in OrbId, <<v, w>> \in A, v \in C
      PROVE  w \in C
  <2>1. Reaches(A, y, w)
    BY <1>4 DEF Reaches, Closed
  <2>2. w # m
    <3> SUFFICES ASSUME w = m PROVE FALSE
      OBVIOUS
    <3>1. Reaches(A, v, x)
      BY <1>2, <1>4 DEF Reaches, Closed
    <3>2. v \in S
      BY <1>4, <3>1
    <3> QED BY <1>2, <1>4, <3>2
  <2> QED BY <2>1, <2>2
<1>5. Closed(A, C)
  BY <1>4 DEF Closed
<1>6. y \in C
  BY <1>3 DEF Reaches
<1>7. m \in C
  <2> HIDE DEF C
  <2> QED BY <1>2, <1>5, <1>6 DEF Reaches, C
<1> QED BY <1>7
-----------------------------------------------------------------------------
\* While additions do not overlap and the file can be read, there is one addition
\* under way at most, and the edge it is about to append still closes no cycle.
Pending ==
  ~ raced /\ Readable(log) =>
    /\ \A p, q \in Proc : pc[p] = "adding" /\ pc[q] = "adding" => p = q
    /\ \A p \in Proc :
         pc[p] = "adding" => Acyclic(Arcs(Live(log) \cup {arg[p]}))

\* Only a failed write leaves an end without newline, on some line, or a bad line.
EndOK ==
  /\ open => log # <<>>
  /\ fails = 0 => ~ open /\ Readable(log)

IInv == TypeOK /\ EndOK /\ NoCycle /\ Pending

-----------------------------------------------------------------------------
(* The edges read back after one more line.                                *)

\* The edge of the new line is live if the line does not say removed, and the
\* other edges are as before.
LEMMA LiveAppend ==
  ASSUME NEW lines \in Seq(Line), NEW e \in Edge, NEW r \in BOOLEAN
  PROVE  LET new == Append(lines, [edge |-> e, removed |-> r])
         IN  /\ ~ r => Live(new) = Live(lines) \cup {e}
             /\ r => Live(new) = Live(lines) \ {e}
<1> DEFINE l == [edge |-> e, removed |-> r]
           new == Append(lines, l)
           n == Len(lines) + 1
<1>1. l \in Line /\ l.edge = e /\ l.removed = r
  BY DEF Line
<1> HIDE DEF l
<1>2. /\ Len(lines) \in Nat
      /\ DOMAIN lines = 1 .. Len(lines)
      /\ DOMAIN new = 1 .. n
      /\ new[n] = l
      /\ \A i \in 1 .. Len(lines) : new[i] = lines[i]
  BY <1>1, AppendProperties, LenProperties
<1> HIDE DEF new, n
<1>3. n \in DOMAIN new /\ Latest(new, n)
  BY <1>2 DEF Latest, n
<1>4. ASSUME NEW i \in DOMAIN lines
      PROVE  /\ i \in DOMAIN new
             /\ Latest(new, i) <=> Latest(lines, i) /\ lines[i].edge # e
  <2>1. i \in DOMAIN new /\ new[i] = lines[i] /\ i < n
    BY <1>2 DEF n
  <2>2. \A j \in DOMAIN new : j = n \/ (j \in DOMAIN lines /\ new[j] = lines[j])
    BY <1>2 DEF n
  <2>3. \A j \in DOMAIN lines : j \in DOMAIN new /\ new[j] = lines[j]
    BY <1>2 DEF n
  <2>4. Latest(new, i) => Latest(lines, i) /\ lines[i].edge # e
    BY <1>1, <1>2, <1>3, <2>1, <2>3 DEF Latest, n
  <2>5. Latest(lines, i) /\ lines[i].edge # e => Latest(new, i)
    BY <1>1, <1>2, <2>1, <2>2 DEF Latest
  <2> QED BY <2>1, <2>4, <2>5
<1>5. \A x : x \in Live(new) <=> (x \in Live(lines) /\ x # e) \/ (x = e /\ ~ r)
  <2>1. ASSUME NEW x, x \in Live(new)
        PROVE  (x \in Live(lines) /\ x # e) \/ (x = e /\ ~ r)
    <3>1. PICK i \in DOMAIN new : Latest(new, i) /\ ~ new[i].removed /\ x = new[i].edge
      BY <2>1 DEF Live
    <3>2. CASE i = n
      BY <1>1, <1>2, <3>1, <3>2
    <3>3. CASE i # n
      <4>1. i \in DOMAIN lines /\ new[i] = lines[i]
        BY <1>2, <3>3 DEF n
      <4> QED BY <1>4, <3>1, <4>1 DEF Live
    <3> QED BY <3>2, <3>3
  <2>2. ASSUME NEW x, x \in Live(lines), x # e
        PROVE  x \in Live(new)
    <3>1. PICK i \in DOMAIN lines :
            Latest(lines, i) /\ ~ lines[i].removed /\ x = lines[i].edge
      BY <2>2 DEF Live
    <3>2. i \in DOMAIN new /\ Latest(new, i) /\ new[i] = lines[i]
      BY <1>2, <1>4, <2>2, <3>1
    <3> QED BY <3>1, <3>2 DEF Live
  <2>3. ~ r => e \in Live(new)
    BY <1>1, <1>2, <1>3 DEF Live
  <2> QED BY <2>1, <2>2, <2>3
<1>6. new = Append(lines, [edge |-> e, removed |-> r])
  BY DEF new, l
<1> QED BY <1>5, <1>6

\* Fewer edges span fewer arcs.
LEMMA ArcsSubset ==
  ASSUME NEW E, NEW F, E \subseteq F
  PROVE  Arcs(E) \subseteq Arcs(F)
  BY DEF Arcs

\* One more edge spans one more arc if it is blocking, and none otherwise.
LEMMA ArcsAdd ==
  ASSUME NEW E, NEW e
  PROVE  /\ IsBlocking(e) => Arcs(E \cup {e}) = Arcs(E) \cup {Arc(e)}
         /\ ~ IsBlocking(e) => Arcs(E \cup {e}) = Arcs(E)
  BY DEF Arcs

\* An edge that passes the check can be added.
LEMMA CheckedEdgeKeepsAcyclic ==
  ASSUME NEW E, NEW e \in Edge, IsBlocking(e), Acyclic(Arcs(E)), CycleFree(E, e)
  PROVE  Acyclic(Arcs(E \cup {e}))
<1> DEFINE s == Arc(e)[1]
           d == Arc(e)[2]
<1>1. s \in OrbId /\ d \in OrbId /\ Arc(e) = <<s, d>>
  BY DEF Arc, Edge
<1>2. ~ Reaches(Arcs(E), d, s)
  BY DEF CycleFree
<1> HIDE DEF s, d
<1>3. Acyclic(Arcs(E) \cup {<<s, d>>})
  BY <1>1, <1>2, AddArcKeepsAcyclic
<1> QED BY <1>1, <1>3, ArcsAdd

-----------------------------------------------------------------------------
(* The file after one write.                                               *)

Text == Line \cup {Bad}

LEMMA ExtendedFacts ==
  ASSUME log \in Seq(Text), open \in BOOLEAN, open => log # <<>>, NEW t \in Text
  PROVE  /\ Extended(t) \in Seq(Text) /\ Extended(t) # <<>>
         /\ Readable(Extended(t)) <=> ~ open /\ Readable(log) /\ t # Bad
         /\ ~ open => Extended(t) = Append(log, t)
<1> DEFINE n == Len(log)
           u == Extended(t)
<1>1. n \in Nat /\ DOMAIN log = 1 .. n /\ (log # <<>> => n # 0)
  BY LenProperties, EmptySeq
<1>2. CASE open
  <2>1. n \in 1 .. n /\ u = [log EXCEPT ![n] = Bad]
    BY <1>1, <1>2 DEF Extended
  <2>2. /\ u \in Seq(Text) /\ Len(u) = n
        /\ u[n] = Bad
    BY <2>1, ExceptSeq DEF Text
  <2> HIDE DEF u, n
  <2>3. DOMAIN u = 1 .. n /\ u # <<>>
    BY <1>1, <1>2, <2>2, LenProperties, EmptySeq
  <2>4. ~ Readable(u)
    BY <2>1, <2>2, <2>3 DEF Readable
  <2> QED BY <1>2, <2>2, <2>3, <2>4 DEF u
<1>3. CASE ~ open
  <2>1. u = Append(log, t)
    BY <1>3 DEF Extended
  <2>2. /\ u \in Seq(Text) /\ Len(u) = n + 1 /\ u[n + 1] = t
        /\ \A i \in 1 .. n : u[i] = log[i]
    BY <2>1, AppendProperties
  <2> HIDE DEF u, n
  <2>3. DOMAIN u = 1 .. n + 1 /\ u # <<>>
    BY <1>1, <2>2, LenProperties, EmptySeq
  <2>4. Readable(u) <=> Readable(log) /\ t # Bad
    BY <1>1, <2>2, <2>3 DEF Readable
  <2> QED BY <1>3, <2>1, <2>2, <2>3, <2>4 DEF u
<1> QED BY <1>2, <1>3

\* A readable file has nothing but lines.
LEMMA ReadableLines ==
  ASSUME NEW lines \in Seq(Text), Readable(lines)
  PROVE  lines \in Seq(Line)
<1>1. /\ Len(lines) \in Nat /\ DOMAIN lines = 1 .. Len(lines)
      /\ \A i \in 1 .. Len(lines) : lines[i] \in Text
  BY LenProperties, ElementOfSeq
<1>2. \A i \in 1 .. Len(lines) : lines[i] \in Line
  BY <1>1 DEF Readable, Text
<1>3. lines = [i \in 1 .. Len(lines) |-> lines[i]]
  BY <1>1
<1> QED BY <1>1, <1>2, <1>3, IsASeq

\* The edges read back after a line for e, if it has not run into another one.
LEMMA WrittenLive ==
  ASSUME TypeOK, EndOK, NEW e \in Offered, NEW r \in BOOLEAN,
         log' = Extended([edge |-> e, removed |-> r]), Readable(log')
  PROVE  /\ Readable(log) /\ ~ open
         /\ ~ r => Live(log') = Live(log) \cup {e}
         /\ r => Live(log') = Live(log) \ {e}
<1> DEFINE l == [edge |-> e, removed |-> r]
<1>1. e \in Edge /\ l \in Text
  BY OfferedAssumption DEF Line, Text
<1>2. log \in Seq(Text) /\ open \in BOOLEAN /\ (open => log # <<>>)
  BY DEF TypeOK, EndOK, Text
<1>3. Readable(log) /\ ~ open /\ log' = Append(log, l)
  BY <1>1, <1>2, ExtendedFacts
<1>4. log \in Seq(Line)
  BY <1>2, <1>3, ReadableLines
<1> QED BY <1>1, <1>3, <1>4, LiveAppend

-----------------------------------------------------------------------------
(* Type correctness.                                                       *)

\* The initial states are well typed.
LEMMA InitType == Init => TypeOK /\ EndOK
<1> SUFFICES ASSUME Init PROVE TypeOK /\ EndOK
  OBVIOUS
<1>1. log \in Seq(Line \cup {Bad}) /\ Readable(log)
  BY DEF Init, Readable
<1>2. /\ pc \in [Proc -> {"idle", "adding", "removing"}]
      /\ \A p \in Proc : pc[p] # "adding"
  BY DEF Init
<1> QED BY <1>1, <1>2 DEF Init, TypeOK, EndOK

\* What a write does to the file, whether it fails or not.
FileOK ==
  /\ log \in Seq(Text) /\ open \in BOOLEAN /\ fails \in Nat
  /\ EndOK

LEMMA WriteKeepsFile ==
  ASSUME TypeOK, EndOK, NEW e \in Offered, NEW r \in BOOLEAN,
         AppendRaw(e, r) \/ AppendFails(e, r)
  PROVE  FileOK'
<1> DEFINE l == [edge |-> e, removed |-> r]
<1>1. l \in Text /\ Bad \in Text /\ l # Bad
  BY OfferedAssumption, BadAssumption DEF Line, Text
<1>2. log \in Seq(Text) /\ open \in BOOLEAN /\ fails \in Nat /\ (open => log # <<>>)
  BY DEF TypeOK, EndOK, Text
<1> HIDE DEF l
<1>3. /\ Extended(l) \in Seq(Text) /\ Extended(l) # <<>>
      /\ Extended(Bad) \in Seq(Text) /\ Extended(Bad) # <<>>
      /\ Readable(Extended(l)) <=> ~ open /\ Readable(log)
  BY <1>1, <1>2, ExtendedFacts
<1>4. CASE AppendRaw(e, r)
  <2>1. log' = Extended(l) /\ open' = FALSE /\ fails' = fails
    BY <1>4 DEF AppendRaw, l
  <2> QED BY <1>2, <1>3, <2>1 DEF FileOK, EndOK
<1>5. CASE AppendFails(e, r)
  <2>1. /\ fails' = fails + 1
        /\ \/ log' = log /\ open' = open
           \/ log' \in {Extended(Bad), Extended(l)} /\ open' = TRUE
    BY <1>5 DEF AppendFails, l
  <2>2. fails' \in Nat /\ fails' # 0
    BY <1>2, <2>1
  <2>3. log' \in Seq(Text) /\ open' \in BOOLEAN /\ (open' => log' # <<>>)
    <3>1. CASE log' = log /\ open' = open
      BY <1>2, <3>1
    <3>2. CASE log' \in {Extended(Bad), Extended(l)} /\ open' = TRUE
      BY <1>3, <3>2
    <3> QED BY <2>1, <3>1, <3>2
  <2> QED BY <2>2, <2>3 DEF FileOK, EndOK
<1> QED BY <1>4, <1>5

\* Every step keeps the types, and whoever is adding is adding a blocking edge.
LEMMA NextType == TypeOK /\ EndOK /\ [Next]_vars => TypeOK' /\ EndOK'
<1> SUFFICES ASSUME TypeOK, EndOK, [Next]_vars PROVE TypeOK' /\ EndOK'
  OBVIOUS
<1> USE DEF TypeOK
<1>0. ASSUME FileOK', pc' = pc \/ \E p \in Proc : pc' = [pc EXCEPT ![p] = "idle"],
             UNCHANGED <<arg, raced>>
      PROVE  TypeOK' /\ EndOK'
  BY <1>0 DEF FileOK, Text
<1>1. ASSUME NEW p \in Proc, NEW e \in Offered, BeginAdd(p, e) \/ BeginRemove(p, e)
      PROVE  TypeOK' /\ EndOK'
  <2>1. UNCHANGED <<log, open, fails>>
    BY <1>1 DEF BeginAdd, BeginRemove, Begin
  <2>2. CASE BeginAdd(p, e)
    BY <2>1, <2>2 DEF BeginAdd, Begin, EndOK
  <2>3. CASE BeginRemove(p, e)
    BY <2>1, <2>3 DEF BeginRemove, Begin, EndOK
  <2> QED BY <1>1, <2>2, <2>3
<1>2. ASSUME NEW p \in Proc, NEW e \in Offered,
             AddUnchecked(p, e) \/ AddUncheckedFails(p, e)
      PROVE  TypeOK' /\ EndOK'
  BY <1>0, <1>2, WriteKeepsFile DEF AddUnchecked, AddUncheckedFails
<1>3. ASSUME NEW p \in Proc, EndAdd(p) \/ AddFails(p) PROVE TypeOK' /\ EndOK'
  BY <1>0, <1>3, WriteKeepsFile DEF EndAdd, AddFails, Return
<1>4. ASSUME NEW p \in Proc, EndRemove(p) \/ RemoveFails(p) PROVE TypeOK' /\ EndOK'
  BY <1>0, <1>4, WriteKeepsFile DEF EndRemove, RemoveFails, Return
<1>5. CASE UNCHANGED vars
  BY <1>5 DEF vars, EndOK
<1> QED BY <1>1, <1>2, <1>3, <1>4, <1>5 DEF Next

\* Every reachable store is well typed.
THEOREM TypeCorrect == Spec => []TypeOK
<1>1. Spec => [](TypeOK /\ EndOK)
  BY InitType, NextType, PTL DEF Spec
<1> QED BY <1>1, PTL


-----------------------------------------------------------------------------
(* What each call does to the edges read back.                             *)

\* As long as the file can be read, a write of a line for e does that to e or,
\* should it fail, perhaps nothing.
LEMMA WriteLive ==
  ASSUME TypeOK, EndOK, NEW e \in Offered, NEW r \in BOOLEAN,
         AppendRaw(e, r) \/ AppendFails(e, r), Readable(log')
  PROVE  /\ Readable(log)
         /\ \/ Live(log') = Live(log)
            \/ ~ r /\ Live(log') = Live(log) \cup {e}
            \/ r /\ Live(log') = Live(log) \ {e}
<1>1. CASE log' = log
  BY <1>1
<1>2. CASE log' = Extended([edge |-> e, removed |-> r])
  BY <1>2, WrittenLive
<1>3. log' # Extended(Bad)
  <2>1. ~ Readable(Extended(Bad))
    BY ExtendedFacts DEF TypeOK, EndOK, Text
  <2> QED BY <2>1
<1> QED BY <1>1, <1>2, <1>3 DEF AppendRaw, AppendFails

LEMMA FinishAdd ==
  ASSUME TypeOK, EndOK, NEW p \in Proc, EndAdd(p) \/ AddFails(p), Readable(log')
  PROVE  /\ Readable(log) /\ pc[p] = "adding" /\ Return(p)
         /\ Live(log') \in {Live(log), Live(log) \cup {arg[p]}}
<1>1. pc[p] = "adding" /\ Return(p) /\ (AppendRaw(arg[p], FALSE) \/ AppendFails(arg[p], FALSE))
  BY DEF EndAdd, AddFails
<1>2. arg[p] \in Offered
  BY DEF TypeOK
<1> QED BY <1>1, <1>2, WriteLive

LEMMA FinishRemove ==
  ASSUME TypeOK, EndOK, NEW p \in Proc, EndRemove(p) \/ RemoveFails(p), Readable(log')
  PROVE  /\ Readable(log) /\ Return(p)
         /\ Live(log') \in {Live(log), Live(log) \ {arg[p]}}
<1>1. Return(p) /\ (AppendRaw(arg[p], TRUE) \/ AppendFails(arg[p], TRUE))
  BY DEF EndRemove, RemoveFails
<1>2. arg[p] \in Offered
  BY DEF TypeOK
<1> QED BY <1>1, <1>2, WriteLive

LEMMA FinishUnchecked ==
  ASSUME TypeOK, EndOK, NEW p \in Proc, NEW e \in Offered,
         AddUnchecked(p, e) \/ AddUncheckedFails(p, e), Readable(log')
  PROVE  /\ Readable(log) /\ ~ IsBlocking(e) /\ UNCHANGED <<pc, arg, raced>>
         /\ Live(log') \in {Live(log), Live(log) \cup {e}}
<1>1. /\ ~ IsBlocking(e) /\ UNCHANGED <<pc, arg, raced>>
      /\ AppendRaw(e, FALSE) \/ AppendFails(e, FALSE)
  BY DEF AddUnchecked, AddUncheckedFails
<1> QED BY <1>1, WriteLive

-----------------------------------------------------------------------------
(* The inductive invariant.                                                *)

\* An empty file has no cycle.
LEMMA InitIInv == Init => IInv
<1> SUFFICES ASSUME Init PROVE IInv
  OBVIOUS
<1>1. TypeOK /\ EndOK
  BY InitType
<1>2. Live(log) = {}
  BY DEF Init, Live
<1>3. Acyclic(Arcs(Live(log)))
  BY <1>2 DEF Arcs, Acyclic
<1>4. \A p \in Proc : pc[p] # "adding"
  BY DEF Init
<1> QED BY <1>1, <1>3, <1>4 DEF IInv, NoCycle, Pending

\* A check that passes while nobody else is adding vouches for its edge.
LEMMA BeginAddKeeps ==
  ASSUME IInv, NEW p \in Proc, NEW e \in Offered, BeginAdd(p, e), ~ raced'
  PROVE  NoCycle' /\ Pending'
<1>1. /\ TypeOK /\ ~ raced /\ Readable(log)
      /\ \A q \in Proc : pc[q] # "adding"
      /\ log' = log
      /\ pc' = [pc EXCEPT ![p] = "adding"]
      /\ arg' = [arg EXCEPT ![p] = e]
      /\ IsBlocking(e) /\ CycleFree(Live(log), e)
  BY DEF IInv, BeginAdd, Begin
<1>2. Acyclic(Arcs(Live(log)))
  BY <1>1 DEF IInv, NoCycle
<1>3. Acyclic(Arcs(Live(log) \cup {e}))
  BY <1>1, <1>2, CheckedEdgeKeepsAcyclic, OfferedAssumption
<1>4. \A q \in Proc : pc'[q] = "adding" => q = p /\ arg'[q] = e
  BY <1>1 DEF TypeOK
<1>5. Live(log') = Live(log)
  BY <1>1
<1> QED BY <1>2, <1>3, <1>4, <1>5 DEF NoCycle, Pending

\* The one addition under way appends an edge the invariant vouches for.
LEMMA FinishAddKeeps ==
  ASSUME IInv, NEW p \in Proc, EndAdd(p) \/ AddFails(p), ~ raced', Readable(log')
  PROVE  NoCycle' /\ Pending'
<1>1. /\ TypeOK /\ ~ raced /\ pc[p] = "adding" /\ Readable(log)
      /\ pc' = [pc EXCEPT ![p] = "idle"]
      /\ Live(log') \in {Live(log), Live(log) \cup {arg[p]}}
  BY FinishAdd DEF IInv, Return
<1>2. Acyclic(Arcs(Live(log) \cup {arg[p]})) /\ Acyclic(Arcs(Live(log)))
  BY <1>1 DEF IInv, Pending, NoCycle
<1>3. \A q \in Proc : pc'[q] # "adding"
  BY <1>1 DEF IInv, Pending, TypeOK
<1>4. Acyclic(Arcs(Live(log')))
  BY <1>1, <1>2
<1> QED BY <1>3, <1>4 DEF NoCycle, Pending

\* A removal, or an edge that is not blocking, adds no arc to what is there or
\* to what an addition under way will make of it.
LEMMA NoNewArcKeeps ==
  ASSUME IInv, Readable(log), ~ raced, UNCHANGED arg,
         \A q \in Proc : pc'[q] = "adding" => pc[q] = "adding",
         \A X : Arcs(Live(log') \cup X) \subseteq Arcs(Live(log) \cup X)
  PROVE  NoCycle' /\ Pending'
<1>1. Acyclic(Arcs(Live(log)))
  BY DEF IInv, NoCycle
<1>2. Arcs(Live(log')) \subseteq Arcs(Live(log))
  <2>1. Live(log') \cup {} = Live(log') /\ Live(log) \cup {} = Live(log)
    OBVIOUS
  <2> QED BY <2>1
<1>3. NoCycle'
  BY <1>1, <1>2, AcyclicSubset DEF NoCycle
<1>4. ASSUME NEW q \in Proc, pc'[q] = "adding"
      PROVE  Acyclic(Arcs(Live(log') \cup {arg'[q]}))
  <2>1. Acyclic(Arcs(Live(log) \cup {arg[q]}))
    BY <1>4 DEF IInv, Pending
  <2>2. Arcs(Live(log') \cup {arg'[q]}) \subseteq Arcs(Live(log) \cup {arg[q]})
    OBVIOUS
  <2> QED BY <2>1, <2>2, AcyclicSubset
<1>5. \A q, r \in Proc : pc'[q] = "adding" /\ pc'[r] = "adding" => q = r
  BY DEF IInv, Pending
<1> QED BY <1>3, <1>4, <1>5 DEF Pending

\* Every step preserves the invariant.
LEMMA NextIInv == IInv /\ [Next]_vars => IInv'
<1> SUFFICES ASSUME IInv, [Next]_vars PROVE IInv'
  OBVIOUS
<1>0. TypeOK /\ EndOK /\ TypeOK' /\ EndOK'
  BY NextType DEF IInv
<1> SUFFICES ASSUME ~ raced', Readable(log') PROVE NoCycle' /\ Pending'
  BY <1>0 DEF IInv, NoCycle, Pending
<1>1. ASSUME NEW p \in Proc, NEW e \in Offered, BeginAdd(p, e)
      PROVE  NoCycle' /\ Pending'
  BY <1>1, BeginAddKeeps
<1>2. ASSUME NEW p \in Proc, NEW e \in Offered,
             AddUnchecked(p, e) \/ AddUncheckedFails(p, e)
      PROVE  NoCycle' /\ Pending'
  <2>1. /\ Readable(log) /\ ~ IsBlocking(e) /\ UNCHANGED <<pc, arg, raced>>
        /\ Live(log') \in {Live(log), Live(log) \cup {e}}
    BY <1>0, <1>2, FinishUnchecked
  <2>2. \A X : Arcs(Live(log') \cup X) \subseteq Arcs(Live(log) \cup X)
    BY <2>1 DEF Arcs
  <2> QED BY <2>1, <2>2, NoNewArcKeeps
<1>3. ASSUME NEW p \in Proc, NEW e \in Offered, BeginRemove(p, e)
      PROVE  NoCycle' /\ Pending'
  <2>1. /\ ~ raced /\ log' = log /\ Readable(log)
        /\ pc' = [pc EXCEPT ![p] = "removing"]
        /\ arg' = [arg EXCEPT ![p] = e]
    BY <1>3 DEF BeginRemove, Begin
  <2>2. \A q \in Proc : pc'[q] = "adding" => pc[q] = "adding" /\ arg'[q] = arg[q]
    BY <1>0, <2>1 DEF TypeOK
  <2>3. Live(log') = Live(log)
    BY <2>1
  <2>4. NoCycle'
    BY <2>1, <2>3 DEF IInv, NoCycle
  <2>5. Pending'
    BY <2>1, <2>2, <2>3 DEF IInv, Pending
  <2> QED BY <2>4, <2>5
<1>4. ASSUME NEW p \in Proc, EndAdd(p) \/ AddFails(p)
      PROVE  NoCycle' /\ Pending'
  BY <1>4, FinishAddKeeps
<1>5. ASSUME NEW p \in Proc, EndRemove(p) \/ RemoveFails(p)
      PROVE  NoCycle' /\ Pending'
  <2>1. /\ Readable(log) /\ ~ raced /\ UNCHANGED arg
        /\ pc' = [pc EXCEPT ![p] = "idle"]
        /\ Live(log') \subseteq Live(log)
    BY <1>0, <1>5, FinishRemove DEF Return
  <2>2. \A q \in Proc : pc'[q] = "adding" => pc[q] = "adding"
    BY <1>0, <2>1 DEF TypeOK
  <2>3. \A X : Arcs(Live(log') \cup X) \subseteq Arcs(Live(log) \cup X)
    BY <2>1, ArcsSubset
  <2> QED BY <2>1, <2>2, <2>3, NoNewArcKeeps
<1>6. CASE UNCHANGED vars
  <2>1. log' = log /\ pc' = pc /\ arg' = arg /\ raced' = raced
    BY <1>6 DEF vars
  <2> QED BY <2>1 DEF IInv, NoCycle, Pending
<1> QED BY <1>1, <1>2, <1>3, <1>4, <1>5, <1>6 DEF Next

\* The invariant holds in every reachable state.
LEMMA IInvInvariant == Spec => []IInv
  BY InitIInv, NextIInv, PTL DEF Spec

\* As long as no two checked additions overlap, the blocking edges on disk form
\* no cycle, for any number of processes, orbs, edges and failed writes.
THEOREM NoCycleWithoutRace == Spec => []NoCycle
<1>1. IInv => NoCycle
  BY DEF IInv
<1> QED BY <1>1, IInvInvariant, PTL

-----------------------------------------------------------------------------
(* The calls, and the promise.                                             *)

\* Every call that returns Ok has taken effect in the edges read back.
THEOREM CallsEffective == Spec => CallsTakeEffect
<1> DEFINE A == \A p \in Proc :
                  /\ EndAdd(p) \/ EndRemove(p) => Readable(log') \/ fails > 0
                  /\ EndAdd(p) /\ Readable(log') => arg[p] \in Live(log')
                  /\ EndRemove(p) /\ Readable(log') => arg[p] \notin Live(log')
<1>1. IInv /\ [Next]_vars => [A]_vars
  <2> SUFFICES ASSUME IInv, NEW p \in Proc
               PROVE  /\ EndAdd(p) \/ EndRemove(p) => Readable(log') \/ fails > 0
                      /\ EndAdd(p) /\ Readable(log') => arg[p] \in Live(log')
                      /\ EndRemove(p) /\ Readable(log') => arg[p] \notin Live(log')
    OBVIOUS
  <2>1. TypeOK /\ EndOK /\ arg[p] \in Offered
    BY DEF IInv, TypeOK
  <2>2. ASSUME EndAdd(p) \/ EndRemove(p), ~ (fails > 0) PROVE Readable(log')
    <3>1. fails = 0 /\ ~ open /\ Readable(log)
      BY <2>1, <2>2 DEF TypeOK, EndOK
    <3>2. PICK r \in BOOLEAN : log' = Extended([edge |-> arg[p], removed |-> r])
      BY <2>2 DEF EndAdd, EndRemove, AppendRaw
    <3>3. /\ [edge |-> arg[p], removed |-> r] \in Text
          /\ [edge |-> arg[p], removed |-> r] # Bad
      BY <2>1, OfferedAssumption, BadAssumption DEF Line, Text
    <3> QED BY <2>1, <3>1, <3>2, <3>3, ExtendedFacts DEF TypeOK, Text
  <2>3. ASSUME EndAdd(p), Readable(log') PROVE arg[p] \in Live(log')
    <3>1. log' = Extended([edge |-> arg[p], removed |-> FALSE])
      BY <2>3 DEF EndAdd, AppendRaw
    <3> QED BY <2>1, <2>3, <3>1, WrittenLive
  <2>4. ASSUME EndRemove(p), Readable(log') PROVE arg[p] \notin Live(log')
    <3>1. log' = Extended([edge |-> arg[p], removed |-> TRUE])
      BY <2>4 DEF EndRemove, AppendRaw
    <3> QED BY <2>1, <2>4, <3>1, WrittenLive
  <2> QED BY <2>2, <2>3, <2>4
<1> QED BY <1>1, IInvInvariant, PTL DEF Spec, CallsTakeEffect

\* The promise speaks of the same graph.
LEMMA SameGraph ==
  /\ \A e : Promise!IsBlocking(e) <=> IsBlocking(e)
  /\ \A E : Promise!Arcs(E) = Arcs(E)
  /\ \A A : Promise!Acyclic(A) <=> Acyclic(A)
<1>1. \A e : Promise!IsBlocking(e) <=> IsBlocking(e)
  BY DEF Promise!IsBlocking, IsBlocking
<1>2. \A e : Promise!Arc(e) = Arc(e)
  BY DEF Promise!Arc, Arc
<1>3. \A E : Promise!Arcs(E) = Arcs(E)
  BY <1>1, <1>2 DEF Promise!Arcs, Arcs
<1>4. \A A : Promise!Acyclic(A) <=> Acyclic(A)
  BY DEF Promise!Acyclic, Acyclic
<1> QED BY <1>1, <1>3, <1>4

\* Every step either is the overlap of two additions, or spoils the file, or
\* leaves the edges read back as they were, or is one allowed call of DepPromise.
LEMMA StepKeepsPromise ==
  IInv /\ [Next]_vars => [raced' \/ ~ Readable(log') \/ Promise!Next]_ReadBack
<1> SUFFICES ASSUME IInv, [Next]_vars, ~ raced', Readable(log'), ReadBack' # ReadBack
             PROVE  Promise!Next
  OBVIOUS
<1>0. TypeOK /\ EndOK
  BY DEF IInv
<1>a. ReadBack' = Live(log') /\ (Readable(log) => ReadBack = Live(log))
  BY DEF ReadBack, Readable, Live, Latest
<1> USE DEF Promise!Next, Promise!Add, Promise!Remove
<1>1. ASSUME NEW p \in Proc, NEW e \in Offered, BeginAdd(p, e) \/ BeginRemove(p, e)
      PROVE  FALSE
  <2>1. log' = log
    BY <1>1 DEF BeginAdd, BeginRemove, Begin
  <2> QED BY <1>a, <2>1
<1>2. ASSUME NEW p \in Proc, NEW e \in Offered,
             AddUnchecked(p, e) \/ AddUncheckedFails(p, e)
      PROVE  Promise!Next
  <2>1. /\ Readable(log) /\ ~ IsBlocking(e)
        /\ Live(log') \in {Live(log), Live(log) \cup {e}}
    BY <1>0, <1>2, FinishUnchecked
  <2>2. ReadBack' = ReadBack \cup {e}
    BY <1>a, <2>1
  <2>3. Promise!Add(e)
    BY <2>1, <2>2, SameGraph
  <2> QED BY <2>3
<1>3. ASSUME NEW p \in Proc, EndAdd(p) \/ AddFails(p)
      PROVE  Promise!Next
  <2>1. /\ Readable(log) /\ pc[p] = "adding" /\ ~ raced /\ arg[p] \in Offered
        /\ Live(log') \in {Live(log), Live(log) \cup {arg[p]}}
    BY <1>0, <1>3, FinishAdd DEF Return, TypeOK
  <2>2. ReadBack' = ReadBack \cup {arg[p]} /\ ReadBack = Live(log)
    BY <1>a, <2>1
  <2>3. Acyclic(Arcs(Live(log) \cup {arg[p]}))
    BY <2>1 DEF IInv, Pending
  <2>4. Promise!Add(arg[p])
    BY <2>2, <2>3, SameGraph
  <2> QED BY <2>1, <2>4
<1>4. ASSUME NEW p \in Proc, EndRemove(p) \/ RemoveFails(p)
      PROVE  Promise!Next
  <2>1. /\ Readable(log) /\ arg[p] \in Offered
        /\ Live(log') \in {Live(log), Live(log) \ {arg[p]}}
    BY <1>0, <1>4, FinishRemove DEF TypeOK
  <2>2. ReadBack' = ReadBack \ {arg[p]} /\ arg[p] \in ReadBack
    BY <1>a, <2>1
  <2>3. Promise!Remove(arg[p])
    BY <2>2
  <2> QED BY <2>1, <2>3
<1>5. CASE UNCHANGED vars
  BY <1>5, <1>a DEF vars
<1> QED BY <1>1, <1>2, <1>3, <1>4, <1>5 DEF Next

\* Until additions overlap or a failed write spoils the file, the file with its
\* readers and writers implements the abstract store.
THEOREM ImplementsPromise == Spec => KeepsPromise
<1>1. Init => Promise!Init
  BY DEF Init, Promise!Init, ReadBack, Live
<1> QED BY <1>1, StepKeepsPromise, IInvInvariant, PTL DEF Spec, KeepsPromise
=============================================================================
