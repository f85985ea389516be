--------------------------- MODULE Planning_proofs ---------------------------
(***************************************************************************)
(* Proofs about Planning and the two modules it is made of, for every      *)
(* input: any orbs, any priorities, any edges, any parents.                *)
(*                                                                         *)
(* pipeline: IInv says what the two loops keep of the in-degrees and the   *)
(* queue of Kahn's algorithm, UrgencyInv what the priorities are while     *)
(* they are propagated, LevelInv that the queue and the order are sorted   *)
(* by level.                                                               *)
(*                                                                         *)
(* tree: BuildInv says what the calls and the nodes made so far have of    *)
(* the tree, Preorder what flatten will list.  What the readers compute    *)
(* follows by induction from the leaves up.                                *)
(***************************************************************************)
EXTENDS Planning, SequenceTheorems, FiniteSetTheorems, TLAPS

-----------------------------------------------------------------------------
(* Facts about numbers and sequences.                                      *)

LEMMA LeastNatural ==
  ASSUME NEW S \in SUBSET Nat, S # {}
  PROVE  \E p \in S : \A q \in S : p <= q
<1>1. PICK p \in S : \A q \in S : ~ (<<q, p>> \in OpToRel(<, Nat))
  BY NatLessThanWellFounded, WFMin
<1>2. ASSUME NEW q \in S PROVE p <= q
  <2>1. q \in Nat /\ p \in Nat
    OBVIOUS
  <2>2. ~ (q < p)
    BY <1>1, <2>1 DEF OpToRel
  <2> QED BY <2>1, <2>2
<1> QED BY <1>2

LEMMA Induction ==
  ASSUME NEW S \in SUBSET Nat, 0 \in S, \A n \in S : n + 1 \in S
  PROVE  S = Nat
<1> SUFFICES ASSUME Nat \ S # {} PROVE FALSE
  OBVIOUS
<1>1. PICK p \in Nat \ S : \A q \in Nat \ S : p <= q
  <2>1. Nat \ S \in SUBSET Nat
    OBVIOUS
  <2> QED BY <2>1, LeastNatural
<1>2. p - 1 \in Nat
  BY <1>1
<1>3. p - 1 \in S
  BY <1>1, <1>2
<1>4. (p - 1) + 1 = p
  BY <1>1
<1> QED BY <1>1, <1>3, <1>4

\* g lists the first N iterates of F from x0.
Iterated(g, X, F, x0, N) ==
  g \in [0 .. N -> X] /\ g[0] = x0 /\ \A n \in 1 .. N : g[n] = F[g[n - 1]]

\* What a recursive definition asks for exists.
LEMMA Iterates ==
  ASSUME NEW X, NEW F \in [X -> X], NEW x0 \in X, NEW N \in Nat
  PROVE  \E g : Iterated(g, X, F, x0, N)
<1> DEFINE Good(k) == \E g : Iterated(g, X, F, x0, k)
           S == {k \in Nat : Good(k)}
<1>1. Good(0)
  <2> DEFINE g == [n \in 0 .. 0 |-> x0]
  <2>1. Iterated(g, X, F, x0, 0)
    BY DEF Iterated
  <2> HIDE DEF g
  <2> QED BY <2>1
<1>2. ASSUME NEW k \in Nat, Good(k) PROVE Good(k + 1)
  <2>1. PICK g : Iterated(g, X, F, x0, k)
    BY <1>2
  <2> DEFINE h == [n \in 0 .. k + 1 |-> IF n = k + 1 THEN F[g[k]] ELSE g[n]]
  <2>2. h \in [0 .. k + 1 -> X]
    <3>1. k \in 0 .. k /\ \A n \in 0 .. k + 1 : n # k + 1 => n \in 0 .. k
      OBVIOUS
    <3> QED BY <2>1, <3>1 DEF Iterated
  <2>3. h[0] = x0
    BY <2>1 DEF Iterated
  <2>4. ASSUME NEW n \in 1 .. k + 1 PROVE h[n] = F[h[n - 1]]
    <3>1. n \in 0 .. k + 1 /\ n - 1 \in 0 .. k + 1 /\ n - 1 # k + 1
      OBVIOUS
    <3>2. h[n - 1] = g[n - 1]
      BY <3>1
    <3>3. CASE n = k + 1
      BY <3>1, <3>2, <3>3
    <3>4. CASE n # k + 1
      <4>1. n \in 1 .. k /\ h[n] = g[n]
        BY <3>1, <3>4
      <4> QED BY <2>1, <3>2, <4>1 DEF Iterated
    <3> QED BY <3>3, <3>4
  <2> HIDE DEF h
  <2>5. Iterated(h, X, F, x0, k + 1)
    BY <2>2, <2>3, <2>4 DEF Iterated
  <2> QED BY <2>5
<1> HIDE DEF Good
<1>3. S = Nat
  <2>1. S \in SUBSET Nat /\ 0 \in S /\ \A n \in S : n + 1 \in S
    BY <1>1, <1>2
  <2> HIDE DEF S
  <2> QED BY <2>1, Induction
<1>4. Good(N)
  BY <1>3
<1> QED BY <1>4 DEF Good

Members(s) == {s[i] : i \in DOMAIN s}

LEMMA MembersOfAppend ==
  ASSUME NEW S, NEW s \in Seq(S), NEW x \in S
  PROVE  Members(Append(s, x)) = Members(s) \cup {x}
<1>1. /\ Append(s, x) \in Seq(S) /\ Len(Append(s, x)) = Len(s) + 1
      /\ \A i \in 1 .. Len(s) : Append(s, x)[i] = s[i]
      /\ Append(s, x)[Len(s) + 1] = x
  BY AppendProperties
<1>2. Len(s) \in Nat /\ DOMAIN s = 1 .. Len(s) /\ DOMAIN Append(s, x) = 1 .. Len(s) + 1
  BY <1>1, LenProperties
<1>3. \A i \in 1 .. Len(s) + 1 : i \in 1 .. Len(s) \/ i = Len(s) + 1
  BY <1>2
<1>4. 1 .. Len(s) \subseteq 1 .. Len(s) + 1 /\ Len(s) + 1 \in 1 .. Len(s) + 1
  BY <1>2
<1> QED BY <1>1, <1>2, <1>3, <1>4 DEF Members

LEMMA MembersOfConcat ==
  ASSUME NEW S, NEW s \in Seq(S), NEW t \in Seq(S)
  PROVE  Members(s \o t) = Members(s) \cup Members(t)
<1> DEFINE m == Len(s)
           n == Len(t)
<1>1. /\ s \o t \in Seq(S) /\ Len(s \o t) = m + n
      /\ \A i \in 1 .. m + n : (s \o t)[i] = IF i <= m THEN s[i] ELSE t[i - m]
  BY ConcatProperties
<1>2. /\ m \in Nat /\ DOMAIN s = 1 .. m
      /\ n \in Nat /\ DOMAIN t = 1 .. n
      /\ DOMAIN (s \o t) = 1 .. m + n
  BY <1>1, LenProperties
<1> HIDE DEF m, n
<1>3. ASSUME NEW i \in 1 .. m + n PROVE (s \o t)[i] \in Members(s) \cup Members(t)
  <2>1. CASE i <= m
    BY <1>1, <1>2, <2>1 DEF Members
  <2>2. CASE ~ (i <= m)
    <3>1. i - m \in 1 .. n
      BY <1>2, <2>2
    <3> QED BY <1>1, <1>2, <2>2, <3>1 DEF Members
  <2> QED BY <2>1, <2>2
<1>4. ASSUME NEW i \in 1 .. m PROVE s[i] \in Members(s \o t)
  <2>1. i \in 1 .. m + n /\ i <= m
    BY <1>2
  <2> QED BY <1>1, <1>2, <2>1 DEF Members
<1>5. ASSUME NEW i \in 1 .. n PROVE t[i] \in Members(s \o t)
  <2>1. m + i \in 1 .. m + n /\ ~ (m + i <= m) /\ (m + i) - m = i
    BY <1>2
  <2> QED BY <1>1, <1>2, <2>1 DEF Members
<1> QED BY <1>2, <1>3, <1>4, <1>5 DEF Members

LEMMA MembersOfTail ==
  ASSUME NEW S, NEW s \in Seq(S), s # <<>>
  PROVE  /\ Tail(s) \in Seq(S) /\ Head(s) \in S
         /\ Members(s) = Members(Tail(s)) \cup {Head(s)}
<1>1. /\ Head(s) \in S /\ Tail(s) \in Seq(S) /\ Len(Tail(s)) = Len(s) - 1
      /\ \A i \in 1 .. Len(Tail(s)) : Tail(s)[i] = s[i + 1]
  BY HeadTailProperties
<1>2. /\ Len(s) \in Nat /\ Len(s) >= 1 /\ DOMAIN s = 1 .. Len(s)
      /\ DOMAIN Tail(s) = 1 .. Len(s) - 1
  BY <1>1, LenProperties, EmptySeq
<1>3. Head(s) = s[1] /\ 1 \in DOMAIN s
  BY <1>2
<1>4. ASSUME NEW i \in 1 .. Len(s) - 1 PROVE i + 1 \in 1 .. Len(s)
  BY <1>2
<1>5. ASSUME NEW i \in 1 .. Len(s), i # 1
      PROVE  i - 1 \in 1 .. Len(s) - 1 /\ (i - 1) + 1 = i
  BY <1>2, <1>5
<1>6. Members(s) \subseteq Members(Tail(s)) \cup {Head(s)}
  <2> SUFFICES ASSUME NEW i \in 1 .. Len(s), i # 1 PROVE s[i] \in Members(Tail(s))
    BY <1>2, <1>3 DEF Members
  <2>1. i - 1 \in DOMAIN Tail(s) /\ Tail(s)[i - 1] = s[(i - 1) + 1] /\ (i - 1) + 1 = i
    BY <1>1, <1>2, <1>5
  <2> QED BY <2>1 DEF Members
<1>7. Members(Tail(s)) \cup {Head(s)} \subseteq Members(s)
  BY <1>1, <1>2, <1>3, <1>4 DEF Members
<1> QED BY <1>1, <1>6, <1>7

Once(s) == \A i, j \in DOMAIN s : s[i] = s[j] => i = j

\* An arrangement of a finite set lists each member once.
LEMMA ArrangementLists ==
  ASSUME NEW S, IsFiniteSet(S), NEW s \in Arrangements(S)
  PROVE  /\ s \in Seq(S) /\ Members(s) = S
         /\ Once(s)
<1> DEFINE n == Cardinality(S)
<1>1. n \in Nat
  BY FS_CardinalityType
<1>2. s \in [1 .. n -> S] /\ \A i, j \in DOMAIN s : s[i] = s[j] => i = j
  BY DEF Arrangements
<1>3. s \in Seq(S)
  BY <1>1, <1>2, SeqDef
<1>4. s \in Injection(1 .. n, S)
  BY <1>2 DEF Injection, IsInjective
<1>5. IsFiniteSet(1 .. n) /\ Cardinality(1 .. n) = n
  BY <1>1, FS_Interval
<1>6. s \in Surjection(1 .. n, S)
  BY <1>4, <1>5, FS_Injection
<1>7. Members(s) = S
  BY <1>2, <1>6 DEF Surjection, Members
<1> QED BY <1>2, <1>3, <1>7 DEF Once

LEMMA OnceAppended ==
  ASSUME NEW S, NEW s \in Seq(S), NEW x \in S, Once(s), x \notin Members(s)
  PROVE  Once(Append(s, x))
<1>1. /\ Append(s, x) \in Seq(S) /\ Len(Append(s, x)) = Len(s) + 1
      /\ \A i \in 1 .. Len(s) : Append(s, x)[i] = s[i]
      /\ Append(s, x)[Len(s) + 1] = x
  BY AppendProperties
<1>2. Len(s) \in Nat /\ DOMAIN s = 1 .. Len(s) /\ DOMAIN Append(s, x) = 1 .. Len(s) + 1
  BY <1>1, LenProperties
<1>3. \A i \in 1 .. Len(s) + 1 : i \in 1 .. Len(s) \/ i = Len(s) + 1
  BY <1>2
<1>4. \A i \in 1 .. Len(s) : s[i] # x
  BY <1>2 DEF Members
<1> QED BY <1>1, <1>2, <1>3, <1>4 DEF Once

LEMMA OnceConcatenated ==
  ASSUME NEW S, NEW s \in Seq(S), NEW t \in Seq(S), Once(s), Once(t),
         Members(s) \cap Members(t) = {}
  PROVE  Once(s \o t)
<1> DEFINE m == Len(s)
           n == Len(t)
<1>1. /\ s \o t \in Seq(S) /\ Len(s \o t) = m + n
      /\ \A i \in 1 .. m + n : (s \o t)[i] = IF i <= m THEN s[i] ELSE t[i - m]
  BY ConcatProperties
<1>2. /\ m \in Nat /\ DOMAIN s = 1 .. m
      /\ n \in Nat /\ DOMAIN t = 1 .. n
      /\ DOMAIN (s \o t) = 1 .. m + n
  BY <1>1, LenProperties
<1> HIDE DEF m, n
<1>3. ASSUME NEW i \in 1 .. m + n
      PROVE  \/ i \in 1 .. m /\ (s \o t)[i] = s[i]
             \/ i - m \in 1 .. n /\ (s \o t)[i] = t[i - m]
  <2>1. CASE i <= m
    BY <1>1, <1>2, <2>1
  <2>2. CASE ~ (i <= m)
    BY <1>1, <1>2, <2>2
  <2> QED BY <2>1, <2>2
<1>4. \A i \in 1 .. m, j \in 1 .. n : s[i] # t[j]
  BY <1>2 DEF Members
<1>5. ASSUME NEW i \in 1 .. m + n, NEW j \in 1 .. m + n, (s \o t)[i] = (s \o t)[j]
      PROVE  i = j
  <2>1. CASE i \in 1 .. m /\ (s \o t)[i] = s[i]
    <3>1. j \in 1 .. m /\ (s \o t)[j] = s[j]
      BY <1>3, <1>4, <1>5, <2>1
    <3> QED BY <1>2, <1>5, <2>1, <3>1 DEF Once
  <2>2. CASE i - m \in 1 .. n /\ (s \o t)[i] = t[i - m]
    <3>1. j - m \in 1 .. n /\ (s \o t)[j] = t[j - m]
      BY <1>3, <1>4, <1>5, <2>2
    <3>2. i - m = j - m
      BY <1>2, <1>5, <2>2, <3>1 DEF Once
    <3> QED BY <1>2, <3>2
  <2> QED BY <1>3, <2>1, <2>2
<1> QED BY <1>2, <1>5 DEF Once

-----------------------------------------------------------------------------
(* Edges and in-degrees.                                                   *)

\* The edges by which orbs of S hold y back.
Holding(y, S) == {e \in input.edges : IsBlocking(e) /\ Arc(e) \in S \X {y}}

LEMMA InputFacts ==
  ASSUME input \in Input
  PROVE  /\ Ids \subseteq OrbId /\ IsFiniteSet(Ids) /\ IsFiniteSet(input.edges)
         /\ input.own \in [Ids -> Nat]
         /\ input.edges \subseteq Edge
BY InputAssumption DEF Ids

LEMMA HoldingIsFinite ==
  ASSUME input \in Input, NEW y, NEW S
  PROVE  IsFiniteSet(Holding(y, S)) /\ Cardinality(Holding(y, S)) \in Nat
<1>1. Holding(y, S) \in SUBSET input.edges
  BY DEF Holding
<1> QED BY <1>1, InputFacts, FS_Subset, FS_CardinalityType

LEMMA CountsAreHolding ==
  ASSUME NEW x, NEW y
  PROVE  /\ EdgesInto(y) = Cardinality(Holding(y, Ids))
         /\ EdgesBetween(x, y) = Cardinality(Holding(y, {x}))
<1>1. Holding(y, {x}) = {e \in input.edges : IsBlocking(e) /\ Arc(e) = <<x, y>>}
  BY DEF Holding, Arc
<1> QED BY <1>1 DEF EdgesInto, EdgesBetween, Holding

LEMMA BetweenIsNatural ==
  ASSUME input \in Input, NEW x, NEW y
  PROVE  EdgesBetween(x, y) \in Nat
<1>1. EdgesBetween(x, y) = Cardinality(Holding(y, {x}))
  BY CountsAreHolding
<1> QED BY <1>1, HoldingIsFinite

\* Nothing holds y back exactly if no arc runs to it.
LEMMA NothingHolds ==
  ASSUME input \in Input, NEW y, NEW S
  PROVE  Cardinality(Holding(y, S)) = 0 <=> \A x \in S : <<x, y>> \notin ArcsNow
<1>1. Cardinality(Holding(y, S)) = 0 <=> Holding(y, S) = {}
  BY HoldingIsFinite, FS_EmptySet
<1>2. ASSUME NEW x \in S, <<x, y>> \in ArcsNow PROVE Holding(y, S) # {}
  <2>1. PICK e \in input.edges : IsBlocking(e) /\ Arc(e) = <<x, y>>
    BY <1>2 DEF ArcsNow, Arcs
  <2> QED BY <2>1 DEF Holding
<1>3. ASSUME Holding(y, S) # {} PROVE \E x \in S : <<x, y>> \in ArcsNow
  <2>1. PICK e \in input.edges : IsBlocking(e) /\ Arc(e) \in S \X {y}
    BY <1>3 DEF Holding
  <2>2. PICK x \in S : Arc(e) = <<x, y>>
    BY <2>1
  <2> QED BY <2>1, <2>2 DEF ArcsNow, Arcs
<1> QED BY <1>1, <1>2, <1>3

\* Counting an orb's edges down is leaving it out.
LEMMA CountingDown ==
  ASSUME input \in Input, NEW y, NEW S, NEW x \in S
  PROVE  Less(Cardinality(Holding(y, S)), EdgesBetween(x, y))
           = Cardinality(Holding(y, S \ {x}))
<1> DEFINE H == Holding(y, S)
           B == Holding(y, {x})
<1>1. Holding(y, S \ {x}) = H \ B /\ H \cap B = B
  BY DEF Holding, Arc
<1>2. IsFiniteSet(H) /\ Cardinality(H) \in Nat /\ Cardinality(B) \in Nat
  BY HoldingIsFinite
<1>3. Cardinality(H \ B) = Cardinality(H) - Cardinality(B)
  <2>1. Cardinality(H \ B) = Cardinality(H) - Cardinality(H \cap B)
    BY <1>2, FS_Difference
  <2> QED BY <1>1, <2>1
<1>4. Cardinality(H \ B) \in Nat
  BY <1>1, HoldingIsFinite
<1>5. EdgesBetween(x, y) = Cardinality(B)
  BY CountsAreHolding
<1>6. \A a, b \in Nat : a - b \in Nat => Less(a, b) = a - b
  BY DEF Less
<1> HIDE DEF H, B
<1>7. Less(Cardinality(H), Cardinality(B)) = Cardinality(H \ B)
  BY <1>2, <1>3, <1>4, <1>6
<1> QED BY <1>1, <1>5, <1>7 DEF H

-----------------------------------------------------------------------------
(* ready and waiting.                                                      *)

LEMMA ReadyRight == ASSUME input \in Input PROVE SomeReady
<1>1. Ready \cup Waiting = Unfinished /\ Ready \cap Waiting = {}
  BY DEF Ready, Waiting
<1>2. ASSUME Acyclic(ArcsNow), Unfinished # {}, Ready = {}
      PROVE  \E x \in Waiting, y \in Ids :
               <<y, x>> \in ArcsNow /\ Status(y) \in {"Failed", "Cancelled"}
  <2>1. Unfinished \in SUBSET OrbId
    BY InputFacts DEF Unfinished
  <2>2. PICK x \in Unfinished : \A y \in Unfinished : <<y, x>> \notin ArcsNow
    BY <1>2, <2>1 DEF Acyclic
  <2>3. x \in Waiting
    BY <1>1, <1>2, <2>2
  <2>4. PICK y \in Blockers(x) \cap Ids : Status(y) # "Done"
    BY <2>3 DEF Waiting
  <2>5. <<y, x>> \in ArcsNow /\ y \notin Unfinished
    BY <2>2, <2>4 DEF Blockers
  <2>6. Status(y) \in {"Failed", "Cancelled"}
    BY <2>4, <2>5 DEF Unfinished
  <2> QED BY <2>3, <2>4, <2>5, <2>6
<1> QED BY <1>1, <1>2 DEF SomeReady

\* Whatever the orbs and the edges: without a cycle of blocking edges some orb
\* is ready, unless none is unfinished or one waits for an orb given up.
THEOREM OneIsReady == Spec => []SomeReady
<1>1. Init => input \in Input
  BY DEF Init
<1>2. input \in Input /\ [Next]_vars => (input \in Input)'
  BY DEF Next, Propagate, Start, Take, Finish, vars
<1> QED BY <1>1, <1>2, ReadyRight, PTL DEF Spec

-----------------------------------------------------------------------------
(* The order of pipeline.                                                  *)

Unvisited == Ids \ Visited

\* Each orb is held back by its edges from orbs that are not in the order yet.
DegreesCount ==
  pc # "done" => \A y \in Ids : degree[y] = Cardinality(Holding(y, Unvisited))

\* What is in the queue is free, and what is free is in the queue or the order.
QueueIsFree == \A y \in Members(queue) : degree[y] = 0

FreeIsQueued ==
  pc = "take" => \A y \in Unvisited : degree[y] = 0 => y \in Members(queue)

BlockersFirst ==
  pc # "done" =>
    \A j \in DOMAIN result : \A y \in Ids :
      <<y, result[j]>> \in ArcsNow => \E i \in DOMAIN result : i < j /\ result[i] = y

IInv ==
  /\ input \in Input
  /\ TypeOK
  /\ pc = "propagate" => queue = <<>> /\ result = <<>>
  /\ DegreesCount
  /\ QueueIsFree
  /\ FreeIsQueued
  /\ Once(result)
  /\ BlockersFirst
  /\ PipelineOrder

LEMMA VisitedIsMembers == Visited = Members(result)
BY DEF Visited, Members

LEMMA NothingVisited ==
  ASSUME result = <<>>
  PROVE  Visited = {} /\ Once(result) /\ BlockersFirst
BY EmptySeq DEF Visited, Once, BlockersFirst

LEMMA InitIInv == ASSUME Init PROVE IInv
<1>1. input \in Input /\ pc = "propagate" /\ queue = <<>> /\ result = <<>>
  BY DEF Init
<1>2. Unvisited = Ids /\ Once(result) /\ BlockersFirst
  BY <1>1, NothingVisited DEF Unvisited
<1>3. \A y \in Ids : degree[y] = Cardinality(Holding(y, Ids))
  BY CountsAreHolding DEF Init
<1>4. degree \in [Ids -> Nat]
  BY <1>1, <1>3, HoldingIsFinite DEF Init
<1>5. TypeOK
  BY <1>1, <1>4, InputFacts, EmptySeq DEF Init, TypeOK
<1>6. Members(queue) = {}
  BY <1>1 DEF Members
<1> QED BY <1>1, <1>2, <1>3, <1>5, <1>6
        DEF IInv, DegreesCount, QueueIsFree, FreeIsQueued, PipelineOrder

LEMMA PropagateKeeps == ASSUME IInv, Propagate PROVE IInv'
<1>1. PICK x \in todo : effective' = [effective EXCEPT ![x] = MostUrgent(x)]
                       /\ todo' = todo \ {x}
  BY DEF Propagate
<1>2. UNCHANGED <<input, pc, degree, queue, result>>
  BY DEF Propagate
<1> DEFINE known == {effective[y] : y \in (Dependents(x) \cap Ids) \cup {x}}
<1>3. x \in Ids /\ effective \in [Ids -> Nat]
  BY DEF IInv, TypeOK
<1>4. known \in SUBSET Nat /\ known # {}
  BY <1>3
<1>5. PICK p \in known : \A q \in known : p <= q
  BY <1>4, LeastNatural
<1>6. MostUrgent(x) \in known
  BY <1>5 DEF MostUrgent
<1>7. effective' \in [Ids -> Nat]
  BY <1>1, <1>3, <1>4, <1>6
<1>8. /\ Ids' = Ids /\ ArcsNow' = ArcsNow /\ Visited' = Visited
      /\ \A y, S : Holding(y, S)' = Holding(y, S)
  BY <1>2 DEF Ids, ArcsNow, Visited, Holding
<1>9. TypeOK'
  BY <1>1, <1>2, <1>7, <1>8 DEF IInv, TypeOK
<1> QED BY <1>2, <1>8, <1>9
        DEF IInv, DegreesCount, QueueIsFree, FreeIsQueued, BlockersFirst, PipelineOrder,
            Unvisited

LEMMA StartKeeps == ASSUME IInv, Start PROVE IInv'
<1> DEFINE free == {y \in Ids : degree[y] = 0}
<1>1. /\ pc = "propagate" /\ pc' = "take" /\ queue' \in Sorted(free)
      /\ UNCHANGED <<input, todo, effective, degree, result>>
  BY DEF Start
<1>2. IsFiniteSet(free) /\ queue' \in Arrangements(free)
  BY <1>1, InputFacts, FS_Subset DEF IInv, Sorted
<1>3. queue' \in Seq(free) /\ Members(queue') = free
  BY <1>2, ArrangementLists
<1>4. queue' \in Seq(Ids)
  BY <1>3, SeqMonotonic
<1>5. /\ Ids' = Ids /\ ArcsNow' = ArcsNow /\ Visited' = Visited
      /\ \A y, S : Holding(y, S)' = Holding(y, S)
  BY <1>1 DEF Ids, ArcsNow, Visited, Holding
<1>6. TypeOK'
  BY <1>1, <1>4, <1>5 DEF IInv, TypeOK
<1>7. Members(queue)' = free
  BY <1>3 DEF Members
<1> QED BY <1>1, <1>5, <1>6, <1>7
        DEF IInv, DegreesCount, QueueIsFree, FreeIsQueued, BlockersFirst, PipelineOrder,
            Unvisited

\* An orb that is in the order already is only taken off the queue.
LEMMA SkipKeeps ==
  ASSUME IInv, Take, Head(queue) \in Visited
  PROVE  IInv'
<1>1. /\ pc = "take" /\ queue # <<>> /\ queue' = Tail(queue)
      /\ UNCHANGED <<input, pc, todo, effective, degree, result>>
  BY DEF Take
<1>2. /\ queue' \in Seq(Ids)
      /\ Members(queue) = Members(queue') \cup {Head(queue)}
  BY <1>1, MembersOfTail DEF IInv, TypeOK
<1>3. /\ Ids' = Ids /\ ArcsNow' = ArcsNow /\ Visited' = Visited
      /\ \A y, S : Holding(y, S)' = Holding(y, S)
      /\ Members(queue)' = Members(queue')
  BY <1>1 DEF Ids, ArcsNow, Visited, Holding, Members
<1>4. TypeOK'
  BY <1>1, <1>2, <1>3 DEF IInv, TypeOK
<1>5. QueueIsFree' /\ FreeIsQueued'
  BY <1>1, <1>2, <1>3 DEF IInv, QueueIsFree, FreeIsQueued, Unvisited
<1> QED BY <1>1, <1>3, <1>4, <1>5
        DEF IInv, DegreesCount, BlockersFirst, PipelineOrder, Unvisited

\* Otherwise it comes next in the order, and what it alone still held back joins
\* the queue.
LEMMA AppendKeeps ==
  ASSUME IInv, Take, Head(queue) \notin Visited
  PROVE  IInv'
<1> DEFINE x == Head(queue)
           left == [y \in Ids |-> Less(degree[y], EdgesBetween(x, y))]
           free == {y \in Ids \ (Visited \cup {x}) : EdgesBetween(x, y) > 0 /\ left[y] = 0}
<1>1. /\ pc = "take" /\ queue # <<>>
      /\ UNCHANGED <<input, pc, todo, effective>>
      /\ degree' = left /\ result' = Append(result, x)
  BY DEF Take
<1>2. PICK s \in Sorted(free) : queue' = Tail(queue) \o s
  BY <1>1 DEF Take, Enqueued
<1>3. /\ queue \in Seq(Ids) /\ result \in Seq(Ids) /\ degree \in [Ids -> Nat]
      /\ input \in Input
  BY DEF IInv, TypeOK
<1>4. /\ Tail(queue) \in Seq(Ids) /\ x \in Ids
      /\ Members(queue) = Members(Tail(queue)) \cup {x}
  BY <1>1, <1>3, MembersOfTail
<1>5. s \in Seq(Ids) /\ Members(s) = free
  <2>1. IsFiniteSet(free)
    BY <1>3, InputFacts, FS_Subset
  <2>2. s \in Seq(free) /\ Members(s) = free
    BY <2>1, ArrangementLists DEF Sorted
  <2>3. free \subseteq Ids
    OBVIOUS
  <2> QED BY <2>2, <2>3, SeqMonotonic
<1>6. queue' \in Seq(Ids) /\ Members(queue') = Members(Tail(queue)) \cup free
  <2>1. Tail(queue) \o s \in Seq(Ids)
    BY <1>4, <1>5, ConcatProperties
  <2>2. Members(Tail(queue) \o s) = Members(Tail(queue)) \cup Members(s)
    <3>1. \A q, p \in Seq(Ids) : Members(q \o p) = Members(q) \cup Members(p)
      BY MembersOfConcat
    <3> QED BY <1>4, <1>5, <3>1
  <2> QED BY <1>2, <1>5, <2>1, <2>2
<1>7. /\ result' \in Seq(Ids) /\ Members(result') = Visited \cup {x}
      /\ Once(result')
  BY <1>1, <1>3, <1>4, AppendProperties, MembersOfAppend, OnceAppended, VisitedIsMembers
     DEF IInv
<1>8. /\ Ids' = Ids /\ ArcsNow' = ArcsNow /\ Visited' = Visited \cup {x}
      /\ \A y, S : Holding(y, S)' = Holding(y, S)
      /\ Members(queue)' = Members(queue')
      /\ Unvisited' = Unvisited \ {x}
  BY <1>1, <1>7 DEF Ids, ArcsNow, Visited, Holding, Members, Unvisited
<1>9. x \in Unvisited /\ degree[x] = 0
  BY <1>4 DEF Unvisited, IInv, QueueIsFree
<1>10. ASSUME NEW y \in Ids
       PROVE  /\ left[y] = Cardinality(Holding(y, Unvisited \ {x}))
              /\ left[y] \in Nat
  <2>1. left[y] = Less(Cardinality(Holding(y, Unvisited)), EdgesBetween(x, y))
    BY <1>1 DEF IInv, DegreesCount
  <2>2. @ = Cardinality(Holding(y, Unvisited \ {x}))
    BY <1>3, <1>9, CountingDown
  <2>3. Cardinality(Holding(y, Unvisited \ {x})) \in Nat
    BY <1>3, HoldingIsFinite
  <2> QED BY <2>1, <2>2, <2>3
<1>11. TypeOK'
  BY <1>1, <1>6, <1>7, <1>8, <1>10 DEF IInv, TypeOK
<1>12. DegreesCount'
  BY <1>1, <1>8, <1>10 DEF DegreesCount
<1>13. ASSUME NEW y \in Ids, degree[y] = 0 PROVE left[y] = 0
  <2>1. EdgesBetween(x, y) \in Nat
    BY <1>3, BetweenIsNatural
  <2> QED BY <1>13, <2>1 DEF Less
<1>14. QueueIsFree'
  <2>1. ASSUME NEW y \in Members(queue') PROVE left[y] = 0
    <3>1. CASE y \in free
      BY <3>1
    <3>2. CASE y \in Members(Tail(queue))
      <4>1. y \in Ids /\ degree[y] = 0
        BY <1>3, <1>4, <3>2 DEF IInv, QueueIsFree, Members
      <4> QED BY <1>13, <4>1
    <3> QED BY <1>6, <2>1, <3>1, <3>2
  <2> QED BY <1>1, <1>8, <2>1 DEF QueueIsFree
<1>15. FreeIsQueued'
  <2>1. ASSUME NEW y \in Unvisited \ {x}, left[y] = 0 PROVE y \in Members(queue')
    <3>1. EdgesBetween(x, y) \in Nat /\ y \in Ids /\ y \notin Visited /\ degree[y] \in Nat
      BY <1>3, <2>1, BetweenIsNatural DEF Unvisited
    <3>2. CASE EdgesBetween(x, y) > 0
      BY <1>6, <2>1, <3>1, <3>2
    <3>3. CASE EdgesBetween(x, y) = 0
      <4>1. degree[y] = 0
        BY <2>1, <3>1, <3>3 DEF Less
      <4>2. y \in Members(queue)
        BY <1>1, <2>1, <4>1 DEF IInv, FreeIsQueued
      <4> QED BY <1>4, <1>6, <2>1, <4>2
    <3> QED BY <3>1, <3>2, <3>3
  <2> QED BY <1>1, <1>8, <2>1 DEF FreeIsQueued
<1>16. BlockersFirst'
  <2>1. /\ Len(result) \in Nat /\ DOMAIN result = 1 .. Len(result)
        /\ DOMAIN result' = 1 .. Len(result) + 1
        /\ \A i \in 1 .. Len(result) : result'[i] = result[i]
        /\ result'[Len(result) + 1] = x
    BY <1>1, <1>3, <1>4, <1>7, AppendProperties, LenProperties
  <2>2. ASSUME NEW j \in DOMAIN result', NEW y \in Ids, <<y, result'[j]>> \in ArcsNow
        PROVE  \E i \in DOMAIN result' : i < j /\ result'[i] = y
    <3>1. CASE j \in DOMAIN result
      <4>1. PICK i \in DOMAIN result : i < j /\ result[i] = y
        BY <1>1, <2>1, <2>2, <3>1 DEF IInv, BlockersFirst
      <4>2. i \in DOMAIN result' /\ result'[i] = y
        BY <2>1, <4>1
      <4> QED BY <4>1, <4>2
    <3>2. CASE j = Len(result) + 1
      <4>1. Cardinality(Holding(x, Unvisited)) = 0
        BY <1>1, <1>4, <1>9 DEF IInv, DegreesCount
      <4>2. y \in Visited
        BY <1>3, <2>1, <2>2, <3>2, <4>1, NothingHolds DEF Unvisited
      <4>3. PICK i \in DOMAIN result : result[i] = y
        BY <4>2 DEF Visited
      <4>4. i \in DOMAIN result' /\ i < j /\ result'[i] = y
        BY <2>1, <3>2, <4>3
      <4> QED BY <4>4
    <3> QED BY <2>1, <3>1, <3>2
  <2> QED BY <1>8, <2>2 DEF BlockersFirst
<1>17. Once(result)'
  BY <1>7 DEF Once
<1> QED BY <1>1, <1>3, <1>11, <1>12, <1>14, <1>15, <1>16, <1>17 DEF IInv, PipelineOrder

\* What the loop has not reached follows; without a cycle that is nothing.
LEMMA FinishKeeps == ASSUME IInv, Finish PROVE IInv'
<1>1. /\ pc = "take" /\ queue = <<>> /\ pc' = "done"
      /\ UNCHANGED <<input, todo, effective, degree, queue>>
  BY DEF Finish
<1>2. PICK s \in Arrangements(Unvisited) : result' = result \o s
  BY DEF Finish, Unvisited
<1>3. input \in Input /\ result \in Seq(Ids) /\ Once(result)
  BY DEF IInv, TypeOK
<1>4. s \in Seq(Ids) /\ Members(s) = Unvisited /\ Once(s)
  <2>1. IsFiniteSet(Unvisited) /\ Unvisited \subseteq Ids
    BY <1>3, InputFacts, FS_Subset DEF Unvisited
  <2>2. s \in Seq(Unvisited) /\ Members(s) = Unvisited /\ Once(s)
    BY <2>1, ArrangementLists
  <2> QED BY <2>1, <2>2, SeqMonotonic
<1>5. result' \in Seq(Ids) /\ Members(result') = Ids /\ Once(result')
  <2>1. Members(result) \subseteq Ids
    BY <1>3, LenProperties DEF Members
  <2>2. Members(result) \cap Members(s) = {} /\ Members(result) \cup Members(s) = Ids
    BY <1>4, <2>1, VisitedIsMembers DEF Unvisited
  <2>3. result \o s \in Seq(Ids)
    BY <1>3, <1>4, ConcatProperties
  <2>4. Members(result \o s) = Ids
    <3>1. \A q, p \in Seq(Ids) : Members(q \o p) = Members(q) \cup Members(p)
      BY MembersOfConcat
    <3> QED BY <1>3, <1>4, <2>2, <3>1
  <2>5. Once(result \o s)
    BY <1>3, <1>4, <2>2, OnceConcatenated
  <2> QED BY <1>2, <2>3, <2>4, <2>5
<1>6. /\ Ids' = Ids /\ ArcsNow' = ArcsNow /\ Visited' = Ids
      /\ Members(queue)' = Members(queue)
  BY <1>1, <1>5 DEF Ids, ArcsNow, Visited, Members
<1>7. TypeOK'
  BY <1>1, <1>5, <1>6 DEF IInv, TypeOK
<1>8. ASSUME Acyclic(ArcsNow) PROVE Unvisited = {}
  <2> SUFFICES ASSUME Unvisited # {} PROVE FALSE
    OBVIOUS
  <2>1. Unvisited \in SUBSET OrbId
    BY <1>3, InputFacts DEF Unvisited
  <2>2. PICK y \in Unvisited : \A x \in Unvisited : <<x, y>> \notin ArcsNow
    BY <1>8, <2>1 DEF Acyclic
  <2>3. y \in Ids /\ degree[y] = 0
    BY <1>1, <1>3, <2>2, NothingHolds DEF IInv, DegreesCount, Unvisited
  <2>4. y \in Members(queue)
    BY <1>1, <2>2, <2>3 DEF IInv, FreeIsQueued
  <2> QED BY <1>1, <2>4 DEF Members
<1>9. ASSUME Acyclic(ArcsNow), NEW i \in DOMAIN result', NEW j \in DOMAIN result',
             <<result'[i], result'[j]>> \in ArcsNow
      PROVE  i < j
  <2>1. result' = result
    <3>1. \A k \in DOMAIN s : FALSE
      BY <1>4, <1>8, <1>9 DEF Members
    <3>2. Len(s) \in Nat /\ DOMAIN s = 1 .. Len(s)
      BY <1>4, LenProperties
    <3>3. Len(s) = 0
      BY <3>1, <3>2
    <3>4. s = <<>>
      BY <1>4, <3>3, EmptySeq
    <3> QED BY <1>2, <1>3, <3>4, ConcatEmptySeq
  <2>2. result[i] \in Ids
    BY <1>3, <1>9, <2>1, LenProperties
  <2>3. PICK k \in DOMAIN result : k < j /\ result[k] = result[i]
    BY <1>1, <1>9, <2>1, <2>2 DEF IInv, BlockersFirst
  <2> QED BY <1>3, <1>9, <2>1, <2>3 DEF Once
<1>10. PipelineOrder'
  BY <1>5, <1>6, <1>9 DEF PipelineOrder, Once
<1>11. QueueIsFree' /\ Once(result)'
  BY <1>1, <1>5, <1>6 DEF QueueIsFree, Members, Once
<1> QED BY <1>1, <1>3, <1>7, <1>10, <1>11
        DEF IInv, DegreesCount, FreeIsQueued, BlockersFirst

LEMMA NextIInv == ASSUME IInv, [Next]_vars PROVE IInv'
<1>1. CASE Propagate
  BY <1>1, PropagateKeeps
<1>2. CASE Start
  BY <1>2, StartKeeps
<1>3. CASE Take
  BY <1>3, SkipKeeps, AppendKeeps
<1>4. CASE Finish
  BY <1>4, FinishKeeps
<1>5. CASE UNCHANGED vars
  BY <1>5
     DEF vars, IInv, TypeOK, DegreesCount, QueueIsFree, FreeIsQueued, BlockersFirst,
         PipelineOrder, Unvisited, Visited, Ids, ArcsNow, Holding, Members, Once
<1> QED BY <1>1, <1>2, <1>3, <1>4, <1>5 DEF Next

LEMMA Invariant == Spec => []IInv
BY InitIInv, NextIInv, PTL DEF Spec

\* The loops keep to their types, whatever the input.
THEOREM TypeCorrect == Spec => []TypeOK
<1>1. IInv => TypeOK
  BY DEF IInv
<1> QED BY <1>1, Invariant, PTL

\* For every input pipeline returns every orb once, and without a cycle every
\* blocker before what it blocks.
THEOREM OrderCorrect == Spec => []PipelineOrder
<1>1. IInv => PipelineOrder
  BY DEF IInv
<1> QED BY <1>1, Invariant, PTL
-----------------------------------------------------------------------------
(* What the search for dependents finds.                                   *)

LEMMA ImageIsFinite ==
  ASSUME NEW S, NEW f, f = [x \in S |-> f[x]], IsFiniteSet(S)
  PROVE  /\ IsFiniteSet({f[x] : x \in S})
         /\ Cardinality({f[x] : x \in S}) <= Cardinality(S)
<1>1. f \in Surjection(S, {f[x] : x \in S})
  BY DEF Surjection
<1> QED BY <1>1, FS_Surjection

LEMMA ArcFacts ==
  ASSUME input \in Input
  PROVE  /\ ArcsNow \subseteq OrbId \X OrbId
         /\ IsFiniteSet(ArcsNow) /\ Cardinality(ArcsNow) \in Nat
<1> DEFINE B == {e \in input.edges : IsBlocking(e)}
           f == [e \in B |-> Arc(e)]
<1>1. IsFiniteSet(B) /\ B \subseteq Edge
  BY InputFacts, FS_Subset
<1>2. \A e \in Edge : Arc(e) \in OrbId \X OrbId
  BY DEF Edge, Arc
<1>3. ArcsNow = {f[e] : e \in B}
  BY DEF ArcsNow, Arcs
<1>4. ArcsNow \subseteq OrbId \X OrbId
  BY <1>1, <1>2 DEF ArcsNow, Arcs
<1>5. f = [e \in B |-> f[e]]
  OBVIOUS
<1> HIDE DEF B, f
<1>6. IsFiniteSet(ArcsNow)
  BY <1>1, <1>3, <1>5, ImageIsFinite
<1> QED BY <1>4, <1>6, FS_CardinalityType

\* Where the arcs lead from S.
Onward(S) == {a[2] : a \in {b \in ArcsNow : b[1] \in S}}

\* g lists what the search has found after each of its rounds.
Search(g, x) ==
  /\ g[0] = {x}
  /\ \A n \in 1 .. Cardinality(ArcsNow) : g[n] = g[n - 1] \cup Onward(g[n - 1])
  /\ Dependents(x) = g[Cardinality(ArcsNow)]

LEMMA SearchRounds ==
  ASSUME input \in Input, NEW x \in OrbId
  PROVE  \E g : Search(g, x)
<1> DEFINE N == Cardinality(ArcsNow)
           F == [S \in SUBSET OrbId |-> S \cup Onward(S)]
           x0 == {x}
           X == SUBSET OrbId
           P(h) == h = [n \in 0 .. N |->
                      IF n = 0 THEN {x}
                      ELSE LET before == h[n - 1]
                           IN before \cup {a[2] : a \in {b \in ArcsNow : b[1] \in before}}]
<1>1. N \in Nat /\ F \in [X -> X] /\ x0 \in X
  BY ArcFacts DEF Onward
<1>2. \E g : Iterated(g, X, F, x0, N)
  <2> HIDE DEF N, F, x0, X
  <2> QED BY <1>1, Iterates
<1>3. \E g : P(g)
  <2>1. PICK g : Iterated(g, X, F, x0, N)
    BY <1>2
  <2>2. \A n \in 0 .. N : n # 0 => n \in 1 .. N /\ n - 1 \in 0 .. N
    BY <1>1
  <2>3. \A n \in 0 .. N : n # 0 => g[n] = g[n - 1] \cup Onward(g[n - 1])
    BY <2>1, <2>2 DEF Iterated
  <2>4. P(g)
    BY <2>1, <2>3 DEF Onward, Iterated
  <2> HIDE DEF P
  <2> QED BY <2>4
<1> DEFINE c == CHOOSE h : P(h)
<1>4. Dependents(x) = c[N]
  BY DEF Dependents
<1>5. P(c)
  <2> HIDE DEF P
  <2> QED BY <1>3
<1> HIDE DEF c
<1>6. c[0] = x0 /\ \A n \in 1 .. N : c[n] = c[n - 1] \cup Onward(c[n - 1])
  <2>1. 0 \in 0 .. N /\ \A n \in 1 .. N : n \in 0 .. N /\ n # 0
    BY <1>1
  <2>2. c[0] = x0
    BY <1>5, <2>1
  <2> QED BY <1>5, <2>1, <2>2 DEF Onward
<1>7. Search(c, x)
  BY <1>4, <1>6 DEF Search
<1> QED BY <1>7

Reached(x) == {y \in OrbId : Reaches(ArcsNow, x, y)}

LEMMA ReachesFacts ==
  ASSUME NEW A, NEW x \in OrbId
  PROVE  /\ Reaches(A, x, x)
         /\ \A y, z \in OrbId : Reaches(A, x, y) /\ <<y, z>> \in A => Reaches(A, x, z)
         /\ \A y, z \in OrbId : Reaches(A, x, y) /\ Reaches(A, y, z) => Reaches(A, x, z)
BY DEF Reaches, Closed

\* A round that finds nothing new has found all; else each adds an orb, and there
\* are no more than arcs.
LEMMA DependentsAreReached ==
  ASSUME input \in Input, NEW x \in OrbId
  PROVE  Dependents(x) = Reached(x)
<1> DEFINE N == Cardinality(ArcsNow)
           targets == {a[2] : a \in ArcsNow}
<1>0. PICK g : Search(g, x)
  BY SearchRounds
<1>1. /\ g[0] = {x}
      /\ \A n \in 1 .. N : g[n] = g[n - 1] \cup Onward(g[n - 1])
      /\ Dependents(x) = g[N]
  BY <1>0 DEF Search
<1>2. /\ N \in Nat /\ IsFiniteSet(ArcsNow) /\ ArcsNow \subseteq OrbId \X OrbId
      /\ IsFiniteSet(targets) /\ Cardinality(targets) \in Nat /\ Cardinality(targets) <= N
  <2> DEFINE f == [a \in ArcsNow |-> a[2]]
  <2>1. IsFiniteSet(ArcsNow) /\ ArcsNow \subseteq OrbId \X OrbId /\ N \in Nat
    BY ArcFacts
  <2>2. targets = {f[a] : a \in ArcsNow} /\ f = [a \in ArcsNow |-> f[a]]
    OBVIOUS
  <2> HIDE DEF f, targets
  <2>3. IsFiniteSet(targets) /\ Cardinality(targets) <= N
    BY <2>1, <2>2, ImageIsFinite
  <2> QED BY <2>1, <2>3, FS_CardinalityType
<1> HIDE DEF N
<1>3. \A S : Onward(S) = {a[2] : a \in {b \in ArcsNow : b[1] \in S}}
  BY DEF Onward
<1>4. \A n \in Nat : n + 1 <= N => g[n + 1] = g[n] \cup Onward(g[n])
  <2>1. \A n \in Nat : n + 1 <= N => n + 1 \in 1 .. N /\ (n + 1) - 1 = n
    BY <1>2
  <2> QED BY <1>1, <2>1
<1>5. \A n \in Nat : n <= N => /\ g[n] \subseteq Reached(x) /\ x \in g[n]
                               /\ g[n] \subseteq targets \cup {x}
  <2> DEFINE Q(n) == g[n] \subseteq Reached(x) /\ x \in g[n] /\ g[n] \subseteq targets \cup {x}
             S == {n \in Nat : n <= N => Q(n)}
  <2>1. Q(0)
    BY <1>1, ReachesFacts DEF Reached
  <2>2. ASSUME NEW n \in Nat, Q(n), n + 1 <= N PROVE Q(n + 1)
    <3>1. Onward(g[n]) \subseteq Reached(x) /\ Onward(g[n]) \subseteq targets
      BY <1>2, <1>3, <2>2, ReachesFacts DEF Reached
    <3> QED BY <1>4, <2>2, <3>1
  <2> HIDE DEF Q
  <2>3. S = Nat
    <3>1. \A n \in Nat : n + 1 <= N => n <= N
      BY <1>2
    <3>2. S \in SUBSET Nat /\ 0 \in S /\ \A n \in S : n + 1 \in S
      BY <2>1, <2>2, <3>1
    <3> HIDE DEF S
    <3> QED BY <3>2, Induction
  <2>4. \A n \in Nat : n <= N => Q(n)
    BY <2>3
  <2> QED BY <2>4 DEF Q
<1>6. \A n \in Nat : n <= N => IsFiniteSet(g[n] \ {x}) /\ Cardinality(g[n] \ {x}) \in Nat
  <2> SUFFICES ASSUME NEW n \in Nat, n <= N
               PROVE  IsFiniteSet(g[n] \ {x}) /\ Cardinality(g[n] \ {x}) \in Nat
    OBVIOUS
  <2>1. g[n] \ {x} \in SUBSET targets
    BY <1>5
  <2> HIDE DEF targets
  <2> QED BY <1>2, <2>1, FS_Subset, FS_CardinalityType
<1> DEFINE R(n) == Onward(g[n]) \subseteq g[n] \/ Cardinality(g[n] \ {x}) >= n
<1>7. ASSUME NEW n \in Nat, R(n), n + 1 <= N PROVE R(n + 1)
  <2>0. n <= N /\ g[n + 1] = g[n] \cup Onward(g[n])
    BY <1>2, <1>4, <1>7
  <2>1. CASE Onward(g[n]) \subseteq g[n]
    <3>1. g[n + 1] = g[n]
      BY <2>0, <2>1
    <3> QED BY <2>1, <3>1
  <2>2. CASE ~ (Onward(g[n]) \subseteq g[n])
    <3>1. PICK y \in Onward(g[n]) : y \notin g[n]
      BY <2>2
    <3>2. y # x /\ y \in g[n + 1] /\ g[n] \subseteq g[n + 1]
      BY <1>5, <2>0, <3>1
    <3>3. /\ IsFiniteSet(g[n] \ {x}) /\ Cardinality(g[n] \ {x}) \in Nat
          /\ IsFiniteSet(g[n + 1] \ {x}) /\ Cardinality(g[n + 1] \ {x}) \in Nat
      BY <1>6, <1>7, <2>0
    <3>4. Cardinality((g[n] \ {x}) \cup {y}) = Cardinality(g[n] \ {x}) + 1
      BY <3>1, <3>3, FS_AddElement
    <3>5. (g[n] \ {x}) \cup {y} \in SUBSET (g[n + 1] \ {x})
      BY <3>2
    <3>6. Cardinality((g[n] \ {x}) \cup {y}) <= Cardinality(g[n + 1] \ {x})
      BY <3>3, <3>5, FS_Subset
    <3>7. Cardinality(g[n] \ {x}) >= n
      BY <1>7, <2>2
    <3> QED BY <3>3, <3>4, <3>6, <3>7
  <2> QED BY <2>1, <2>2
<1>8. R(N)
  <2> DEFINE S == {n \in Nat : n <= N => R(n)}
  <2>1. R(0)
    BY <1>2, <1>6
  <2> HIDE DEF R
  <2>2. \A n \in Nat : n + 1 <= N => n <= N
    BY <1>2
  <2>3. S \in SUBSET Nat /\ 0 \in S /\ \A n \in S : n + 1 \in S
    BY <1>7, <2>1, <2>2
  <2>4. S = Nat
    <3> HIDE DEF S
    <3> QED BY <2>3, Induction
  <2> QED BY <1>2, <2>4
<1>9. Onward(g[N]) \subseteq g[N]
  <2> SUFFICES ASSUME Cardinality(g[N] \ {x}) >= N PROVE Onward(g[N]) \subseteq g[N]
    BY <1>8
  <2>1. g[N] \ {x} \in SUBSET targets /\ Cardinality(g[N] \ {x}) \in Nat
    BY <1>2, <1>5, <1>6
  <2>2. Onward(g[N]) \subseteq targets
    BY <1>3
  <2> HIDE DEF targets
  <2>3. Cardinality(g[N] \ {x}) <= Cardinality(targets)
        /\ (Cardinality(targets) = Cardinality(g[N] \ {x}) => targets = g[N] \ {x})
    BY <1>2, <2>1, FS_Subset
  <2>4. Cardinality(targets) = Cardinality(g[N] \ {x})
    BY <1>2, <2>1, <2>3
  <2> QED BY <2>2, <2>3, <2>4
<1>10. Reached(x) \subseteq g[N]
  <2>1. \A u, v \in OrbId : <<u, v>> \in ArcsNow /\ u \in g[N] => v \in g[N]
    <3> SUFFICES ASSUME NEW u \in OrbId, NEW v \in OrbId, <<u, v>> \in ArcsNow, u \in g[N]
                 PROVE  v \in Onward(g[N])
      BY <1>9
    <3>1. <<u, v>>[1] = u /\ <<u, v>>[2] = v
      OBVIOUS
    <3> QED BY <1>3, <3>1
  <2>2. g[N] \in SUBSET OrbId /\ x \in g[N]
    BY <1>2, <1>5 DEF Reached
  <2> QED BY <2>1, <2>2 DEF Reached, Reaches, Closed
<1>11. g[N] \subseteq Reached(x)
  BY <1>2, <1>5
<1> QED BY <1>1, <1>10, <1>11
-----------------------------------------------------------------------------
(* The urgencies.                                                          *)

\* Each priority is that of an orb that waits, and of none less urgent once the orb
\* has been gone through.
UrgencyInv ==
  /\ pc # "propagate" => todo = {}
  /\ \A x \in Ids :
       /\ effective[x] <= input.own[x]
       /\ \E y \in Ids \cap Reached(x) : effective[x] = input.own[y]
       /\ x \notin todo => \A y \in Ids \cap Reached(x) : effective[x] <= input.own[y]

LEMMA InitUrgency == Init => UrgencyInv
<1> SUFFICES ASSUME Init PROVE UrgencyInv
  OBVIOUS
<1>1. input \in Input /\ effective = input.own /\ pc = "propagate" /\ todo = Ids
  BY DEF Init
<1>2. Ids \subseteq OrbId /\ input.own \in [Ids -> Nat]
  BY <1>1, InputFacts
<1>3. \A x \in Ids : x \in Reached(x)
  BY <1>2, ReachesFacts DEF Reached
<1>4. \A x \in Ids : effective[x] <= input.own[x]
  BY <1>1, <1>2
<1> QED BY <1>1, <1>3, <1>4 DEF UrgencyInv

LEMMA PropagateUrgency == ASSUME IInv, UrgencyInv, Propagate PROVE UrgencyInv'
<1>0. /\ input \in Input /\ effective \in [Ids -> Nat] /\ todo \subseteq Ids
      /\ Ids \subseteq OrbId /\ input.own \in [Ids -> Nat]
  BY InputFacts DEF IInv, TypeOK
<1>1. PICK x \in todo : effective' = [effective EXCEPT ![x] = MostUrgent(x)]
                       /\ todo' = todo \ {x}
  BY DEF Propagate
<1>2. UNCHANGED <<input, pc>> /\ pc = "propagate"
  BY DEF Propagate
<1>3. x \in Ids /\ x \in OrbId /\ x \in Reached(x) /\ Dependents(x) = Reached(x)
  BY <1>0, <1>1, ReachesFacts, DependentsAreReached DEF Reached
<1> DEFINE known == {effective[y] : y \in Ids \cap Reached(x)}
           m == MostUrgent(x)
<1>4. m \in known /\ \A q \in known : m <= q
  <2>1. (Dependents(x) \cap Ids) \cup {x} = Ids \cap Reached(x)
    BY <1>3
  <2>2. m = CHOOSE p \in known : \A q \in known : p <= q
    BY <2>1 DEF MostUrgent
  <2>3. known \in SUBSET Nat /\ known # {}
    BY <1>0, <1>3
  <2> HIDE DEF known, m
  <2>4. \E p \in known : \A q \in known : p <= q
    BY <2>3, LeastNatural
  <2> QED BY <2>2, <2>4
<1> HIDE DEF m
<1>5. /\ effective'[x] = m /\ m \in Nat
      /\ \A y \in Ids : y # x => effective'[y] = effective[y]
  BY <1>0, <1>1, <1>3, <1>4 DEF m
<1>6. \A y \in Ids \cap Reached(x) : m <= effective[y] /\ m <= input.own[y]
  <2> SUFFICES ASSUME NEW y \in Ids \cap Reached(x)
               PROVE  m <= effective[y] /\ m <= input.own[y]
    OBVIOUS
  <2>1. m <= effective[y]
    BY <1>4
  <2>2. effective[y] <= input.own[y] /\ effective[y] \in Nat /\ input.own[y] \in Nat
    BY <1>0 DEF UrgencyInv
  <2> QED BY <1>5, <2>1, <2>2
<1>7. \E y \in Ids \cap Reached(x) : m = input.own[y]
  <2>1. PICK y \in Ids \cap Reached(x) : m = effective[y]
    BY <1>4
  <2>2. PICK z \in Ids \cap Reached(y) : effective[y] = input.own[z]
    BY <2>1 DEF UrgencyInv
  <2>3. z \in Reached(x)
    BY <1>0, <1>3, <2>1, <2>2, ReachesFacts DEF Reached
  <2> QED BY <2>1, <2>2, <2>3
<1> HIDE DEF known
<1>8. Ids' = Ids /\ \A y : Reached(y)' = Reached(y)
  BY <1>2 DEF Ids, ArcsNow, Reached
<1>9. ASSUME NEW y \in Ids
      PROVE  /\ effective'[y] <= input.own[y]
             /\ \E z \in Ids \cap Reached(y) : effective'[y] = input.own[z]
             /\ y \notin todo' => \A z \in Ids \cap Reached(y) : effective'[y] <= input.own[z]
  <2>1. CASE y = x
    BY <1>3, <1>5, <1>6, <1>7, <2>1
  <2>2. CASE y # x
    <3>1. effective'[y] = effective[y] /\ (y \notin todo' => y \notin todo)
      BY <1>1, <1>5, <2>2
    <3> QED BY <3>1 DEF UrgencyInv
  <2> QED BY <2>1, <2>2
<1> QED BY <1>2, <1>8, <1>9 DEF UrgencyInv

LEMMA NextUrgency == ASSUME IInv, UrgencyInv, [Next]_vars PROVE UrgencyInv'
<1>1. CASE Propagate
  BY <1>1, PropagateUrgency
<1>2. CASE UNCHANGED <<input, effective, todo>> /\ (pc' # "propagate" => todo = {})
  <2>1. Ids' = Ids /\ \A y : Reached(y)' = Reached(y)
    BY <1>2 DEF Ids, ArcsNow, Reached
  <2> QED BY <1>2, <2>1 DEF UrgencyInv
<1>3. Start \/ Take \/ Finish \/ UNCHANGED vars =>
        UNCHANGED <<input, effective, todo>> /\ (pc' # "propagate" => todo = {})
  BY DEF Start, Take, Finish, vars, UrgencyInv
<1> QED BY <1>1, <1>2, <1>3 DEF Next

LEMMA UrgencyRight == ASSUME IInv, UrgencyInv PROVE UrgencyPasses
<1>1. Ids \subseteq OrbId
  BY InputFacts DEF IInv
<1>2. \A x : {y \in Ids : Reaches(ArcsNow, x, y)} = Ids \cap Reached(x)
  BY <1>1 DEF Reached
<1> QED BY <1>2 DEF UrgencyInv, UrgencyPasses

\* In whatever order compute_effective_priorities meets the orbs, each ends up as
\* urgent as the most urgent of those that wait for it, directly or not: for every
\* graph, cycles included.
THEOREM UrgencyCorrect == Spec => []UrgencyPasses
BY Invariant, InitIInv, InitUrgency, NextUrgency, UrgencyRight, PTL DEF Spec
-----------------------------------------------------------------------------
(* The levels.                                                             *)

\* The orbs that wait for none but those of S.
Freed(S) == {x \in Ids : Blockers(x) \cap Ids \subseteq S}

Last == Cardinality(Ids)

LEMMA RoundFacts ==
  ASSUME input \in Input
  PROVE  /\ Last \in Nat /\ DOMAIN Rounds = 0 .. Last
         /\ Rounds[0] = {}
         /\ \A n \in Nat : n + 1 <= Last => Rounds[n + 1] = Freed(Rounds[n])
<1> DEFINE F == [S \in SUBSET Ids |-> Freed(S)]
           x0 == {}
           X == SUBSET Ids
           P(h) == h = [n \in 0 .. Last |->
                      IF n = 0 THEN {}
                      ELSE LET before == h[n - 1]
                           IN {x \in Ids : Blockers(x) \cap Ids \subseteq before}]
<1>1. Last \in Nat /\ F \in [X -> X] /\ x0 \in X
  BY InputFacts, FS_CardinalityType DEF Freed, Last
<1>2. \E g : Iterated(g, X, F, x0, Last)
  <2> HIDE DEF F, x0, X
  <2> QED BY <1>1, Iterates
<1>3. \E g : P(g)
  <2>1. PICK g : Iterated(g, X, F, x0, Last)
    BY <1>2
  <2>2. \A n \in 0 .. Last : n # 0 => n \in 1 .. Last /\ n - 1 \in 0 .. Last
    BY <1>1
  <2>3. \A n \in 0 .. Last : n # 0 => g[n] = Freed(g[n - 1])
    BY <2>1, <2>2 DEF Iterated
  <2>4. P(g)
    BY <2>1, <2>3 DEF Freed, Iterated
  <2> HIDE DEF P
  <2> QED BY <2>4
<1>4. Rounds = CHOOSE h : P(h)
  BY DEF Rounds, Last
<1>5. P(Rounds)
  <2> HIDE DEF P
  <2> QED BY <1>3, <1>4
<1>6. DOMAIN Rounds = 0 .. Last /\ Rounds[0] = {}
  BY <1>1, <1>5
<1>7. ASSUME NEW n \in Nat, n + 1 <= Last PROVE Rounds[n + 1] = Freed(Rounds[n])
  <2>1. n + 1 \in 0 .. Last /\ n + 1 # 0 /\ (n + 1) - 1 = n
    BY <1>1, <1>7
  <2> QED BY <1>5, <2>1 DEF Freed
<1> QED BY <1>1, <1>6, <1>7

\* Each round has the orbs of the one before.
LEMMA RoundsGrow ==
  ASSUME input \in Input
  PROVE  \A m, n \in Nat : m <= n /\ n <= Last => Rounds[m] \subseteq Rounds[n]
<1>0. /\ Last \in Nat /\ Rounds[0] = {}
      /\ \A n \in Nat : n + 1 <= Last => Rounds[n + 1] = Freed(Rounds[n])
  BY RoundFacts
<1>1. \A n \in Nat : n + 1 <= Last => Rounds[n] \subseteq Rounds[n + 1]
  <2> DEFINE S == {n \in Nat : n + 1 <= Last => Rounds[n] \subseteq Rounds[n + 1]}
  <2>1. 0 \in S
    BY <1>0
  <2>2. ASSUME NEW n \in S PROVE n + 1 \in S
    <3> SUFFICES ASSUME (n + 1) + 1 <= Last PROVE Rounds[n + 1] \subseteq Rounds[(n + 1) + 1]
      OBVIOUS
    <3>1. n + 1 <= Last /\ n \in Nat /\ n + 1 \in Nat
      BY <1>0
    <3>2. Rounds[n] \subseteq Rounds[n + 1]
      BY <3>1
    <3>3. Rounds[n + 1] = Freed(Rounds[n]) /\ Rounds[(n + 1) + 1] = Freed(Rounds[n + 1])
      BY <1>0, <3>1
    <3> QED BY <3>2, <3>3 DEF Freed
  <2>3. S = Nat
    <3>1. S \in SUBSET Nat /\ 0 \in S /\ \A n \in S : n + 1 \in S
      BY <2>1, <2>2
    <3> HIDE DEF S
    <3> QED BY <3>1, Induction
  <2> QED BY <2>3
<1>2. ASSUME NEW m \in Nat
      PROVE  \A n \in Nat : m <= n /\ n <= Last => Rounds[m] \subseteq Rounds[n]
  <2> DEFINE S == {n \in Nat : m <= n /\ n <= Last => Rounds[m] \subseteq Rounds[n]}
  <2>1. 0 \in S
    BY <1>0
  <2>2. ASSUME NEW n \in S PROVE n + 1 \in S
    <3> SUFFICES ASSUME m <= n + 1, n + 1 <= Last PROVE Rounds[m] \subseteq Rounds[n + 1]
      OBVIOUS
    <3>1. n \in Nat /\ n <= Last /\ (m = n + 1 \/ m <= n)
      BY <1>0
    <3>2. Rounds[n] \subseteq Rounds[n + 1]
      BY <1>1, <3>1
    <3>3. m <= n => Rounds[m] \subseteq Rounds[n]
      BY <3>1
    <3> QED BY <3>1, <3>2, <3>3
  <2>3. S = Nat
    <3>1. S \in SUBSET Nat /\ 0 \in S /\ \A n \in S : n + 1 \in S
      BY <2>1, <2>2
    <3> HIDE DEF S
    <3> QED BY <3>1, Induction
  <2> QED BY <2>3
<1> QED BY <1>2

\* An orb's level is at most n if it is in round n.
LEMMA LevelFacts ==
  ASSUME input \in Input, NEW x \in Ids
  PROVE  /\ Level(x) \in 1 .. Last + 1
         /\ \A n \in 0 .. Last : Level(x) <= n <=> x \in Rounds[n]
<1> DEFINE in == {n \in DOMAIN Rounds : x \in Rounds[n]}
<1>0. /\ Last \in Nat /\ DOMAIN Rounds = 0 .. Last /\ Rounds[0] = {}
      /\ \A m, n \in Nat : m <= n /\ n <= Last => Rounds[m] \subseteq Rounds[n]
  BY RoundFacts, RoundsGrow
<1>1. Level(x) = IF in = {} THEN Last + 1 ELSE CHOOSE n \in in : \A m \in in : n <= m
  BY DEF Level, Last
<1>2. \A n \in in : n \in 1 .. Last
  BY <1>0
<1>3. CASE in = {}
  <2>1. \A n \in 0 .. Last : x \notin Rounds[n]
    BY <1>0, <1>3
  <2> QED BY <1>0, <1>1, <1>3, <2>1
<1>4. CASE in # {}
  <2>1. in \in SUBSET Nat
    BY <1>2
  <2> HIDE DEF in
  <2>2. \E n \in in : \A m \in in : n <= m
    BY <1>4, <2>1, LeastNatural
  <2>3. Level(x) \in in /\ \A m \in in : Level(x) <= m
    BY <1>1, <1>4, <2>2
  <2>4. Level(x) \in 1 .. Last /\ x \in Rounds[Level(x)]
    BY <1>2, <2>3 DEF in
  <2>5. ASSUME NEW n \in 0 .. Last, Level(x) <= n PROVE x \in Rounds[n]
    BY <1>0, <2>4, <2>5
  <2>6. ASSUME NEW n \in 0 .. Last, x \in Rounds[n] PROVE Level(x) <= n
    <3>1. n \in in
      BY <1>0, <2>6 DEF in
    <3> QED BY <2>3, <3>1
  <2>7. Level(x) \in 1 .. Last + 1
    BY <1>0, <2>4
  <2> QED BY <2>5, <2>6, <2>7
<1> QED BY <1>3, <1>4

\* What an orb blocks is of a later level, if not behind a cycle.
LEMMA LevelOfBlocked ==
  ASSUME input \in Input, NEW x \in Ids, NEW y \in Ids, <<x, y>> \in ArcsNow
  PROVE  /\ Level(y) > 1
         /\ Level(y) > Level(x) \/ Level(y) = Last + 1
<1>0. /\ Last \in Nat /\ Rounds[0] = {}
      /\ \A n \in Nat : n + 1 <= Last => Rounds[n + 1] = Freed(Rounds[n])
      /\ Level(x) \in 1 .. Last + 1 /\ Level(y) \in 1 .. Last + 1
      /\ \A n \in 0 .. Last : Level(x) <= n <=> x \in Rounds[n]
      /\ \A n \in 0 .. Last : Level(y) <= n <=> y \in Rounds[n]
  BY RoundFacts, LevelFacts
<1>1. x \in Blockers(y) \cap Ids
  BY InputFacts DEF Blockers
<1>2. ASSUME Level(y) <= Last PROVE Level(x) <= Level(y) - 1
  <2> DEFINE n == Level(y) - 1
  <2>1. n \in Nat /\ n + 1 = Level(y) /\ n + 1 <= Last /\ n \in 0 .. Last /\ n + 1 \in 0 .. Last
    BY <1>0, <1>2
  <2> HIDE DEF n
  <2>2. y \in Freed(Rounds[n])
    BY <1>0, <2>1
  <2>3. x \in Rounds[n]
    BY <1>1, <2>2 DEF Freed
  <2>4. Level(x) <= n
    BY <1>0, <2>1, <2>3
  <2> QED BY <2>4 DEF n
<1>3. Last # 0
  BY InputFacts, FS_EmptySet DEF Last
<1> QED BY <1>0, <1>2, <1>3

\* What waits for none but orbs of the first n levels is of the next.
LEMMA LevelOfFreed ==
  ASSUME input \in Input, NEW y \in Ids, NEW n \in Nat,
         \A x \in Ids : <<x, y>> \in ArcsNow => Level(x) <= n
  PROVE  Level(y) <= n + 1
<1>0. /\ Last \in Nat
      /\ \A k \in Nat : k + 1 <= Last => Rounds[k + 1] = Freed(Rounds[k])
      /\ \A x \in Ids : Level(x) \in 1 .. Last + 1
      /\ \A x \in Ids : \A k \in 0 .. Last : Level(x) <= k <=> x \in Rounds[k]
  BY RoundFacts, LevelFacts
<1>1. CASE n + 1 <= Last
  <2>1. n \in 0 .. Last /\ n + 1 \in 0 .. Last
    BY <1>0, <1>1
  <2>2. \A x \in Blockers(y) \cap Ids : x \in Rounds[n]
    BY <1>0, <2>1 DEF Blockers
  <2>3. y \in Rounds[n + 1]
    BY <1>0, <1>1, <2>2 DEF Freed
  <2> QED BY <1>0, <2>1, <2>3
<1>2. CASE ~ (n + 1 <= Last)
  BY <1>0, <1>2
<1> QED BY <1>1, <1>2

LEMMA LevelUnchanged ==
  ASSUME input' = input
  PROVE  Ids' = Ids /\ ArcsNow' = ArcsNow /\ Last' = Last /\ \A x : Level(x)' = Level(x)
BY DEF Ids, ArcsNow, Last, Level, Rounds, Blockers


\* a may come before b: in an earlier level or the same, and in the first not after
\* one more urgent.
Before(a, b) ==
  /\ Level(a) <= Level(b)
  /\ Level(b) = 1 => effective[a] <= effective[b]

Ordered(s) == \A i, j \in DOMAIN s : i < j => Before(s[i], s[j])

LEMMA OrderedTail ==
  ASSUME NEW S, NEW s \in Seq(S), s # <<>>, Ordered(s)
  PROVE  Ordered(Tail(s)) /\ \A b \in Members(Tail(s)) : Before(Head(s), b)
<1>1. /\ Len(Tail(s)) = Len(s) - 1 /\ Tail(s) \in Seq(S)
      /\ \A i \in 1 .. Len(Tail(s)) : Tail(s)[i] = s[i + 1]
  BY HeadTailProperties
<1>2. /\ Len(s) \in Nat /\ Len(s) >= 1 /\ DOMAIN s = 1 .. Len(s)
      /\ DOMAIN Tail(s) = 1 .. Len(s) - 1
  BY <1>1, LenProperties, EmptySeq
<1>3. Head(s) = s[1] /\ 1 \in DOMAIN s
  BY <1>2
<1>4. \A i \in DOMAIN Tail(s) : i + 1 \in DOMAIN s /\ 1 < i + 1 /\ Tail(s)[i] = s[i + 1]
  BY <1>1, <1>2
<1>5. \A i, j \in DOMAIN Tail(s) : i < j => i + 1 < j + 1
  BY <1>2
<1> QED BY <1>3, <1>4, <1>5 DEF Ordered, Members

LEMMA OrderedConcat ==
  ASSUME NEW S, NEW s \in Seq(S), NEW t \in Seq(S), Ordered(s), Ordered(t),
         \A a \in Members(s), b \in Members(t) : Before(a, b)
  PROVE  Ordered(s \o t)
<1> DEFINE m == Len(s)
           n == Len(t)
<1>1. /\ s \o t \in Seq(S) /\ Len(s \o t) = m + n
      /\ \A i \in 1 .. m + n : (s \o t)[i] = IF i <= m THEN s[i] ELSE t[i - m]
  BY ConcatProperties
<1>2. /\ m \in Nat /\ DOMAIN s = 1 .. m
      /\ n \in Nat /\ DOMAIN t = 1 .. n
      /\ DOMAIN (s \o t) = 1 .. m + n
  BY <1>1, LenProperties
<1> HIDE DEF m, n
<1>3. ASSUME NEW i \in 1 .. m + n, NEW j \in 1 .. m + n, i < j
      PROVE  Before((s \o t)[i], (s \o t)[j])
  <2>1. CASE j <= m
    <3>1. i \in DOMAIN s /\ j \in DOMAIN s /\ (s \o t)[i] = s[i] /\ (s \o t)[j] = s[j]
      BY <1>1, <1>2, <1>3, <2>1
    <3> QED BY <1>3, <3>1 DEF Ordered
  <2>2. CASE i <= m /\ ~ (j <= m)
    <3>1. i \in DOMAIN s /\ j - m \in DOMAIN t /\ (s \o t)[i] = s[i] /\ (s \o t)[j] = t[j - m]
      BY <1>1, <1>2, <1>3, <2>2
    <3> QED BY <3>1 DEF Members
  <2>3. CASE ~ (i <= m)
    <3>1. /\ i - m \in DOMAIN t /\ j - m \in DOMAIN t /\ i - m < j - m
          /\ (s \o t)[i] = t[i - m] /\ (s \o t)[j] = t[j - m]
      BY <1>1, <1>2, <1>3, <2>3
    <3> QED BY <3>1 DEF Ordered
  <2> QED BY <2>1, <2>2, <2>3
<1> QED BY <1>2, <1>3 DEF Ordered

LEMMA OrderedAppend ==
  ASSUME NEW S, NEW s \in Seq(S), NEW x \in S, Ordered(s),
         \A a \in Members(s) : Before(a, x)
  PROVE  Ordered(Append(s, x))
<1>1. /\ Append(s, x) \in Seq(S) /\ Len(Append(s, x)) = Len(s) + 1
      /\ \A i \in 1 .. Len(s) : Append(s, x)[i] = s[i]
      /\ Append(s, x)[Len(s) + 1] = x
  BY AppendProperties
<1>2. Len(s) \in Nat /\ DOMAIN s = 1 .. Len(s) /\ DOMAIN Append(s, x) = 1 .. Len(s) + 1
  BY <1>1, LenProperties
<1>3. \A i, j \in 1 .. Len(s) + 1 : i < j => i \in 1 .. Len(s) /\ (j \in 1 .. Len(s) \/ j = Len(s) + 1)
  BY <1>2
<1> QED BY <1>1, <1>2, <1>3 DEF Ordered, Members

\* The order so far, followed by the queue, is in order, and the queue reaches at
\* most one level beyond it.
LevelInv ==
  /\ pc = "take" =>
       /\ Ordered(result) /\ Ordered(queue)
       /\ \A b \in Members(queue) :
            /\ \A a \in Visited : Before(a, b)
            /\ Level(b) = 1 \/ \E a \in Visited : Level(b) <= Level(a) + 1
  /\ pc = "done" => Ordered(result)

LEMMA LevelIsNatural ==
  ASSUME input \in Input
  PROVE  Last \in Nat /\ \A x \in Ids : Level(x) \in Nat /\ Level(x) >= 1 /\ Level(x) <= Last + 1
<1>1. Last \in Nat
  BY RoundFacts
<1>2. \A x \in Ids : Level(x) \in 1 .. Last + 1
  BY LevelFacts
<1> QED BY <1>1, <1>2

LEMMA StartLevels == ASSUME IInv, Start PROVE LevelInv'
<1> DEFINE free == {y \in Ids : degree[y] = 0}
<1>1. /\ pc = "propagate" /\ pc' = "take" /\ queue' \in Sorted(free) /\ result = <<>>
      /\ UNCHANGED <<input, todo, effective, degree, result>>
  BY DEF Start, IInv
<1>2. input \in Input /\ effective \in [Ids -> Nat]
  BY DEF IInv, TypeOK
<1>3. queue' \in Seq(free) /\ Members(queue') = free
  <2>1. IsFiniteSet(free) /\ queue' \in Arrangements(free)
    BY <1>1, <1>2, InputFacts, FS_Subset DEF Sorted
  <2> QED BY <2>1, ArrangementLists
<1>4. Unvisited = Ids
  BY <1>1, NothingVisited DEF Unvisited
<1>5. ASSUME NEW y \in free PROVE Level(y) = 1
  <2>1. Cardinality(Holding(y, Ids)) = 0
    BY <1>1, <1>4 DEF IInv, DegreesCount
  <2>2. \A z \in Ids : <<z, y>> \notin ArcsNow
    BY <1>2, <2>1, NothingHolds
  <2>3. Level(y) <= 0 + 1
    BY <1>2, <2>2, LevelOfFreed
  <2> QED BY <1>2, <2>3, LevelIsNatural
<1>6. Ordered(queue')
  <2> SUFFICES ASSUME NEW i \in DOMAIN queue', NEW j \in DOMAIN queue', i < j
               PROVE  Before(queue'[i], queue'[j])
    BY DEF Ordered
  <2>1. effective[queue'[i]] <= effective[queue'[j]]
    BY <1>1 DEF Sorted
  <2>2. queue'[i] \in free /\ queue'[j] \in free
    BY <1>3 DEF Members
  <2>3. Level(queue'[i]) = 1 /\ Level(queue'[j]) = 1
    BY <1>5, <2>2
  <2> QED BY <2>1, <2>3 DEF Before
<1>7. Visited' = {} /\ DOMAIN result' = {}
  BY <1>1, EmptySeq DEF Visited
<1>8. /\ \A x : Level(x)' = Level(x)
      /\ \A a, b : Before(a, b)' = Before(a, b)
  BY <1>1, LevelUnchanged DEF Before
<1>9. Ordered(queue)' /\ Ordered(result)'
  BY <1>6, <1>7, <1>8 DEF Ordered
<1>10. \A b \in Members(queue)' : Level(b)' = 1
  BY <1>3, <1>5, <1>8 DEF Members
<1> QED BY <1>1, <1>7, <1>9, <1>10 DEF LevelInv

LEMMA SkipLevels ==
  ASSUME IInv, LevelInv, Take, Head(queue) \in Visited
  PROVE  LevelInv'
<1>1. /\ pc = "take" /\ queue # <<>> /\ queue' = Tail(queue)
      /\ UNCHANGED <<input, pc, todo, effective, degree, result>>
  BY DEF Take
<1>2. /\ Members(queue') \subseteq Members(queue)
      /\ Ordered(queue')
  BY <1>1, MembersOfTail, OrderedTail DEF IInv, TypeOK, LevelInv
<1>3. /\ \A x : Level(x)' = Level(x)
      /\ \A a, b : Before(a, b)' = Before(a, b)
      /\ Visited' = Visited
  BY <1>1, LevelUnchanged DEF Before, Visited
<1>4. Ordered(queue)' /\ Ordered(result)'
  BY <1>1, <1>2, <1>3 DEF Ordered, LevelInv
<1>5. Members(queue)' = Members(queue')
  BY DEF Members
<1> QED BY <1>1, <1>2, <1>3, <1>4, <1>5 DEF LevelInv

\* What an orb frees is one level below it, or behind a cycle that is none.
LEMMA AppendLevels ==
  ASSUME IInv, LevelInv, Take, Head(queue) \notin Visited
  PROVE  LevelInv'
<1> DEFINE x == Head(queue)
           left == [y \in Ids |-> Less(degree[y], EdgesBetween(x, y))]
           free == {y \in Ids \ (Visited \cup {x}) : EdgesBetween(x, y) > 0 /\ left[y] = 0}
<1>1. /\ pc = "take" /\ queue # <<>>
      /\ UNCHANGED <<input, pc, todo, effective>>
      /\ degree' = left /\ result' = Append(result, x)
  BY DEF Take
<1>2. PICK s \in Sorted(free) : queue' = Tail(queue) \o s
  BY <1>1 DEF Take, Enqueued
<1>3. /\ queue \in Seq(Ids) /\ result \in Seq(Ids) /\ degree \in [Ids -> Nat]
      /\ input \in Input
  BY DEF IInv, TypeOK
<1>4. /\ Tail(queue) \in Seq(Ids) /\ x \in Ids
      /\ Members(queue) = Members(Tail(queue)) \cup {x}
  BY <1>1, <1>3, MembersOfTail
<1>5. s \in Seq(Ids) /\ Members(s) = free
  <2>1. IsFiniteSet(free)
    BY <1>3, InputFacts, FS_Subset
  <2>2. s \in Seq(free) /\ Members(s) = free
    BY <2>1, ArrangementLists DEF Sorted
  <2>3. free \subseteq Ids
    OBVIOUS
  <2> QED BY <2>2, <2>3, SeqMonotonic
<1>6. Members(queue') = Members(Tail(queue)) \cup free
  <2>1. Members(Tail(queue) \o s) = Members(Tail(queue)) \cup Members(s)
    <3>1. \A q, p \in Seq(Ids) : Members(q \o p) = Members(q) \cup Members(p)
      BY MembersOfConcat
    <3> QED BY <1>4, <1>5, <3>1
  <2> QED BY <1>2, <1>5, <2>1
<1>7. Visited' = Visited \cup {x}
  <2>1. Members(result') = Members(result) \cup {x}
    BY <1>1, <1>3, <1>4, MembersOfAppend
  <2>2. Visited' = Members(result')
    BY DEF Visited, Members
  <2> QED BY <2>1, <2>2, VisitedIsMembers
<1>8. Last \in Nat /\ \A y \in Ids : Level(y) \in Nat /\ Level(y) >= 1 /\ Level(y) <= Last + 1
  BY <1>3, LevelIsNatural
<1>9. Visited \subseteq Ids /\ Members(queue) \subseteq Ids
  BY <1>3, LenProperties DEF Visited, Members
<1>10. \A a \in Visited : Before(a, x)
  BY <1>1, <1>4 DEF LevelInv
<1>11. ASSUME NEW y \in free
       PROVE  /\ y \in Ids /\ Level(y) > 1 /\ Level(y) <= Level(x) + 1
              /\ Level(y) = Level(x) + 1 \/ Level(y) = Last + 1
  <2>1. y \in Ids /\ EdgesBetween(x, y) > 0 /\ left[y] = 0
    OBVIOUS
  <2>2. x \in Unvisited
    BY <1>4 DEF Unvisited
  <2>3. Cardinality(Holding(y, Unvisited \ {x})) = 0
    BY <1>1, <1>3, <2>1, <2>2, CountingDown DEF IInv, DegreesCount
  <2>4. \A z \in Unvisited \ {x} : <<z, y>> \notin ArcsNow
    BY <1>3, <2>3, NothingHolds
  <2>5. \A z \in Ids : <<z, y>> \in ArcsNow => Level(z) <= Level(x)
    BY <1>4, <1>8, <1>10, <2>4 DEF Unvisited, Before
  <2>6. Level(x) \in Nat
    BY <1>4, <1>8
  <2>7. Level(y) <= Level(x) + 1
    BY <1>3, <2>1, <2>5, <2>6, LevelOfFreed
  <2>8. <<x, y>> \in ArcsNow
    <3>1. EdgesBetween(x, y) = Cardinality(Holding(y, {x}))
      BY CountsAreHolding
    <3>2. ~ (Cardinality(Holding(y, {x})) = 0)
      BY <2>1, <3>1
    <3> QED BY <1>3, <3>2, NothingHolds
  <2>9. Level(y) > 1 /\ (Level(y) > Level(x) \/ Level(y) = Last + 1)
    BY <1>3, <1>4, <2>1, <2>8, LevelOfBlocked
  <2> QED BY <1>8, <2>1, <2>6, <2>7, <2>9
<1>12. ASSUME NEW a \in Ids, Level(a) <= Level(x) + 1, NEW y \in free PROVE Before(a, y)
  <2>1. Level(a) <= Level(y) /\ Level(y) # 1
    BY <1>4, <1>8, <1>11, <1>12
  <2> QED BY <2>1 DEF Before
<1>13. \A b \in Members(queue) : Level(b) <= Level(x) + 1
  <2> SUFFICES ASSUME NEW b \in Members(queue) PROVE Level(b) <= Level(x) + 1
    OBVIOUS
  <2>1. b \in Ids /\ Level(b) \in Nat /\ Level(x) \in Nat /\ Level(x) >= 1
    BY <1>4, <1>8, <1>9
  <2>2. CASE Level(b) = 1
    BY <2>1, <2>2
  <2>3. CASE \E a \in Visited : Level(b) <= Level(a) + 1
    <3>1. PICK a \in Visited : Level(b) <= Level(a) + 1
      BY <2>3
    <3>2. Level(a) <= Level(x) /\ Level(a) \in Nat
      BY <1>8, <1>9, <1>10, <3>1 DEF Before
    <3> QED BY <2>1, <3>1, <3>2
  <2> QED BY <1>1, <2>2, <2>3 DEF LevelInv
<1>14. Ordered(result')
  BY <1>1, <1>3, <1>4, <1>10, OrderedAppend, VisitedIsMembers DEF LevelInv
<1>15. Ordered(Tail(queue)) /\ \A b \in Members(Tail(queue)) : Before(x, b)
  BY <1>1, <1>3, OrderedTail DEF LevelInv
<1>16. Ordered(s)
  <2> SUFFICES ASSUME NEW i \in DOMAIN s, NEW j \in DOMAIN s PROVE Before(s[i], s[j])
    BY DEF Ordered
  <2>1. s[i] \in free /\ s[j] \in free
    BY <1>5 DEF Members
  <2> QED BY <1>11, <1>12, <2>1
<1>17. Ordered(queue')
  BY <1>2, <1>4, <1>5, <1>9, <1>12, <1>13, <1>15, <1>16, OrderedConcat
<1>18. /\ \A y : Level(y)' = Level(y)
       /\ \A a, b : Before(a, b)' = Before(a, b)
       /\ Members(queue)' = Members(queue')
  BY <1>1, LevelUnchanged DEF Before, Members
<1>19. \A b \in Members(queue') :
         /\ \A a \in Visited \cup {x} : Before(a, b)
         /\ Level(b) = 1 \/ \E a \in Visited \cup {x} : Level(b) <= Level(a) + 1
  <2> SUFFICES ASSUME NEW b \in Members(queue')
               PROVE  /\ \A a \in Visited \cup {x} : Before(a, b)
                      /\ Level(b) <= Level(x) + 1
    OBVIOUS
  <2>1. CASE b \in Members(Tail(queue))
    BY <1>1, <1>4, <1>13, <1>15, <2>1 DEF LevelInv
  <2>2. CASE b \in free
    <3>1. \A a \in Visited \cup {x} : a \in Ids /\ Level(a) <= Level(x) + 1
      BY <1>4, <1>8, <1>9, <1>10 DEF Before
    <3> QED BY <1>11, <1>12, <2>2, <3>1
  <2> QED BY <1>6, <2>1, <2>2
<1>20. Ordered(queue)' /\ Ordered(result)'
  BY <1>14, <1>17, <1>18 DEF Ordered
<1> HIDE DEF x, free
<1> QED BY <1>1, <1>7, <1>18, <1>19, <1>20 DEF LevelInv

\* What the loop has not reached is on a cycle or behind one.
LEMMA FinishLevels == ASSUME IInv, LevelInv, Finish PROVE LevelInv'
<1>1. /\ pc = "take" /\ queue = <<>> /\ pc' = "done"
      /\ UNCHANGED <<input, todo, effective, degree, queue>>
  BY DEF Finish
<1>2. PICK s \in Arrangements(Unvisited) : result' = result \o s
  BY DEF Finish, Unvisited
<1>3. input \in Input /\ result \in Seq(Ids) /\ Ordered(result)
  BY <1>1 DEF IInv, TypeOK, LevelInv
<1>4. s \in Seq(Ids) /\ Members(s) = Unvisited
  <2>1. IsFiniteSet(Unvisited) /\ Unvisited \subseteq Ids
    BY <1>3, InputFacts, FS_Subset DEF Unvisited
  <2>2. s \in Seq(Unvisited) /\ Members(s) = Unvisited
    BY <2>1, ArrangementLists
  <2> QED BY <2>1, <2>2, SeqMonotonic
<1>5. Last \in Nat /\ \A y \in Ids : Level(y) \in Nat /\ Level(y) >= 1 /\ Level(y) <= Last + 1
  BY <1>3, LevelIsNatural
<1>6. ASSUME NEW y \in Unvisited PROVE Level(y) = Last + 1
  <2> DEFINE levels == {Level(z) : z \in Unvisited}
  <2>1. levels \in SUBSET Nat /\ levels # {}
    BY <1>5 DEF Unvisited
  <2>2. PICK k \in levels : \A q \in levels : k <= q
    <3> HIDE DEF levels
    <3> QED BY <2>1, LeastNatural
  <2>3. PICK z \in Unvisited : Level(z) = k
    BY <2>2
  <2>4. \A w \in Unvisited : Level(z) <= Level(w)
    BY <2>2, <2>3
  <2> HIDE DEF levels
  <2>5. ~ (Level(z) <= Last)
    <3> SUFFICES ASSUME Level(z) <= Last PROVE FALSE
      OBVIOUS
    <3>1. z \in Ids /\ Level(z) \in Nat /\ Level(z) # Last + 1
      BY <1>5, <2>3 DEF Unvisited
    <3>2. \A w \in Unvisited : <<w, z>> \notin ArcsNow
      <4> SUFFICES ASSUME NEW w \in Unvisited, <<w, z>> \in ArcsNow PROVE FALSE
        OBVIOUS
      <4>1. w \in Ids /\ Level(w) \in Nat /\ Level(z) <= Level(w)
        BY <1>5, <2>4 DEF Unvisited
      <4>2. Level(z) > Level(w)
        BY <1>3, <3>1, <4>1, LevelOfBlocked
      <4> QED BY <3>1, <4>1, <4>2
    <3>3. degree[z] = 0
      BY <1>1, <1>3, <3>1, <3>2, NothingHolds DEF IInv, DegreesCount
    <3>4. z \in Members(queue)
      BY <1>1, <2>3, <3>3 DEF IInv, FreeIsQueued
    <3> QED BY <1>1, <3>4 DEF Members
  <2>6. z \in Ids /\ y \in Ids /\ Level(z) <= Level(y)
    BY <2>3, <2>4 DEF Unvisited
  <2> QED BY <1>5, <2>5, <2>6
<1>7. Unvisited \subseteq Ids /\ Visited \subseteq Ids
  BY <1>3, LenProperties DEF Unvisited, Visited
<1>8. \A a \in Ids, y \in Unvisited : Before(a, y)
  <2> SUFFICES ASSUME NEW a \in Ids, NEW y \in Unvisited PROVE Before(a, y)
    OBVIOUS
  <2>1. Level(y) = Last + 1 /\ Level(a) <= Last + 1
    BY <1>5, <1>6
  <2>2. Last # 0
    BY <1>3, InputFacts, FS_EmptySet DEF Last
  <2> QED BY <1>5, <2>1, <2>2 DEF Before
<1>9. Ordered(s)
  BY <1>4, <1>7, <1>8 DEF Ordered, Members
<1>10. Ordered(result \o s)
  BY <1>3, <1>4, <1>7, <1>8, <1>9, OrderedConcat, VisitedIsMembers
<1>11. \A a, b : Before(a, b)' = Before(a, b)
  BY <1>1, LevelUnchanged DEF Before
<1>12. Ordered(result)'
  BY <1>2, <1>10, <1>11 DEF Ordered
<1> QED BY <1>1, <1>12 DEF LevelInv

LEMMA NextLevels == ASSUME IInv, LevelInv, [Next]_vars PROVE LevelInv'
<1>1. CASE Propagate
  BY <1>1 DEF Propagate, LevelInv
<1>2. CASE Start
  BY <1>2, StartLevels
<1>3. CASE Take
  BY <1>3, SkipLevels, AppendLevels
<1>4. CASE Finish
  BY <1>4, FinishLevels
<1>5. CASE UNCHANGED vars
  <2>1. UNCHANGED <<input, pc, effective, queue, result>>
    BY <1>5 DEF vars
  <2>2. /\ \A x : Level(x)' = Level(x)
        /\ \A a, b : Before(a, b)' = Before(a, b)
        /\ Visited' = Visited /\ Members(queue)' = Members(queue)
    BY <2>1, LevelUnchanged DEF Before, Visited, Members
  <2>3. Ordered(queue)' = Ordered(queue) /\ Ordered(result)' = Ordered(result)
    BY <2>1, <2>2 DEF Ordered
  <2> QED BY <2>1, <2>2, <2>3 DEF LevelInv
<1> QED BY <1>1, <1>2, <1>3, <1>4, <1>5 DEF Next

LEMMA InitLevels == ASSUME Init PROVE LevelInv
BY DEF Init, LevelInv

LEMMA LevelsRight == ASSUME LevelInv PROVE LevelsInOrder
BY DEF LevelInv, LevelsInOrder, Ordered, Before

\* For every input pipeline returns the orbs level after level, those on a cycle or
\* behind one last, and those of the first level by effective priority.
THEOREM LevelsCorrect == Spec => []LevelsInOrder
BY Invariant, InitLevels, NextLevels, LevelsRight, PTL DEF Spec
-----------------------------------------------------------------------------
(* The parents.                                                            *)

Parent(x) == input.parent[x]

\* y is x or one of its descendants.
Under(x, y) == Reaches(Tree!Down, x, y)

LEMMA TreeFacts ==
  ASSUME input \in Input
  PROVE  /\ Tree!Ids = Ids /\ IsFiniteSet(Ids) /\ Ids \subseteq OrbId
         /\ Cardinality(Ids) \in Nat /\ Cardinality(Ids) <= StackLimit
         /\ \A x : Tree!Children(x) = {y \in Ids : Parent(y) = x}
         /\ \A x, y \in OrbId : <<x, y>> \in Tree!Down <=> y \in Tree!Children(x)
<1>1. /\ Tree!Ids = Ids /\ IsFiniteSet(Ids) /\ Ids \subseteq OrbId
      /\ Cardinality(Ids) <= StackLimit
  BY InputFacts, ParentAssumption, StackAssumption DEF Tree!Ids, Ids
<1>2. \A x : Tree!Children(x) = {y \in Ids : Parent(y) = x}
  BY <1>1 DEF Tree!Children, Parent
<1>3. \A x, y \in OrbId : <<x, y>> \in Tree!Down <=> y \in Tree!Children(x)
  BY <1>1, <1>2 DEF Tree!Down, Parent
<1> QED BY <1>1, <1>2, <1>3, FS_CardinalityType

\* OrbTree extends DepGraph as Schedule does.
LEMMA SameGraph ==
  /\ \A A, x, y : Tree!Reaches(A, x, y) <=> Reaches(A, x, y)
  /\ \A A, x : Tree!OnCycle(A, x) <=> OnCycle(A, x)
  /\ \A e : Tree!IsBlocking(e) <=> IsBlocking(e)
BY DEF Tree!Reaches, Tree!Closed, Tree!OnCycle, Tree!IsBlocking, Reaches, Closed, OnCycle, IsBlocking

LEMMA SameCardinality == \A S : Tree!Cardinality(S) = Cardinality(S)
BY DEF Tree!Cardinality, Cardinality

LEMMA UnderFacts ==
  ASSUME input \in Input, NEW x \in OrbId
  PROVE  /\ Under(x, x)
         /\ \A y \in OrbId : \A z \in Tree!Children(y) : Under(x, y) => Under(x, z)
         /\ \A y, z \in OrbId : Under(x, y) /\ Under(y, z) => Under(x, z)
<1>1. \A y \in OrbId : \A z \in Tree!Children(y) : z \in OrbId /\ <<y, z>> \in Tree!Down
  BY TreeFacts
<1> QED BY <1>1, ReachesFacts DEF Under

LEMMA UnderFirst ==
  ASSUME input \in Input, NEW x \in OrbId, NEW z \in OrbId, Under(x, z), x # z
  PROVE  \E y \in Tree!Children(x) : Under(y, z)
<1> DEFINE C == {x} \cup {w \in OrbId : \E y \in Tree!Children(x) : Under(y, w)}
<1>0. \A y : Tree!Children(y) \subseteq OrbId
  BY TreeFacts
<1>1. ASSUME NEW v \in OrbId, NEW w \in OrbId, <<v, w>> \in Tree!Down, v \in C
      PROVE  w \in C
  <2>1. w \in Tree!Children(v)
    BY <1>1, TreeFacts
  <2>2. CASE v = x
    BY <1>0, <2>1, <2>2, UnderFacts
  <2>3. CASE v # x
    <3>1. PICK y \in Tree!Children(x) : Under(y, v)
      BY <1>1, <2>3
    <3>2. Under(y, w)
      BY <1>0, <2>1, <3>1, UnderFacts
    <3> QED BY <3>2
  <2> QED BY <2>2, <2>3
<1>2. Closed(Tree!Down, C) /\ C \in SUBSET OrbId /\ x \in C
  BY <1>1 DEF Closed
<1>3. z \in C
  BY <1>2 DEF Under, Reaches
<1> QED BY <1>3

LEMMA UnderLast ==
  ASSUME input \in Input, NEW x \in OrbId, NEW z \in OrbId, Under(x, z), x # z
  PROVE  z \in Ids /\ Parent(z) \in OrbId /\ Under(x, Parent(z))
<1> DEFINE C == {x} \cup {w \in Ids : Parent(w) \in OrbId /\ Under(x, Parent(w))}
<1>1. ASSUME NEW v \in OrbId, NEW w \in OrbId, <<v, w>> \in Tree!Down, v \in C
      PROVE  w \in C
  <2>1. w \in Ids /\ Parent(w) = v
    BY <1>1, TreeFacts
  <2>2. Under(x, v)
    <3>1. CASE v = x
      BY <3>1, UnderFacts
    <3>2. CASE v # x
      <4>1. v \in Tree!Children(Parent(v)) /\ Parent(v) \in OrbId /\ Under(x, Parent(v))
        BY <1>1, <3>2, TreeFacts
      <4> QED BY <4>1, UnderFacts
    <3> QED BY <3>1, <3>2
  <2> QED BY <2>1, <2>2
<1>2. Closed(Tree!Down, C) /\ C \in SUBSET OrbId /\ x \in C
  BY <1>1, TreeFacts DEF Closed
<1>3. z \in C
  BY <1>2 DEF Under, Reaches
<1> QED BY <1>3
-----------------------------------------------------------------------------
(* Building the tree.                                                      *)

Seen == {nodes[j].orb : j \in DOMAIN nodes}

\* One call under way for each orb on a path down from the root.
CallsFit ==
  \A i \in DOMAIN stack :
    /\ stack[i].todo \subseteq Tree!Children(stack[i].orb)
    /\ \E j \in DOMAIN nodes : nodes[j] = [orb |-> stack[i].orb, depth |-> i - 1]

\* The node is that of the root, or its parent was made before it, one less deep.
NodeFits(j) ==
  /\ Under(root, nodes[j].orb)
  /\ IF j = 1 THEN nodes[j] = [orb |-> root, depth |-> 0]
     ELSE \E i \in 1 .. j - 1 :
            /\ nodes[i].orb = Parent(nodes[j].orb)
            /\ nodes[j].depth = nodes[i].depth + 1

NodesFit == \A j \in DOMAIN nodes : NodeFits(j)

NothingForgotten ==
  \A x \in Seen : \A y \in Tree!Children(x) :
    y \in Seen \/ \E i \in DOMAIN stack : stack[i].orb = x /\ y \in stack[i].todo

Ends ==
  /\ pc = "build" => stack # <<>>
  /\ pc = "built" => stack = <<>>
  /\ pc = "overflow" => Len(stack) = StackLimit /\ Tree!Top.todo # {}
  /\ IF root \in Ids THEN root \in Seen ELSE pc = "built"

Looping == \E y \in Tree!Children(root) : Under(y, root)

OnLoop(y) == Under(root, y) /\ Under(y, root)

\* Under a cycle of parents there is always a next orb of the cycle to be built.
LoopGoesOn ==
  root \in Ids /\ Looping =>
    pc # "built" /\ \E i \in DOMAIN stack : \E y \in stack[i].todo : OnLoop(y)

\* Without one, no orb is met twice.
NoneTwice ==
  ~ Looping =>
    /\ \A i, j \in DOMAIN stack : stack[i].orb = stack[j].orb => i = j
    /\ \A i, j \in DOMAIN nodes : nodes[i].orb = nodes[j].orb => i = j
    /\ \A i \in DOMAIN stack : stack[i].todo \cap Seen = {}

BuildInv ==
  /\ input \in Input
  /\ Tree!TypeOK
  /\ CallsFit /\ NodesFit /\ NothingForgotten /\ Ends /\ LoopGoesOn /\ NoneTwice

LEMMA LoopFacts ==
  ASSUME input \in Input, root \in OrbId
  PROVE  /\ Looping <=> OnCycle(Tree!Down, root)
         /\ ~ Looping => \A y : Under(root, y) => root \notin Tree!Children(y)
         /\ Looping => \A x \in OrbId : OnLoop(x) => \E y \in Tree!Children(x) : OnLoop(y)
<1>0. \A x : Tree!Children(x) \subseteq OrbId
  BY TreeFacts
<1>1. Looping <=> OnCycle(Tree!Down, root)
  BY <1>0, TreeFacts DEF Looping, OnCycle, Under
<1>2. ASSUME NEW y, Under(root, y), root \in Tree!Children(y) PROVE Looping
  <2>1. root \in Ids /\ y = Parent(root)
    BY <1>2, TreeFacts
  <2>2. CASE y = root
    BY <1>2, <2>2, UnderFacts DEF Looping
  <2>3. CASE y \in OrbId /\ y # root
    <3>1. PICK c \in Tree!Children(root) : Under(c, y)
      BY <1>2, <2>3, UnderFirst
    <3>2. Under(c, root)
      BY <1>0, <1>2, <2>3, <3>1, UnderFacts
    <3> QED BY <3>2 DEF Looping
  <2>4. y \in OrbId
    <3>1. Closed(Tree!Down, OrbId)
      BY DEF Closed
    <3> QED BY <1>2, <3>1 DEF Under, Reaches
  <2> QED BY <2>2, <2>3, <2>4
<1>3. ASSUME Looping, NEW x \in OrbId, OnLoop(x)
      PROVE  \E y \in Tree!Children(x) : OnLoop(y)
  <2>1. PICK y \in Tree!Children(x) : Under(y, root)
    <3>1. CASE x = root
      BY <1>3, <3>1 DEF Looping
    <3>2. CASE x # root
      BY <1>3, <3>2, UnderFirst DEF OnLoop
    <3> QED BY <3>1, <3>2
  <2>2. Under(root, y)
    BY <1>3, <2>1, UnderFacts DEF OnLoop
  <2> QED BY <2>1, <2>2 DEF OnLoop
<1> QED BY <1>1, <1>2, <1>3

LEMMA TreeTypes ==
  ASSUME Tree!TypeOK
  PROVE  /\ Len(stack) \in Nat /\ DOMAIN stack = 1 .. Len(stack)
         /\ stack # <<>> => Len(stack) \in 1 .. Len(stack) /\ Len(stack) >= 1
         /\ stack = <<>> => DOMAIN stack = {}
         /\ \A i \in DOMAIN stack : stack[i] \in [orb : Tree!Ids, todo : SUBSET Tree!Ids]
         /\ Len(nodes) \in Nat /\ DOMAIN nodes = 1 .. Len(nodes)
         /\ \A j \in DOMAIN nodes : nodes[j] \in [orb : Tree!Ids, depth : Nat]
         /\ Seen \subseteq Tree!Ids
<1>1. /\ stack \in Seq([orb : Tree!Ids, todo : SUBSET Tree!Ids])
      /\ nodes \in Seq([orb : Tree!Ids, depth : Nat])
  BY DEF Tree!TypeOK
<1>2. /\ Len(stack) \in Nat /\ DOMAIN stack = 1 .. Len(stack)
      /\ \A i \in DOMAIN stack : stack[i] \in [orb : Tree!Ids, todo : SUBSET Tree!Ids]
  BY <1>1, LenProperties, ElementOfSeq
<1>3. /\ Len(nodes) \in Nat /\ DOMAIN nodes = 1 .. Len(nodes)
      /\ \A j \in DOMAIN nodes : nodes[j] \in [orb : Tree!Ids, depth : Nat]
  BY <1>1, LenProperties, ElementOfSeq
<1>4. stack # <<>> => Len(stack) >= 1
  BY <1>1, <1>2, EmptySeq
<1> QED BY <1>2, <1>3, <1>4 DEF Seen

LEMMA InitBuild ==
  ASSUME input \in Input, Tree!Init
  PROVE  BuildInv
<1>0. root \in OrbId
  BY DEF Tree!Init
<1>1. CASE root \in Ids
  <2> DEFINE n == [orb |-> root, depth |-> 0]
             s == [orb |-> root, todo |-> Tree!Children(root)]
  <2>1. pc = "build" /\ stack = <<s>> /\ nodes = <<n>> /\ root \in Tree!Ids
    BY <1>1, TreeFacts DEF Tree!Init, Tree!Call
  <2>2. s \in [orb : Tree!Ids, todo : SUBSET Tree!Ids] /\ n \in [orb : Tree!Ids, depth : Nat]
    BY <2>1 DEF Tree!Children
  <2>3. Tree!TypeOK
    BY <1>0, <2>1, <2>2 DEF Tree!TypeOK
  <2>4. /\ DOMAIN stack = {1} /\ stack[1] = s /\ Len(stack) = 1
        /\ DOMAIN nodes = {1} /\ nodes[1] = n
    BY <2>1
  <2>5. /\ n.orb = root /\ s.orb = root /\ s.todo = Tree!Children(root) /\ Seen = {root}
        /\ n = [orb |-> s.orb, depth |-> 1 - 1]
    BY <2>4 DEF Seen
  <2> HIDE DEF n, s
  <2>6. CallsFit
    BY <2>4, <2>5 DEF CallsFit
  <2>7. NodesFit
    BY <1>0, <2>4, <2>5, UnderFacts DEF NodesFit, NodeFits, n
  <2>8. NothingForgotten
    BY <2>4, <2>5 DEF NothingForgotten
  <2>9. Ends
    BY <1>1, <2>1, <2>4, <2>5 DEF Ends
  <2>10. LoopGoesOn
    <3> SUFFICES ASSUME Looping PROVE \E y \in Tree!Children(root) : OnLoop(y)
      BY <2>1, <2>4, <2>5 DEF LoopGoesOn
    <3> QED BY <1>0, LoopFacts, UnderFacts DEF OnLoop
  <2>11. NoneTwice
    BY <1>0, <2>4, <2>5, LoopFacts, UnderFacts DEF NoneTwice
  <2> QED BY <2>3, <2>6, <2>7, <2>8, <2>9, <2>10, <2>11 DEF BuildInv
<1>2. CASE root \notin Ids
  <2>1. pc = "built" /\ stack = <<>> /\ nodes = <<>>
    BY <1>2, TreeFacts DEF Tree!Init
  <2>2. Tree!TypeOK
    BY <1>0, <2>1 DEF Tree!TypeOK
  <2>3. DOMAIN stack = {} /\ DOMAIN nodes = {} /\ Seen = {}
    BY <2>1 DEF Seen
  <2> QED BY <1>2, <2>1, <2>2, <2>3
          DEF BuildInv, CallsFit, NodesFit, NothingForgotten, Ends, LoopGoesOn, NoneTwice
<1> QED BY <1>1, <1>2

\* The calls after a return.
LEMMA ReturnFacts ==
  ASSUME BuildInv, Tree!Return
  PROVE  /\ stack' \in Seq([orb : Tree!Ids, todo : SUBSET Tree!Ids])
         /\ Len(stack) >= 1 /\ Len(stack) \in Nat /\ Len(stack') = Len(stack) - 1
         /\ DOMAIN stack = 1 .. Len(stack) /\ DOMAIN stack' = 1 .. Len(stack) - 1
         /\ \A i \in 1 .. Len(stack) - 1 : stack'[i] = stack[i]
         /\ stack[Len(stack)].todo = {}
         /\ pc' = (IF stack' = <<>> THEN "built" ELSE "build")
         /\ pc = "build" /\ UNCHANGED <<input, root, nodes>>
<1>1. /\ Len(stack) \in Nat /\ DOMAIN stack = 1 .. Len(stack) /\ Len(stack) >= 1
      /\ stack \in Seq([orb : Tree!Ids, todo : SUBSET Tree!Ids])
  BY TreeTypes DEF BuildInv, Ends, Tree!Return, Tree!TypeOK
<1>2. /\ stack' = SubSeq(stack, 1, Len(stack) - 1) /\ pc = "build"
      /\ stack[Len(stack)].todo = {}
      /\ pc' = IF stack' = <<>> THEN "built" ELSE "build"
      /\ UNCHANGED <<input, root, nodes>>
  BY DEF Tree!Return, Tree!Below, Tree!Top
<1>3. /\ stack' \in Seq([orb : Tree!Ids, todo : SUBSET Tree!Ids])
      /\ Len(stack') = Len(stack) - 1
      /\ \A i \in 1 .. Len(stack) - 1 : stack'[i] = stack[i]
  <2> DEFINE E == [orb : Tree!Ids, todo : SUBSET Tree!Ids]
             n == Len(stack) - 1
  <2>0. stack \in Seq(E) /\ \A i \in 1 .. Len(stack) : stack[i] \in E
    BY <1>1, TreeTypes DEF BuildInv
  <2>1. stack \in Seq(E) /\ n \in Nat /\ \A i \in 1 .. n : stack[i] \in E
    BY <1>1, <2>0
  <2> HIDE DEF E, n
  <2>2. SubSeq(stack, 1, n) \in Seq(E) /\ Len(SubSeq(stack, 1, n)) = n
    BY <2>1
  <2>3. \A i \in 1 .. n : SubSeq(stack, 1, n)[i] = stack[i]
    BY <2>1
  <2> QED BY <1>2, <2>2, <2>3 DEF E, n
<1>4. DOMAIN stack' = 1 .. Len(stack) - 1
  BY <1>3, LenProperties
<1> QED BY <1>1, <1>2, <1>3, <1>4

LEMMA ReturnKeeps == ASSUME BuildInv, Tree!Return PROVE BuildInv'
<1>1. /\ Len(stack) >= 1 /\ Len(stack) \in Nat
      /\ DOMAIN stack = 1 .. Len(stack) /\ DOMAIN stack' = 1 .. Len(stack) - 1
      /\ \A i \in 1 .. Len(stack) - 1 : stack'[i] = stack[i]
      /\ stack[Len(stack)].todo = {}
      /\ pc' = (IF stack' = <<>> THEN "built" ELSE "build")
      /\ pc = "build" /\ UNCHANGED <<input, root, nodes>>
  BY ReturnFacts
<1>2. /\ Tree!Ids' = Tree!Ids /\ Ids' = Ids /\ Seen' = Seen /\ Looping' = Looping
      /\ \A x : Tree!Children(x)' = Tree!Children(x)
      /\ \A x, y : Under(x, y)' = Under(x, y)
      /\ \A x : OnLoop(x)' = OnLoop(x)
      /\ NodesFit' = NodesFit
  BY <1>1 DEF Tree!Ids, Ids, Seen, Looping, Tree!Children, Under, Tree!Down, OnLoop,
              NodesFit, NodeFits, Parent
<1>3. \A i \in DOMAIN stack : stack[i].todo # {} => i \in DOMAIN stack' /\ stack'[i] = stack[i]
  BY <1>1
<1>4. \A i \in DOMAIN stack' : i \in DOMAIN stack /\ stack'[i] = stack[i]
  BY <1>1
<1>5. Tree!TypeOK'
  BY <1>1, <1>2, ReturnFacts DEF BuildInv, Tree!TypeOK
<1>6. CallsFit'
  BY <1>1, <1>2, <1>4 DEF BuildInv, CallsFit
<1>7. NothingForgotten'
  <2> SUFFICES ASSUME NEW x \in Seen, NEW y \in Tree!Children(x), y \notin Seen
               PROVE  \E i \in DOMAIN stack' : stack'[i].orb = x /\ y \in stack'[i].todo
    BY <1>2 DEF NothingForgotten
  <2>1. PICK i \in DOMAIN stack : stack[i].orb = x /\ y \in stack[i].todo
    BY DEF BuildInv, NothingForgotten
  <2> QED BY <1>3, <2>1
<1>8. Ends'
  BY <1>1, <1>2 DEF BuildInv, Ends
<1>9. LoopGoesOn'
  <2> SUFFICES ASSUME root \in Ids, Looping
               PROVE  pc' # "built" /\ \E i \in DOMAIN stack' : \E y \in stack'[i].todo : OnLoop(y)
    BY <1>1, <1>2 DEF LoopGoesOn
  <2>1. PICK i \in DOMAIN stack : \E y \in stack[i].todo : OnLoop(y)
    BY DEF BuildInv, LoopGoesOn
  <2>2. i \in DOMAIN stack' /\ \E y \in stack'[i].todo : OnLoop(y)
    BY <1>3, <2>1
  <2>3. stack' # <<>>
    BY <2>2
  <2> QED BY <1>1, <2>2, <2>3
<1>10. NoneTwice'
  BY <1>1, <1>2, <1>4 DEF BuildInv, NoneTwice
<1> QED BY <1>1, <1>2, <1>5, <1>6, <1>7, <1>8, <1>9, <1>10 DEF BuildInv

LEMMA OverflowKeeps == ASSUME BuildInv, Tree!Overflow PROVE BuildInv'
<1>1. /\ pc = "build" /\ pc' = "overflow" /\ Len(stack) = StackLimit /\ Tree!Top.todo # {}
      /\ UNCHANGED <<input, root, stack, nodes>>
  BY DEF Tree!Overflow
<1>2. /\ Tree!Ids' = Tree!Ids /\ Ids' = Ids /\ Seen' = Seen /\ Looping' = Looping
      /\ \A x : Tree!Children(x)' = Tree!Children(x)
      /\ \A x : OnLoop(x)' = OnLoop(x)
      /\ NodesFit' = NodesFit /\ Tree!Top' = Tree!Top
  BY <1>1 DEF Tree!Ids, Ids, Seen, Looping, Tree!Children, Under, Tree!Down, OnLoop,
              NodesFit, NodeFits, Parent, Tree!Top
<1> QED BY <1>1, <1>2 DEF BuildInv, Tree!TypeOK, CallsFit, NothingForgotten, Ends,
                          LoopGoesOn, NoneTwice

\* The calls and the nodes after a call for x.
CallMade(x) ==
  /\ pc = "build" /\ UNCHANGED <<input, pc, root>>
  /\ x \in Tree!Ids /\ x \in stack[Len(stack)].todo
  /\ x = Tree!First(stack[Len(stack)].todo)
  /\ Len(stack) \in Nat /\ Len(stack) >= 1 /\ DOMAIN stack = 1 .. Len(stack)
  /\ stack' \in Seq([orb : Tree!Ids, todo : SUBSET Tree!Ids])
  /\ DOMAIN stack' = 1 .. Len(stack) + 1 /\ Len(stack') = Len(stack) + 1
  /\ \A i \in 1 .. Len(stack) - 1 : stack'[i] = stack[i]
  /\ stack'[Len(stack)].orb = stack[Len(stack)].orb
  /\ stack'[Len(stack)].todo = stack[Len(stack)].todo \ {x}
  /\ stack'[Len(stack) + 1] = [orb |-> x, todo |-> Tree!Children(x)]
  /\ nodes' \in Seq([orb : Tree!Ids, depth : Nat])
  /\ Len(nodes) \in Nat /\ DOMAIN nodes = 1 .. Len(nodes)
  /\ DOMAIN nodes' = 1 .. Len(nodes) + 1
  /\ \A j \in 1 .. Len(nodes) : nodes'[j] = nodes[j]
  /\ nodes'[Len(nodes) + 1] = [orb |-> x, depth |-> Len(stack)]
  /\ nodes' = Append(nodes, [orb |-> x, depth |-> Len(stack)])

LEMMA DescendFacts == ASSUME BuildInv, Tree!Descend PROVE \E x : CallMade(x)
<1> DEFINE E == [orb : Tree!Ids, todo : SUBSET Tree!Ids]
           L == Len(stack)
           top == stack[L]
           x == Tree!First(top.todo)
           old == [top EXCEPT !.todo = @ \ {x}]
           new == [orb |-> x, todo |-> Tree!Children(x)]
           below == SubSeq(stack, 1, L - 1)
           node == [orb |-> x, depth |-> L]
           N == [orb : Tree!Ids, depth : Nat]
<1>1. /\ pc = "build" /\ UNCHANGED <<input, pc, root>> /\ top.todo # {}
      /\ stack' = Append(Append(below, old), new) /\ nodes' = Append(nodes, node)
  BY DEF Tree!Descend, Tree!Top, Tree!Below, Tree!Call
<1>2. /\ L \in Nat /\ L >= 1 /\ DOMAIN stack = 1 .. L /\ stack \in Seq(E) /\ top \in E
      /\ nodes \in Seq(N) /\ Len(nodes) \in Nat /\ DOMAIN nodes = 1 .. Len(nodes)
      /\ \A i \in 1 .. L : stack[i] \in E
  BY <1>1, TreeTypes DEF BuildInv, Ends, Tree!TypeOK
<1>3. x \in top.todo /\ x \in Tree!Ids
  BY <1>1, <1>2 DEF Tree!First
<1>4. /\ old \in E /\ new \in E /\ node \in N
      /\ old.orb = top.orb /\ old.todo = top.todo \ {x}
  <2>1. Tree!Children(x) \in SUBSET Tree!Ids
    BY DEF Tree!Children
  <2>2. top = [orb |-> top.orb, todo |-> top.todo]
    BY <1>2
  <2> QED BY <1>2, <1>3, <2>1, <2>2
<1> HIDE DEF E, top, x, old, new, node, N
<1>5. below \in Seq(E) /\ Len(below) = L - 1 /\ \A i \in 1 .. L - 1 : below[i] = stack[i]
  <2> DEFINE n == L - 1
  <2>1. n \in Nat /\ stack \in Seq(E) /\ \A i \in 1 .. n : stack[i] \in E
    BY <1>2
  <2> HIDE DEF n
  <2>2. SubSeq(stack, 1, n) \in Seq(E) /\ Len(SubSeq(stack, 1, n)) = n
    BY <2>1
  <2>3. \A i \in 1 .. n : SubSeq(stack, 1, n)[i] = stack[i]
    BY <2>1
  <2> QED BY <2>2, <2>3 DEF n
<1> HIDE DEF below, L
<1> DEFINE mid == Append(below, old)
<1>6. /\ mid \in Seq(E) /\ Len(mid) = L /\ \A i \in 1 .. L - 1 : mid[i] = stack[i]
      /\ mid[L] = old
  <2>1. /\ mid \in Seq(E) /\ Len(mid) = Len(below) + 1
        /\ \A i \in 1 .. Len(below) : mid[i] = below[i]
        /\ mid[Len(below) + 1] = old
    BY <1>4, <1>5, AppendProperties
  <2>2. (L - 1) + 1 = L
    BY <1>2
  <2> QED BY <1>5, <2>1, <2>2
<1> HIDE DEF mid
<1>7. /\ stack' \in Seq(E) /\ Len(stack') = L + 1
      /\ \A i \in 1 .. L - 1 : stack'[i] = stack[i]
      /\ stack'[L] = old /\ stack'[L + 1] = new
  <2>1. /\ Append(mid, new) \in Seq(E) /\ Len(Append(mid, new)) = Len(mid) + 1
        /\ \A i \in 1 .. Len(mid) : Append(mid, new)[i] = mid[i]
        /\ Append(mid, new)[Len(mid) + 1] = new
    BY <1>4, <1>6, AppendProperties
  <2>2. stack' = Append(mid, new)
    BY <1>1 DEF mid
  <2>3. L \in 1 .. L /\ \A i \in 1 .. L - 1 : i \in 1 .. L
    BY <1>2
  <2> QED BY <1>6, <2>1, <2>2, <2>3
<1>8. /\ nodes' \in Seq(N) /\ Len(nodes') = Len(nodes) + 1
      /\ \A j \in 1 .. Len(nodes) : nodes'[j] = nodes[j]
      /\ nodes'[Len(nodes) + 1] = node
  BY <1>1, <1>2, <1>4, AppendProperties
<1>9. DOMAIN stack' = 1 .. L + 1 /\ DOMAIN nodes' = 1 .. Len(nodes) + 1
  BY <1>7, <1>8, LenProperties
<1>10. CallMade(x)
  BY <1>1, <1>2, <1>3, <1>4, <1>7, <1>8, <1>9 DEF CallMade, E, L, N, top, new, node, x
<1> QED BY <1>10

LEMMA CallKeeps == ASSUME BuildInv, NEW x, CallMade(x) PROVE BuildInv'
<1> DEFINE L == Len(stack)
           M == Len(nodes)
           E == [orb : Tree!Ids, todo : SUBSET Tree!Ids]
<1>1. /\ pc = "build" /\ UNCHANGED <<input, pc, root>>
      /\ x \in Tree!Ids /\ x \in stack[L].todo
      /\ L \in Nat /\ L >= 1 /\ DOMAIN stack = 1 .. L /\ DOMAIN stack' = 1 .. L + 1
      /\ \A i \in 1 .. L - 1 : stack'[i] = stack[i]
      /\ stack'[L].orb = stack[L].orb /\ stack'[L].todo = stack[L].todo \ {x}
      /\ stack'[L + 1].orb = x /\ stack'[L + 1].todo = Tree!Children(x)
  BY DEF CallMade
<1>2. /\ M \in Nat /\ DOMAIN nodes = 1 .. M /\ DOMAIN nodes' = 1 .. M + 1
      /\ \A j \in 1 .. M : nodes'[j] = nodes[j]
      /\ nodes'[M + 1] = [orb |-> x, depth |-> L]
      /\ nodes'[M + 1].orb = x /\ nodes'[M + 1].depth = L
  BY DEF CallMade
<1>3. /\ Tree!Ids' = Tree!Ids /\ Ids' = Ids /\ Looping' = Looping
      /\ \A y : Tree!Children(y)' = Tree!Children(y)
      /\ \A y, z : Under(y, z)' = Under(y, z)
      /\ \A y : OnLoop(y)' = OnLoop(y) /\ Parent(y)' = Parent(y)
  BY <1>1 DEF Tree!Ids, Ids, Looping, Tree!Children, Under, Tree!Down, OnLoop, Parent
<1>4. input \in Input /\ root \in OrbId /\ Tree!Ids = Ids /\ Ids \subseteq OrbId
  BY TreeFacts DEF BuildInv, Tree!TypeOK
<1> HIDE DEF L, M
<1>5. /\ \A i \in 1 .. L : i < L => i \in 1 .. L - 1
      /\ \A i \in 1 .. L + 1 : i \in 1 .. L - 1 \/ i = L \/ i = L + 1
      /\ L \in 1 .. L + 1 /\ L + 1 \in 1 .. L + 1 /\ \A i \in 1 .. L - 1 : i \in 1 .. L + 1 /\ i \in 1 .. L
      /\ \A j \in 1 .. M + 1 : j \in 1 .. M \/ j = M + 1
      /\ M + 1 \in 1 .. M + 1 /\ \A j \in 1 .. M : j \in 1 .. M + 1
      /\ L \in 1 .. L /\ \A i \in 1 .. L : i = L \/ i \in 1 .. L - 1
  BY <1>1, <1>2
<1> DEFINE p == stack[L].orb
<1>6. PICK k \in 1 .. M : nodes[k] = [orb |-> p, depth |-> L - 1]
  BY <1>1, <1>2, <1>5 DEF BuildInv, CallsFit
<1>7. x \in Tree!Children(p) /\ p \in Seen /\ p = Parent(x)
  <2>1. x \in Tree!Children(p)
    BY <1>1, <1>5 DEF BuildInv, CallsFit
  <2>2. p \in Seen
    BY <1>2, <1>6 DEF Seen
  <2> QED BY <1>4, <2>1, <2>2, TreeFacts
<1>8. Seen' = Seen \cup {x} /\ Seen \subseteq Ids
  <2>1. Seen' = Seen \cup {x}
    BY <1>2, <1>5 DEF Seen
  <2> QED BY <1>4, <2>1, TreeTypes DEF BuildInv
<1>9. Under(root, x)
  <2>1. Under(root, nodes[k].orb) /\ nodes[k].orb = p
    BY <1>2, <1>6 DEF BuildInv, NodesFit, NodeFits
  <2> QED BY <1>4, <1>7, <1>8, <2>1, UnderFacts
<1>10. Tree!TypeOK'
  BY <1>1, <1>3 DEF BuildInv, Tree!TypeOK, CallMade
<1>11. CallsFit'
  <2> SUFFICES ASSUME NEW i \in 1 .. L + 1
               PROVE  /\ stack'[i].todo \subseteq Tree!Children(stack'[i].orb)
                      /\ \E j \in 1 .. M + 1 :
                           nodes'[j] = [orb |-> stack'[i].orb, depth |-> i - 1]
    BY <1>1, <1>2, <1>3 DEF CallsFit
  <2>1. CASE i \in 1 .. L - 1
    BY <1>1, <1>2, <1>5, <2>1 DEF BuildInv, CallsFit
  <2>2. CASE i = L
    <3>1. stack'[i].todo \subseteq Tree!Children(stack'[i].orb)
      BY <1>1, <1>5, <2>2 DEF BuildInv, CallsFit
    <3>2. nodes'[k] = [orb |-> stack'[i].orb, depth |-> i - 1]
      BY <1>1, <1>2, <1>6, <2>2
    <3> QED BY <1>5, <3>1, <3>2
  <2>3. CASE i = L + 1
    <3>1. (L + 1) - 1 = L
      BY <1>1
    <3> QED BY <1>1, <1>2, <1>5, <2>3, <3>1
  <2> QED BY <1>5, <2>1, <2>2, <2>3
<1>12. NodesFit'
  <2> SUFFICES ASSUME NEW j \in 1 .. M + 1 PROVE NodeFits(j)'
    BY <1>2 DEF NodesFit
  <2>1. CASE j \in 1 .. M
    <3>1. NodeFits(j)
      BY <1>2, <2>1 DEF BuildInv, NodesFit
    <3>2. \A i \in 1 .. j - 1 : i \in 1 .. M
      BY <1>2, <2>1
    <3> QED BY <1>1, <1>2, <1>3, <2>1, <3>1, <3>2 DEF NodeFits
  <2>2. CASE j = M + 1
    <3>1. j # 1 /\ k \in 1 .. j - 1
      BY <1>2, <2>2
    <3>2. nodes'[k].orb = Parent(nodes'[j].orb) /\ nodes'[j].depth = nodes'[k].depth + 1
      <4>1. nodes'[k].orb = p /\ nodes'[k].depth = L - 1
        BY <1>2, <1>6
      <4>2. (L - 1) + 1 = L
        BY <1>1
      <4> QED BY <1>2, <1>7, <2>2, <4>1, <4>2
    <3> QED BY <1>1, <1>2, <1>3, <1>9, <2>2, <3>1, <3>2 DEF NodeFits
  <2> QED BY <1>5, <2>1, <2>2
<1>13. NothingForgotten'
  <2> SUFFICES ASSUME NEW v \in Seen \cup {x}, NEW y \in Tree!Children(v), y \notin Seen, y # x
               PROVE  \E i \in 1 .. L + 1 : stack'[i].orb = v /\ y \in stack'[i].todo
    BY <1>1, <1>3, <1>8 DEF NothingForgotten
  <2>1. CASE v \in Seen
    <3>1. PICK i \in 1 .. L : stack[i].orb = v /\ y \in stack[i].todo
      BY <1>1, <2>1 DEF BuildInv, NothingForgotten
    <3> QED BY <1>1, <1>5, <3>1
  <2>2. CASE v = x
    BY <1>1, <1>5, <2>2
  <2> QED BY <2>1, <2>2
<1>14. Ends'
  BY <1>1, <1>3, <1>5, <1>8 DEF BuildInv, Ends
<1>15. LoopGoesOn'
  <2> SUFFICES ASSUME root \in Ids, Looping
               PROVE  \E i \in 1 .. L + 1 : \E y \in stack'[i].todo : OnLoop(y)
    BY <1>1, <1>3 DEF LoopGoesOn
  <2>1. PICK i \in 1 .. L : \E y \in stack[i].todo : OnLoop(y)
    BY <1>1 DEF BuildInv, LoopGoesOn
  <2>2. CASE i \in 1 .. L - 1
    BY <1>1, <1>5, <2>1, <2>2
  <2>3. CASE i = L
    <3>1. PICK y \in stack[L].todo : OnLoop(y)
      BY <2>1, <2>3
    <3>2. CASE y # x
      BY <1>1, <1>5, <3>1, <3>2
    <3>3. CASE y = x
      <4>1. \E z \in Tree!Children(x) : OnLoop(z)
        BY <1>4, <1>1, <3>1, <3>3, LoopFacts
      <4> QED BY <1>1, <1>5, <4>1
    <3> QED BY <3>2, <3>3
  <2> QED BY <1>5, <2>2, <2>3
<1>16. NoneTwice'
  <2> SUFFICES ASSUME ~ Looping
               PROVE  /\ \A i, j \in 1 .. L + 1 : stack'[i].orb = stack'[j].orb => i = j
                      /\ \A i, j \in 1 .. M + 1 : nodes'[i].orb = nodes'[j].orb => i = j
                      /\ \A i \in 1 .. L + 1 : stack'[i].todo \cap (Seen \cup {x}) = {}
    BY <1>1, <1>2, <1>3, <1>8 DEF NoneTwice
  <2>1. /\ \A i, j \in 1 .. L : stack[i].orb = stack[j].orb => i = j
        /\ \A i, j \in 1 .. M : nodes[i].orb = nodes[j].orb => i = j
        /\ \A i \in 1 .. L : stack[i].todo \cap Seen = {}
    BY <1>1, <1>2 DEF BuildInv, NoneTwice
  <2>2. x \notin Seen
    BY <1>1, <1>5, <2>1
  <2>3. \A i \in 1 .. L : stack[i].orb \in Seen /\ stack'[i].orb = stack[i].orb
    <3> SUFFICES ASSUME NEW i \in 1 .. L
                 PROVE  stack[i].orb \in Seen /\ stack'[i].orb = stack[i].orb
      OBVIOUS
    <3>1. PICK j \in DOMAIN nodes : nodes[j] = [orb |-> stack[i].orb, depth |-> i - 1]
      BY <1>1 DEF BuildInv, CallsFit
    <3>2. stack[i].orb \in Seen
      BY <3>1 DEF Seen
    <3> QED BY <1>1, <1>5, <3>2
  <2>4. \A j \in 1 .. M : nodes'[j].orb = nodes[j].orb /\ nodes[j].orb \in Seen
    BY <1>2 DEF Seen
  <2>5. \A i, j \in 1 .. L + 1 : stack'[i].orb = stack'[j].orb => i = j
    <3>1. \A i \in 1 .. L + 1 : i \in 1 .. L \/ i = L + 1
      BY <1>1
    <3> QED BY <1>1, <2>1, <2>2, <2>3, <3>1
  <2>6. \A i, j \in 1 .. M + 1 : nodes'[i].orb = nodes'[j].orb => i = j
    BY <1>2, <1>5, <2>1, <2>2, <2>4
  <2>7. ASSUME NEW i \in 1 .. L + 1, NEW y \in stack'[i].todo PROVE y \notin Seen \cup {x}
    <3>1. CASE i \in 1 .. L - 1
      <4>1. y \in stack[i].todo /\ y \notin Seen
        BY <1>1, <1>5, <2>1, <2>7, <3>1
      <4>2. Parent(y) = stack[i].orb
        BY <1>1, <1>4, <1>5, <3>1, <4>1, TreeFacts DEF BuildInv, CallsFit
      <4>3. i # L /\ i \in 1 .. L
        BY <1>1, <3>1
      <4>4. Parent(y) # Parent(x)
        BY <1>5, <1>7, <2>1, <4>2, <4>3
      <4> QED BY <4>1, <4>4
    <3>2. CASE i = L
      BY <1>1, <1>5, <2>1, <2>7, <3>2
    <3>3. CASE i = L + 1
      <4>1. y \in Ids /\ Parent(y) = x /\ y \in Tree!Children(x)
        BY <1>1, <1>4, <2>7, <3>3, TreeFacts
      <4>2. y # x
        BY <1>7, <2>2, <4>1
      <4>3. ASSUME NEW j \in 1 .. M, y = nodes[j].orb PROVE FALSE
        <5>1. NodeFits(j)
          BY <1>2 DEF BuildInv, NodesFit
        <5>2. CASE j = 1
          <6>1. y = root
            BY <4>3, <5>1, <5>2 DEF NodeFits
          <6> QED BY <1>4, <1>9, <4>1, <6>1, LoopFacts
        <5>3. CASE j # 1
          <6>1. PICK m \in 1 .. j - 1 : nodes[m].orb = x
            BY <4>1, <4>3, <5>1, <5>3 DEF NodeFits
          <6>2. m \in 1 .. M
            BY <1>2, <6>1
          <6> QED BY <2>2, <2>4, <6>1, <6>2
        <5> QED BY <5>2, <5>3
      <4> QED BY <1>2, <4>2, <4>3 DEF Seen
    <3> QED BY <1>5, <3>1, <3>2, <3>3
  <2> QED BY <2>5, <2>6, <2>7
<1> QED BY <1>1, <1>4, <1>10, <1>11, <1>12, <1>13, <1>14, <1>15, <1>16 DEF BuildInv

LEMMA NextBuild ==
  ASSUME BuildInv, Tree!Next
  PROVE  BuildInv'
BY DescendFacts, CallKeeps, ReturnKeeps, OverflowKeeps DEF Tree!Next

\* What the invariant says of a finished tree.
LEMMA BuiltTree ==
  ASSUME BuildInv, pc = "built", root \in Ids
  PROVE  /\ ~ Looping
         /\ Seen = {x \in Ids : Under(root, x)}
         /\ \A i, j \in DOMAIN nodes : nodes[i].orb = nodes[j].orb => i = j
<1>1. ~ Looping
  BY DEF BuildInv, LoopGoesOn
<1>2. stack = <<>> /\ DOMAIN stack = {} /\ root \in Seen /\ Seen \subseteq Ids
  BY TreeFacts, TreeTypes DEF BuildInv, Ends
<1>3. \A x \in Seen : Tree!Children(x) \subseteq Seen
  BY <1>2 DEF BuildInv, NothingForgotten
<1>4. Closed(Tree!Down, Seen) /\ Seen \in SUBSET OrbId
  BY <1>2, <1>3, TreeFacts DEF Closed, BuildInv
<1>5. \A x \in Ids : Under(root, x) => x \in Seen
  BY <1>2, <1>4, TreeFacts DEF Under, Reaches, BuildInv
<1>6. \A x \in Seen : Under(root, x)
  BY DEF Seen, BuildInv, NodesFit, NodeFits
<1> QED BY <1>1, <1>2, <1>5, <1>6 DEF BuildInv, NoneTwice

LEMMA DescendantsOnce == ASSUME BuildInv PROVE Tree!EachDescendantOnce
<1> SUFFICES ASSUME pc = "built", root \in Tree!Ids
             PROVE  /\ Seen = {x \in Tree!Ids : Reaches(Tree!Down, root, x)}
                    /\ \A i, j \in DOMAIN nodes : nodes[i].orb = nodes[j].orb => i = j
                    /\ \A j \in 2 .. Len(nodes) : \E i \in 1 .. j - 1 :
                         /\ nodes[i].orb = input.parent[nodes[j].orb]
                         /\ nodes[j].depth = nodes[i].depth + 1
  BY SameGraph DEF Tree!EachDescendantOnce, Seen
<1>1. Tree!Ids = Ids
  BY TreeFacts DEF BuildInv
<1>2. Len(nodes) \in Nat /\ DOMAIN nodes = 1 .. Len(nodes)
  BY TreeTypes DEF BuildInv
<1>3. \A j \in 2 .. Len(nodes) : j \in DOMAIN nodes /\ j # 1
  BY <1>2
<1> QED BY <1>1, <1>3, BuiltTree DEF Under, BuildInv, NodesFit, NodeFits, Parent

\* A stack too short would hold more orbs than there are.
LEMMA OverflowIsCycle == ASSUME BuildInv PROVE Tree!OverflowOnlyOnCycle
<1> SUFFICES ASSUME pc = "overflow", ~ Looping PROVE FALSE
  BY LoopFacts, SameGraph DEF Tree!OverflowOnlyOnCycle, BuildInv, Tree!TypeOK
<1> DEFINE L == Len(stack)
           f == [i \in 1 .. L |-> stack[i].orb]
<1>1. /\ input \in Input /\ L = StackLimit /\ stack[L].todo # {}
      /\ L \in Nat /\ DOMAIN stack = 1 .. L
  BY TreeTypes DEF BuildInv, Ends, Tree!Top
<1>2. /\ IsFiniteSet(Ids) /\ Cardinality(Ids) \in Nat /\ Cardinality(Ids) <= L
      /\ Tree!Ids = Ids
  BY <1>1, TreeFacts
<1>3. f \in [1 .. L -> Ids] /\ \A i, j \in 1 .. L : f[i] = f[j] => i = j
  BY <1>1, <1>2, TreeTypes DEF BuildInv, NoneTwice
<1>4. f \in Injection(1 .. L, Ids)
  BY <1>3 DEF Injection, IsInjective
<1>5. IsFiniteSet(1 .. L) /\ Cardinality(1 .. L) = L
  BY <1>1, FS_Interval
<1>6. L <= Cardinality(Ids)
  BY <1>2, <1>4, <1>5, FS_Injection
<1>7. f \in Surjection(1 .. L, Ids)
  <2>1. L = Cardinality(Ids)
    BY <1>1, <1>2, <1>6
  <2> QED BY <1>2, <1>4, <1>5, <2>1, FS_Injection
<1>8. Ids \subseteq Seen
  <2>1. \A i \in 1 .. L : f[i] \in Seen
    BY <1>1 DEF BuildInv, CallsFit, Seen
  <2> QED BY <1>7, <2>1 DEF Surjection
<1>9. L \in 1 .. L
  <2>1. stack # <<>>
    <3> SUFFICES ASSUME stack = <<>> PROVE FALSE
      OBVIOUS
    <3>1. L = 0
      OBVIOUS
    <3>2. Ids = {}
      BY <1>2, <3>1, FS_EmptySet
    <3>3. pc = "built"
      BY <3>2 DEF BuildInv, Ends
    <3> QED BY <3>3
  <2> QED BY <2>1, TreeTypes DEF BuildInv
<1>10. stack[L].todo \subseteq Ids /\ stack[L].todo \cap Seen = {}
  BY <1>1, <1>2, <1>9, TreeTypes DEF BuildInv, NoneTwice
<1> QED BY <1>1, <1>8, <1>10
-----------------------------------------------------------------------------
(* What is read off the tree.                                              *)

LEMMA GreatestExists ==
  ASSUME NEW S, IsFiniteSet(S), S # {}, NEW f \in [S -> Nat]
  PROVE  \E p \in S : \A q \in S : f[q] <= f[p]
<1> DEFINE Good(T) == T # {} => \E p \in T : \A q \in T : f[q] <= f[p]
           C == {n \in Nat : \A T \in SUBSET S : Cardinality(T) = n => Good(T)}
<1>1. \A T \in SUBSET S : IsFiniteSet(T)
  BY FS_Subset
<1>2. 0 \in C
  BY <1>1, FS_EmptySet
<1>3. ASSUME NEW n \in C, NEW T \in SUBSET S, Cardinality(T) = n + 1 PROVE Good(T)
  <2> SUFFICES ASSUME NEW t \in T PROVE \E p \in T : \A q \in T : f[q] <= f[p]
    OBVIOUS
  <2>1. Cardinality(T \ {t}) = n
    <3>1. Cardinality(T \ {t}) = Cardinality(T) - 1
      BY <1>1, FS_RemoveElement
    <3> QED BY <1>3, <3>1
  <2>2. Good(T \ {t})
    BY <2>1
  <2>3. CASE T \ {t} = {}
    <3>1. \A q \in T : q = t
      BY <2>3
    <3> QED BY <3>1
  <2>4. CASE T \ {t} # {}
    <3>1. PICK p \in T \ {t} : \A q \in T \ {t} : f[q] <= f[p]
      BY <2>2, <2>4
    <3>2. CASE f[t] <= f[p]
      BY <3>1, <3>2
    <3>3. CASE ~ (f[t] <= f[p])
      <4>1. \A q \in T : f[q] \in Nat
        OBVIOUS
      <4>2. \A q \in T : f[q] <= f[t]
        BY <3>1, <3>3, <4>1
      <4> QED BY <4>2
    <3> QED BY <3>2, <3>3
  <2> QED BY <2>3, <2>4
<1>4. C = Nat
  <2>1. C \in SUBSET Nat /\ \A n \in C : n + 1 \in C
    BY <1>3
  <2> HIDE DEF C
  <2> QED BY <1>2, <2>1, Induction
<1>5. Cardinality(S) \in Nat
  BY FS_CardinalityType
<1>6. Good(S)
  BY <1>4, <1>5
<1> QED BY <1>6

LEMMA ChildrenAreFinite ==
  ASSUME input \in Input, NEW x
  PROVE  IsFiniteSet(Tree!Children(x)) /\ Tree!Children(x) \subseteq Ids
BY TreeFacts, FS_Subset

LEMMA GreatestOf ==
  ASSUME input \in Input, NEW x, Tree!Children(x) # {},
         NEW h, \A z \in Tree!Children(x) : h[z] \in Nat
  PROVE  \E z \in Tree!Children(x) :
           /\ Tree!Greatest({h[c] : c \in Tree!Children(x)}) = h[z]
           /\ \A c \in Tree!Children(x) : h[c] <= h[z]
<1> DEFINE K == Tree!Children(x)
           f == [c \in K |-> h[c]]
           V == {h[c] : c \in K}
<1>1. PICK p \in K : \A q \in K : f[q] <= f[p]
  <2>1. f \in [K -> Nat] /\ IsFiniteSet(K) /\ K # {}
    BY ChildrenAreFinite
  <2> HIDE DEF f, K
  <2> QED BY <2>1, GreatestExists
<1>2. h[p] \in V /\ \A e \in V : e <= h[p] /\ e \in Nat
  BY <1>1
<1> DEFINE g == Tree!Greatest(V)
<1>3. g \in V /\ \A e \in V : e <= g
  BY <1>2 DEF Tree!Greatest
<1> HIDE DEF g, V
<1>4. g = h[p]
  <2>1. g <= h[p] /\ h[p] <= g /\ g \in Nat /\ h[p] \in Nat
    BY <1>2, <1>3
  <2> QED BY <2>1
<1> QED BY <1>1, <1>4 DEF g, V

\* A child's node comes later and is one deeper.
LEMMA ChildNodes ==
  ASSUME BuildInv, pc = "built", root \in Ids,
         NEW j \in DOMAIN nodes, NEW y \in Tree!Children(nodes[j].orb)
  PROVE  \E m \in DOMAIN nodes :
           m > j /\ nodes[m].orb = y /\ nodes[m].depth = nodes[j].depth + 1
<1>1. /\ ~ Looping /\ Seen = {x \in Ids : Under(root, x)}
      /\ \A i, k \in DOMAIN nodes : nodes[i].orb = nodes[k].orb => i = k
  BY BuiltTree
<1>2. input \in Input /\ root \in OrbId /\ Ids \subseteq OrbId
  BY TreeFacts DEF BuildInv, Tree!TypeOK
<1>3. nodes[j].orb \in Seen
  BY DEF Seen
<1>4. y \in Ids /\ Parent(y) = nodes[j].orb
  BY <1>2, TreeFacts
<1>5. Under(root, y)
  BY <1>1, <1>2, <1>3, UnderFacts
<1>6. PICK m \in DOMAIN nodes : nodes[m].orb = y
  BY <1>1, <1>4, <1>5 DEF Seen
<1>7. NodeFits(m)
  BY DEF BuildInv, NodesFit
<1>8. m # 1
  <2> SUFFICES ASSUME m = 1 PROVE FALSE
    OBVIOUS
  <2>1. y = root
    BY <1>6, <1>7 DEF NodeFits
  <2>2. Under(root, nodes[j].orb)
    BY <1>1, <1>3
  <2> QED BY <1>1, <1>2, <2>1, <2>2, LoopFacts
<1>9. PICK i \in 1 .. m - 1 : nodes[i].orb = Parent(y) /\ nodes[m].depth = nodes[i].depth + 1
  BY <1>6, <1>7, <1>8 DEF NodeFits
<1>10. i \in DOMAIN nodes /\ i < m /\ DOMAIN nodes \subseteq Nat
  BY TreeTypes DEF BuildInv
<1>11. i = j
  BY <1>1, <1>4, <1>9, <1>10
<1> QED BY <1>6, <1>9, <1>10, <1>11

\* There are enough rounds for the tree.
LEMMA NodesAreFew ==
  ASSUME BuildInv, pc = "built", root \in Ids
  PROVE  /\ Tree!Calls \in Nat /\ Len(nodes) <= Tree!Calls
         /\ Len(nodes) \in Nat /\ DOMAIN nodes = 1 .. Len(nodes)
         /\ 1 \in DOMAIN nodes /\ nodes[1].orb = root /\ nodes[1].depth = 0
         /\ Cardinality(Seen) = Len(nodes)
<1> DEFINE L == Len(nodes)
           f == [j \in 1 .. L |-> nodes[j].orb]
<1>1. L \in Nat /\ DOMAIN nodes = 1 .. L
  BY TreeTypes DEF BuildInv
<1>2. input \in Input /\ Tree!Ids = Ids /\ IsFiniteSet(Ids) /\ Tree!Calls = Cardinality(Ids)
  BY TreeFacts, SameCardinality DEF BuildInv, Tree!Calls
<1>3. Seen = {f[j] : j \in 1 .. L} /\ Seen \subseteq Ids
  BY <1>1, <1>2, TreeTypes DEF Seen, BuildInv
<1>4. f \in Bijection(1 .. L, Seen)
  <2>1. f \in [1 .. L -> Seen]
    BY <1>3
  <2>2. \A i, j \in 1 .. L : f[i] = f[j] => i = j
    BY <1>1, BuiltTree
  <2> HIDE DEF f
  <2> QED BY <1>3, <2>1, <2>2 DEF Bijection, Injection, IsInjective, Surjection
<1>5. Cardinality(Seen) = L
  <2>1. IsFiniteSet(1 .. L) /\ Cardinality(1 .. L) = L
    <3> HIDE DEF L
    <3> QED BY <1>1, FS_Interval
  <2>2. IsFiniteSet(Seen)
    BY <1>2, <1>3, FS_Subset
  <2>3. ExistsBijection(1 .. L, Seen)
    BY <1>4 DEF ExistsBijection
  <2> QED BY <2>1, <2>3, FS_Bijection
<1>6. L <= Tree!Calls /\ Tree!Calls \in Nat
  BY <1>2, <1>3, <1>5, FS_Subset, FS_CardinalityType
<1>7. root \in Seen
  BY DEF BuildInv, Ends
<1>8. 1 \in DOMAIN nodes
  BY <1>1, <1>7 DEF Seen
<1>9. nodes[1] = [orb |-> root, depth |-> 0]
  BY <1>8 DEF BuildInv, NodesFit, NodeFits
<1> QED BY <1>1, <1>5, <1>6, <1>8, <1>9

\* g lists the rounds of depth.
Depths(g) ==
  /\ \A n \in 1 .. Tree!Calls :
       g[n] = [y \in Tree!Ids |->
                 IF Tree!Children(y) = {} THEN 0
                 ELSE 1 + Tree!Greatest({g[n - 1][z] : z \in Tree!Children(y)})]
  /\ \A x : Tree!DepthOf(x) = g[Tree!Calls][x]

LEMMA DepthRounds ==
  ASSUME input \in Input
  PROVE  \E g : Depths(g)
<1> DEFINE N == Tree!Calls
           X == [Tree!Ids -> Nat]
           step(h) == [y \in Tree!Ids |->
                         IF Tree!Children(y) = {} THEN 0
                         ELSE 1 + Tree!Greatest({h[z] : z \in Tree!Children(y)})]
           F == [h \in X |-> step(h)]
           x0 == [y \in Tree!Ids |-> 0]
           P(h) == h = [n \in 0 .. N |->
                          IF n = 0 THEN [y \in Tree!Ids |-> 0]
                          ELSE [y \in Tree!Ids |->
                                  IF Tree!Children(y) = {} THEN 0
                                  ELSE 1 + Tree!Greatest({h[n - 1][z] : z \in Tree!Children(y)})]]
<1>1. N \in Nat /\ x0 \in X
  BY TreeFacts, SameCardinality DEF Tree!Calls
<1>2. F \in [X -> X]
  <2> SUFFICES ASSUME NEW h \in X, NEW y \in Tree!Ids, Tree!Children(y) # {}
               PROVE  Tree!Greatest({h[z] : z \in Tree!Children(y)}) \in Nat
    OBVIOUS
  <2>1. \A z \in Tree!Children(y) : h[z] \in Nat
    BY ChildrenAreFinite, TreeFacts
  <2>2. \E z \in Tree!Children(y) : Tree!Greatest({h[c] : c \in Tree!Children(y)}) = h[z]
    BY <2>1, GreatestOf
  <2> QED BY <2>1, <2>2
<1>3. \E g : P(g)
  <2>1. PICK g : Iterated(g, X, F, x0, N)
    <3> HIDE DEF N, F, x0, X
    <3> QED BY <1>1, <1>2, Iterates
  <2>2. \A n \in 0 .. N : n # 0 => n \in 1 .. N /\ n - 1 \in 0 .. N
    BY <1>1
  <2>3. \A n \in 0 .. N : n # 0 => g[n] = step(g[n - 1])
    BY <2>1, <2>2 DEF Iterated
  <2>4. P(g)
    BY <2>1, <2>3 DEF Iterated
  <2> HIDE DEF P
  <2> QED BY <2>4
<1> DEFINE c == CHOOSE h : P(h)
<1>4. \A x : Tree!DepthOf(x) = c[N][x]
  BY DEF Tree!DepthOf
<1>5. P(c)
  <2> HIDE DEF P
  <2> QED BY <1>3
<1> HIDE DEF c
<1>6. \A n \in 1 .. N : n \in 0 .. N /\ n # 0
  BY <1>1
<1>7. Depths(c)
  BY <1>4, <1>5, <1>6 DEF Depths
<1> QED BY <1>7

\* What holds of a node after a round, if it holds of all later nodes after the
\* round before, holds of the root in the end.
LEMMA TreeInduction ==
  ASSUME BuildInv, pc = "built", root \in Ids, NEW Q,
         \A n \in 1 .. Tree!Calls : \A j \in DOMAIN nodes :
           (\A m \in DOMAIN nodes : m > j => <<n - 1, m>> \in Q) => <<n, j>> \in Q
  PROVE  <<Tree!Calls, 1>> \in Q
<1> DEFINE N == Tree!Calls
           L == Len(nodes)
           C == {n \in Nat : n <= N => \A j \in 1 .. L : L - j < n => <<n, j>> \in Q}
<1>1. N \in Nat /\ L \in Nat /\ L <= N /\ 1 \in 1 .. L /\ DOMAIN nodes = 1 .. L
  BY NodesAreFew
<1> HIDE DEF L, N
<1>2. 0 \in C
  BY <1>1
<1>3. ASSUME NEW n \in C PROVE n + 1 \in C
  <2> SUFFICES ASSUME n + 1 <= N, NEW j \in 1 .. L, L - j < n + 1 PROVE <<n + 1, j>> \in Q
    BY <1>3
  <2>1. n \in Nat /\ n <= N /\ n + 1 \in 1 .. N /\ (n + 1) - 1 = n
    BY <1>1
  <2>2. \A m \in 1 .. L : m > j => L - m < n
    BY <1>1, <2>1
  <2>3. \A m \in 1 .. L : m > j => <<n, m>> \in Q
    BY <1>3, <2>1, <2>2
  <2> QED BY <1>1, <2>1, <2>3 DEF N
<1>4. C = Nat
  <2>1. C \in SUBSET Nat /\ \A n \in C : n + 1 \in C
    BY <1>3
  <2> HIDE DEF C
  <2> QED BY <1>2, <2>1, Induction
<1>5. N \in C
  <2> HIDE DEF C
  <2> QED BY <1>1, <1>4
<1>6. L - 1 < N /\ N <= N
  BY <1>1
<1> QED BY <1>1, <1>5, <1>6 DEF N

\* From an orb the rest of its tree is found through its children.
LEMMA BelowNode ==
  ASSUME BuildInv, pc = "built", root \in Ids, NEW j \in DOMAIN nodes, NEW m \in DOMAIN nodes
  PROVE  /\ nodes[j].orb \in Ids /\ nodes[j].depth \in Nat /\ nodes[j].orb \in Tree!Ids
         /\ Under(nodes[j].orb, nodes[m].orb) =>
              m = j \/ \E y \in Tree!Children(nodes[j].orb) : Under(y, nodes[m].orb)
         /\ \A y \in Tree!Children(nodes[j].orb) :
              Under(y, nodes[m].orb) => Under(nodes[j].orb, nodes[m].orb)
         /\ Under(nodes[j].orb, nodes[j].orb)
<1>1. input \in Input /\ Tree!Ids = Ids /\ Ids \subseteq OrbId
  BY TreeFacts DEF BuildInv
<1>2. /\ nodes[j].orb \in Ids /\ nodes[m].orb \in Ids /\ nodes[j].depth \in Nat
  BY <1>1, TreeTypes DEF BuildInv
<1>3. nodes[j].orb \in OrbId /\ nodes[m].orb \in OrbId
  BY <1>1, <1>2
<1>4. nodes[m].orb = nodes[j].orb => m = j
  BY BuiltTree
<1>5. Under(nodes[j].orb, nodes[m].orb) /\ nodes[m].orb # nodes[j].orb
        => \E y \in Tree!Children(nodes[j].orb) : Under(y, nodes[m].orb)
  BY <1>1, <1>3, UnderFirst
<1>6. ASSUME NEW y \in Tree!Children(nodes[j].orb), Under(y, nodes[m].orb)
      PROVE  Under(nodes[j].orb, nodes[m].orb)
  <2>1. y \in OrbId /\ Under(nodes[j].orb, nodes[j].orb)
    BY <1>1, <1>3, TreeFacts, UnderFacts
  <2>2. Under(nodes[j].orb, y)
    BY <1>1, <1>3, <2>1, UnderFacts
  <2> QED BY <1>1, <1>3, <1>6, <2>1, <2>2, UnderFacts
<1> QED BY <1>1, <1>2, <1>3, <1>4, <1>5, <1>6, UnderFacts

\* d is how much deeper than node j the tree below it goes.
DepthBelow(j, d) ==
  /\ d \in Nat
  /\ \A m \in DOMAIN nodes :
       Under(nodes[j].orb, nodes[m].orb) => nodes[m].depth <= nodes[j].depth + d
  /\ \E m \in DOMAIN nodes :
       Under(nodes[j].orb, nodes[m].orb) /\ nodes[m].depth = nodes[j].depth + d

LEMMA DepthIsRight ==
  ASSUME BuildInv, pc = "built", root \in Ids
  PROVE  DepthBelow(1, Tree!DepthOf(root))
<1>1. input \in Input /\ Tree!Ids = Ids
  BY TreeFacts DEF BuildInv
<1>2. PICK g : Depths(g)
  BY <1>1, DepthRounds
<1> DEFINE N == Tree!Calls
           Q == {p \in (0 .. N) \X DOMAIN nodes : DepthBelow(p[2], g[p[1]][nodes[p[2]].orb])}
<1>3. ASSUME NEW n \in 1 .. N, NEW j \in DOMAIN nodes,
             \A m \in DOMAIN nodes : m > j => <<n - 1, m>> \in Q
      PROVE  <<n, j>> \in Q
  <2> DEFINE y == nodes[j].orb
             K == Tree!Children(y)
             h == g[n - 1]
  <2>1. n \in 0 .. N
    BY NodesAreFew
  <2>2. g[n][y] = IF K = {} THEN 0 ELSE 1 + Tree!Greatest({h[z] : z \in K})
    BY <1>2, BelowNode DEF Depths
  <2>3. nodes[j].depth \in Nat /\ Under(y, y) /\ \A m \in DOMAIN nodes : nodes[m].depth \in Nat
    BY BelowNode
  <2>4. ASSUME NEW z \in K
        PROVE  \E m \in DOMAIN nodes :
                 /\ m > j /\ nodes[m].orb = z /\ nodes[m].depth = nodes[j].depth + 1
                 /\ DepthBelow(m, h[z])
    <3>1. PICK m \in DOMAIN nodes :
                 m > j /\ nodes[m].orb = z /\ nodes[m].depth = nodes[j].depth + 1
      BY ChildNodes
    <3>2. DepthBelow(m, h[z])
      <4>1. <<n - 1, m>> \in Q
        BY <1>3, <3>1
      <4> QED BY <3>1, <4>1
    <3> QED BY <3>1, <3>2
  <2>5. \A z \in K : h[z] \in Nat
    BY <2>4 DEF DepthBelow
  <2>6. CASE K = {}
    <3>1. g[n][y] = 0
      BY <2>2, <2>6
    <3>2. \A m \in DOMAIN nodes : Under(y, nodes[m].orb) => m = j
      BY <2>6, BelowNode
    <3>3. DepthBelow(j, g[n][y])
      BY <2>3, <3>1, <3>2 DEF DepthBelow
    <3> QED BY <2>1, <3>3
  <2>7. CASE K # {}
    <3>1. PICK z \in K : Tree!Greatest({h[c] : c \in K}) = h[z] /\ \A c \in K : h[c] <= h[z]
      BY <1>1, <2>5, <2>7, GreatestOf
    <3>2. g[n][y] = 1 + h[z] /\ h[z] \in Nat
      BY <2>2, <2>5, <2>7, <3>1
    <3>3. ASSUME NEW m \in DOMAIN nodes, Under(y, nodes[m].orb)
          PROVE  nodes[m].depth <= nodes[j].depth + g[n][y]
      <4>1. CASE m = j
        BY <2>3, <3>2, <4>1
      <4>2. CASE m # j
        <5>1. PICK c \in K : Under(c, nodes[m].orb)
          BY <3>3, <4>2, BelowNode
        <5>2. nodes[m].depth <= (nodes[j].depth + 1) + h[c]
          BY <2>4, <5>1 DEF DepthBelow
        <5>3. h[c] \in Nat /\ h[c] <= h[z] /\ nodes[m].depth \in Nat
          BY <2>3, <2>5, <3>1
        <5> QED BY <2>3, <3>2, <5>2, <5>3
      <4> QED BY <4>1, <4>2
    <3>4. \E m \in DOMAIN nodes : Under(y, nodes[m].orb) /\ nodes[m].depth = nodes[j].depth + g[n][y]
      <4>1. PICK m \in DOMAIN nodes :
              Under(z, nodes[m].orb) /\ nodes[m].depth = (nodes[j].depth + 1) + h[z]
        BY <2>4 DEF DepthBelow
      <4>2. Under(y, nodes[m].orb)
        BY <4>1, BelowNode
      <4>3. nodes[m].depth = nodes[j].depth + g[n][y]
        BY <2>3, <3>2, <4>1
      <4> QED BY <4>2, <4>3
    <3>5. DepthBelow(j, g[n][y])
      BY <3>2, <3>3, <3>4 DEF DepthBelow
    <3> QED BY <2>1, <3>5
  <2> QED BY <2>6, <2>7
<1>4. <<N, 1>> \in Q
  <2> HIDE DEF Q
  <2> QED BY <1>3, TreeInduction
<1>5. nodes[1].orb = root
  BY NodesAreFew
<1> QED BY <1>2, <1>4, <1>5 DEF Depths

\* g lists the rounds of leaves.
Leaves(g) ==
  /\ \A n \in 1 .. Tree!Calls :
       g[n] = [y \in Tree!Ids |->
                 IF Tree!Children(y) = {} THEN {y}
                 ELSE UNION {g[n - 1][z] : z \in Tree!Children(y)}]
  /\ \A x : Tree!LeavesOf(x) = g[Tree!Calls][x]

LEMMA LeavesRounds ==
  ASSUME input \in Input
  PROVE  \E g : Leaves(g)
<1> DEFINE N == Tree!Calls
           X == [Tree!Ids -> SUBSET Tree!Ids]
           step(h) == [y \in Tree!Ids |->
                         IF Tree!Children(y) = {} THEN {y}
                         ELSE UNION {h[z] : z \in Tree!Children(y)}]
           F == [h \in X |-> step(h)]
           x0 == [y \in Tree!Ids |-> {}]
           P(h) == h = [n \in 0 .. N |->
                          IF n = 0 THEN [y \in Tree!Ids |-> {}]
                          ELSE [y \in Tree!Ids |->
                                  IF Tree!Children(y) = {} THEN {y}
                                  ELSE UNION {h[n - 1][z] : z \in Tree!Children(y)}]]
<1>1. N \in Nat /\ x0 \in X
  BY TreeFacts, SameCardinality DEF Tree!Calls
<1>2. F \in [X -> X]
  <2>1. \A y : Tree!Children(y) \subseteq Tree!Ids
    BY DEF Tree!Children
  <2>2. \A h \in X : \A y \in Tree!Ids : UNION {h[z] : z \in Tree!Children(y)} \subseteq Tree!Ids
    BY <2>1
  <2>3. \A h \in X : step(h) \in X
    BY <2>2
  <2> HIDE DEF step, X
  <2> QED BY <2>3
<1>3. \E g : P(g)
  <2>1. PICK g : Iterated(g, X, F, x0, N)
    <3> HIDE DEF N, F, x0, X
    <3> QED BY <1>1, <1>2, Iterates
  <2>2. \A n \in 0 .. N : n # 0 => n \in 1 .. N /\ n - 1 \in 0 .. N
    BY <1>1
  <2>3. \A n \in 0 .. N : n # 0 => g[n] = step(g[n - 1])
    BY <2>1, <2>2 DEF Iterated
  <2>4. P(g)
    BY <2>1, <2>3 DEF Iterated
  <2> HIDE DEF P
  <2> QED BY <2>4
<1> DEFINE c == CHOOSE h : P(h)
<1>4. \A x : Tree!LeavesOf(x) = c[N][x]
  BY DEF Tree!LeavesOf
<1>5. P(c)
  <2> HIDE DEF P
  <2> QED BY <1>3
<1> HIDE DEF c
<1>6. \A n \in 1 .. N : n \in 0 .. N /\ n # 0
  BY <1>1
<1>7. Leaves(c)
  BY <1>4, <1>5, <1>6 DEF Leaves
<1> QED BY <1>7

LeavesBelow(x) == {z \in Ids : Under(x, z) /\ Tree!Children(z) = {}}

LEMMA LeavesAreRight ==
  ASSUME BuildInv, pc = "built", root \in Ids
  PROVE  Tree!LeavesOf(root) = LeavesBelow(root)
<1>1. input \in Input /\ Tree!Ids = Ids /\ Ids \subseteq OrbId
  BY TreeFacts DEF BuildInv
<1>2. PICK g : Leaves(g)
  BY <1>1, LeavesRounds
<1> DEFINE N == Tree!Calls
           Q == {p \in (0 .. N) \X DOMAIN nodes :
                   g[p[1]][nodes[p[2]].orb] = LeavesBelow(nodes[p[2]].orb)}
<1>3. ASSUME NEW n \in 1 .. N, NEW j \in DOMAIN nodes,
             \A m \in DOMAIN nodes : m > j => <<n - 1, m>> \in Q
      PROVE  <<n, j>> \in Q
  <2> DEFINE y == nodes[j].orb
             K == Tree!Children(y)
             h == g[n - 1]
  <2>1. n \in 0 .. N
    BY NodesAreFew
  <2>2. g[n][y] = IF K = {} THEN {y} ELSE UNION {h[z] : z \in K}
    BY <1>2, BelowNode DEF Leaves
  <2>3. y \in Ids /\ y \in OrbId /\ Under(y, y) /\ K \subseteq OrbId
    BY <1>1, BelowNode, ChildrenAreFinite
  <2>4. \A z \in K : h[z] = LeavesBelow(z)
    <3> SUFFICES ASSUME NEW z \in K PROVE h[z] = LeavesBelow(z)
      OBVIOUS
    <3>1. PICK m \in DOMAIN nodes : m > j /\ nodes[m].orb = z
      BY ChildNodes
    <3>2. <<n - 1, m>> \in Q
      BY <1>3, <3>1
    <3> QED BY <3>1, <3>2
  <2>5. \A w \in Ids : Under(y, w) <=> w = y \/ \E z \in K : Under(z, w)
    <3>1. \A w \in Ids : Under(y, w) /\ w # y => \E z \in K : Under(z, w)
      BY <1>1, <2>3, UnderFirst
    <3>2. \A z \in K : Under(y, z)
      BY <1>1, <2>3, UnderFacts
    <3>3. \A w \in Ids : \A z \in K : Under(z, w) => Under(y, w)
      BY <1>1, <2>3, <3>2, UnderFacts
    <3> QED BY <2>3, <3>1, <3>3
  <2>6. g[n][y] = LeavesBelow(y)
    <3>1. CASE K = {}
      BY <2>2, <2>3, <2>5, <3>1 DEF LeavesBelow
    <3>2. CASE K # {}
      <4>1. g[n][y] = UNION {LeavesBelow(z) : z \in K}
        BY <2>2, <2>4, <3>2
      <4> QED BY <2>3, <2>5, <3>2, <4>1 DEF LeavesBelow
    <3> QED BY <3>1, <3>2
  <2> QED BY <2>1, <2>6
<1>4. <<N, 1>> \in Q
  <2> HIDE DEF Q
  <2> QED BY <1>3, TreeInduction
<1>5. nodes[1].orb = root
  BY NodesAreFew
<1> QED BY <1>2, <1>4, <1>5 DEF Leaves

-----------------------------------------------------------------------------
(* The critical path.                                                      *)

Links == {a \in Tree!Down : Tree!Linked(a[1], a[2])}

LEMMA LinkFacts ==
  ASSUME input \in Input, NEW x \in OrbId
  PROVE  /\ \A y \in OrbId : <<x, y>> \in Links <=> y \in Tree!LinkedChildren(x)
         /\ Tree!LinkedChildren(x) \subseteq Tree!Children(x)
         /\ IsFiniteSet(Tree!LinkedChildren(x)) /\ Tree!LinkedChildren(x) \subseteq Ids
         /\ \A z \in OrbId : Reaches(Links, x, z) /\ x # z =>
              \E y \in Tree!LinkedChildren(x) : Reaches(Links, y, z)
<1>1. \A v, y \in OrbId : <<v, y>> \in Links <=> y \in Tree!LinkedChildren(v)
  BY TreeFacts DEF Links, Tree!LinkedChildren
<1>2. \A v : Tree!LinkedChildren(v) \subseteq Tree!Children(v)
  BY DEF Tree!LinkedChildren
<1>3. \A v : IsFiniteSet(Tree!LinkedChildren(v)) /\ Tree!LinkedChildren(v) \subseteq Ids
             /\ Tree!LinkedChildren(v) \subseteq OrbId
  BY <1>2, ChildrenAreFinite, TreeFacts, FS_Subset
<1>4. ASSUME NEW z \in OrbId, Reaches(Links, x, z), x # z
      PROVE  \E y \in Tree!LinkedChildren(x) : Reaches(Links, y, z)
  <2> DEFINE C == {x} \cup {w \in OrbId : \E y \in Tree!LinkedChildren(x) : Reaches(Links, y, w)}
  <2>1. ASSUME NEW v \in OrbId, NEW w \in OrbId, <<v, w>> \in Links, v \in C PROVE w \in C
    <3>1. CASE v = x
      <4>1. w \in Tree!LinkedChildren(x) /\ Reaches(Links, w, w)
        BY <1>1, <2>1, <3>1, ReachesFacts
      <4> QED BY <4>1
    <3>2. CASE v # x
      <4>1. PICK y \in Tree!LinkedChildren(x) : Reaches(Links, y, v)
        BY <2>1, <3>2
      <4>2. Reaches(Links, y, w)
        BY <1>3, <2>1, <4>1, ReachesFacts
      <4> QED BY <4>2
    <3> QED BY <3>1, <3>2
  <2>2. Closed(Links, C) /\ C \in SUBSET OrbId /\ x \in C
    BY <2>1 DEF Closed
  <2>3. z \in C
    BY <1>4, <2>2 DEF Reaches
  <2> QED BY <1>4, <2>3
<1> QED BY <1>1, <1>2, <1>3, <1>4

LEMMA Prefixed ==
  ASSUME NEW S, NEW y \in S, NEW q \in Seq(S)
  PROVE  /\ <<y>> \o q \in Seq(S) /\ Len(<<y>> \o q) = Len(q) + 1 /\ (<<y>> \o q)[1] = y
         /\ \A i \in 2 .. Len(q) + 1 : (<<y>> \o q)[i] = q[i - 1]
<1> DEFINE s == <<y>>
<1>1. s \in Seq(S) /\ Len(s) = 1 /\ s[1] = y /\ Len(q) \in Nat
  BY LenProperties
<1> HIDE DEF s
<1>2. /\ s \o q \in Seq(S) /\ Len(s \o q) = 1 + Len(q)
      /\ \A i \in 1 .. 1 + Len(q) : (s \o q)[i] = IF i <= 1 THEN s[i] ELSE q[i - 1]
  <2>1. /\ s \o q \in Seq(S) /\ Len(s \o q) = Len(s) + Len(q)
        /\ \A i \in 1 .. Len(s) + Len(q) : (s \o q)[i] = IF i <= Len(s) THEN s[i] ELSE q[i - Len(s)]
    BY <1>1, ConcatProperties
  <2> QED BY <1>1, <2>1
<1>3. 1 \in 1 .. 1 + Len(q) /\ \A i \in 2 .. Len(q) + 1 : i \in 1 .. 1 + Len(q) /\ ~ (i <= 1)
  BY <1>1
<1>4. (s \o q)[1] = y /\ \A i \in 2 .. Len(q) + 1 : (s \o q)[i] = q[i - 1]
  BY <1>1, <1>2, <1>3
<1>5. 1 + Len(q) = Len(q) + 1
  BY <1>1
<1> QED BY <1>2, <1>4, <1>5 DEF s

LEMMA LongestOf ==
  ASSUME input \in Input, NEW x \in OrbId, Tree!LinkedChildren(x) # {},
         NEW h, \A z \in Tree!LinkedChildren(x) : h[z] \in Seq(Ids)
  PROVE  \E z \in Tree!LinkedChildren(x) :
           /\ Tree!Longest({h[c] : c \in Tree!LinkedChildren(x)}) = h[z]
           /\ \A c \in Tree!LinkedChildren(x) : Len(h[c]) <= Len(h[z])
<1> DEFINE K == Tree!LinkedChildren(x)
           f == [c \in K |-> Len(h[c])]
           V == {h[c] : c \in K}
<1>1. PICK p \in K : \A q \in K : f[q] <= f[p]
  <2>1. f \in [K -> Nat] /\ IsFiniteSet(K) /\ K # {}
    BY LinkFacts
  <2> HIDE DEF f, K
  <2> QED BY <2>1, GreatestExists
<1>2. h[p] \in V /\ \A e \in V : Len(e) <= Len(h[p])
  BY <1>1
<1> DEFINE g == Tree!Longest(V)
<1>3. g \in V /\ \A e \in V : Len(e) <= Len(g)
  BY <1>2 DEF Tree!Longest
<1> QED BY <1>3

\* g lists the rounds of find_critical_path.
Paths(g) ==
  /\ \A n \in 1 .. Tree!Calls :
       g[n] = [y \in Tree!Ids |->
                 IF Tree!LinkedChildren(y) = {} THEN <<y>>
                 ELSE <<y>> \o Tree!Longest({g[n - 1][z] : z \in Tree!LinkedChildren(y)})]
  /\ \A x : Tree!CriticalPath(x) = g[Tree!Calls][x]

LEMMA PathRounds ==
  ASSUME input \in Input
  PROVE  \E g : Paths(g)
<1> DEFINE N == Tree!Calls
           X == [Tree!Ids -> Seq(Ids)]
           step(h) == [y \in Tree!Ids |->
                         IF Tree!LinkedChildren(y) = {} THEN <<y>>
                         ELSE <<y>> \o Tree!Longest({h[z] : z \in Tree!LinkedChildren(y)})]
           F == [h \in X |-> step(h)]
           x0 == [y \in Tree!Ids |-> <<y>>]
           P(h) == h = [n \in 0 .. N |->
                          IF n = 0 THEN [y \in Tree!Ids |-> <<y>>]
                          ELSE [y \in Tree!Ids |->
                                  IF Tree!LinkedChildren(y) = {} THEN <<y>>
                                  ELSE <<y>> \o Tree!Longest({h[n - 1][z] : z \in Tree!LinkedChildren(y)})]]
<1>0. Tree!Ids = Ids /\ Ids \subseteq OrbId /\ \A y \in Ids : <<y>> \in Seq(Ids)
  BY TreeFacts
<1>1. N \in Nat /\ x0 \in X
  BY <1>0, TreeFacts, SameCardinality DEF Tree!Calls
<1>2. F \in [X -> X]
  <2>1. ASSUME NEW h \in X, NEW y \in Tree!Ids, Tree!LinkedChildren(y) # {}
        PROVE  <<y>> \o Tree!Longest({h[z] : z \in Tree!LinkedChildren(y)}) \in Seq(Ids)
    <3>1. \A z \in Tree!LinkedChildren(y) : h[z] \in Seq(Ids)
      BY <1>0, LinkFacts
    <3>2. \E z \in Tree!LinkedChildren(y) : Tree!Longest({h[c] : c \in Tree!LinkedChildren(y)}) = h[z]
      BY <1>0, <2>1, <3>1, LongestOf
    <3>3. Tree!Longest({h[z] : z \in Tree!LinkedChildren(y)}) \in Seq(Ids)
      BY <3>1, <3>2
    <3> QED BY <1>0, <3>3, Prefixed
  <2>2. \A h \in X : step(h) \in X
    BY <1>0, <2>1
  <2> HIDE DEF step, X
  <2> QED BY <2>2
<1>3. \E g : P(g)
  <2>1. PICK g : Iterated(g, X, F, x0, N)
    <3> HIDE DEF N, F, x0, X
    <3> QED BY <1>1, <1>2, Iterates
  <2>2. \A n \in 0 .. N : n # 0 => n \in 1 .. N /\ n - 1 \in 0 .. N
    BY <1>1
  <2>3. \A n \in 0 .. N : n # 0 => g[n] = step(g[n - 1])
    BY <2>1, <2>2 DEF Iterated
  <2>4. P(g)
    BY <2>1, <2>3 DEF Iterated
  <2> HIDE DEF P
  <2> QED BY <2>4
<1> DEFINE c == CHOOSE h : P(h)
<1>4. \A x : Tree!CriticalPath(x) = c[N][x]
  BY DEF Tree!CriticalPath
<1>5. P(c)
  <2> HIDE DEF P
  <2> QED BY <1>3
<1> HIDE DEF c
<1>6. \A n \in 1 .. N : n \in 0 .. N /\ n # 0
  BY <1>1
<1>7. Paths(c)
  BY <1>4, <1>5, <1>6 DEF Paths
<1> QED BY <1>7

\* p goes down along links from node j, as deep as any.
PathBelow(j, p) ==
  /\ p \in Seq(Ids) /\ Len(p) >= 1 /\ p[1] = nodes[j].orb
  /\ \A i \in 2 .. Len(p) : <<p[i - 1], p[i]>> \in Links
  /\ \A m \in DOMAIN nodes :
       Reaches(Links, nodes[j].orb, nodes[m].orb) => nodes[m].depth < nodes[j].depth + Len(p)

LEMMA PathIsRight ==
  ASSUME BuildInv, pc = "built", root \in Ids
  PROVE  PathBelow(1, Tree!CriticalPath(root))
<1>1. input \in Input /\ Tree!Ids = Ids /\ Ids \subseteq OrbId
  BY TreeFacts DEF BuildInv
<1>2. PICK g : Paths(g)
  BY <1>1, PathRounds
<1> DEFINE N == Tree!Calls
           Q == {p \in (0 .. N) \X DOMAIN nodes : PathBelow(p[2], g[p[1]][nodes[p[2]].orb])}
<1>3. ASSUME NEW n \in 1 .. N, NEW j \in DOMAIN nodes,
             \A m \in DOMAIN nodes : m > j => <<n - 1, m>> \in Q
      PROVE  <<n, j>> \in Q
  <2> DEFINE y == nodes[j].orb
             K == Tree!LinkedChildren(y)
             h == g[n - 1]
  <2>1. n \in 0 .. N
    BY NodesAreFew
  <2>2. g[n][y] = IF K = {} THEN <<y>> ELSE <<y>> \o Tree!Longest({h[z] : z \in K})
    BY <1>2, BelowNode DEF Paths
  <2>3. /\ y \in Ids /\ y \in OrbId /\ nodes[j].depth \in Nat
        /\ \A m \in DOMAIN nodes : nodes[m].depth \in Nat /\ nodes[m].orb \in OrbId
    BY <1>1, BelowNode
  <2>4. ASSUME NEW z \in K
        PROVE  \E m \in DOMAIN nodes :
                 /\ nodes[m].orb = z /\ nodes[m].depth = nodes[j].depth + 1
                 /\ PathBelow(m, h[z])
    <3>1. z \in Tree!Children(y)
      BY <1>1, <2>3, LinkFacts
    <3>2. PICK m \in DOMAIN nodes :
                 m > j /\ nodes[m].orb = z /\ nodes[m].depth = nodes[j].depth + 1
      BY <3>1, ChildNodes
    <3>3. PathBelow(m, h[z])
      <4>1. <<n - 1, m>> \in Q
        BY <1>3, <3>2
      <4> QED BY <3>2, <4>1
    <3> QED BY <3>2, <3>3
  <2>5. \A z \in K : h[z] \in Seq(Ids) /\ Len(h[z]) \in Nat /\ h[z][1] = z
    BY <2>4, LenProperties DEF PathBelow
  <2>6. CASE K = {}
    <3> DEFINE p == <<y>>
    <3>1. g[n][y] = p /\ p \in Seq(Ids) /\ Len(p) = 1 /\ p[1] = y
      BY <2>2, <2>3, <2>6
    <3>2. \A m \in DOMAIN nodes : Reaches(Links, y, nodes[m].orb) => m = j
      <4>1. \A m \in DOMAIN nodes : Reaches(Links, y, nodes[m].orb) => nodes[m].orb = y
        BY <1>1, <2>3, <2>6, LinkFacts
      <4> QED BY <4>1, BuiltTree
    <3> HIDE DEF p
    <3>3. PathBelow(j, p)
      BY <2>3, <3>1, <3>2 DEF PathBelow
    <3> QED BY <2>1, <3>1, <3>3
  <2>7. CASE K # {}
    <3>1. PICK z \in K : Tree!Longest({h[c] : c \in K}) = h[z] /\ \A c \in K : Len(h[c]) <= Len(h[z])
      <4> HIDE DEF h, y
      <4> QED BY <1>1, <2>3, <2>5, <2>7, LongestOf
    <3> DEFINE q == h[z]
               p == <<y>> \o q
    <3>2. g[n][y] = p /\ q \in Seq(Ids) /\ Len(q) \in Nat /\ q[1] = z
      BY <2>2, <2>5, <2>7, <3>1
    <3>3. /\ p \in Seq(Ids) /\ Len(p) = Len(q) + 1 /\ p[1] = y
          /\ \A i \in 2 .. Len(q) + 1 : p[i] = q[i - 1]
      <4> HIDE DEF q
      <4> QED BY <2>3, <3>2, Prefixed
    <3>4. Len(q) >= 1 /\ \A i \in 2 .. Len(q) : <<q[i - 1], q[i]>> \in Links
      BY <2>4 DEF PathBelow
    <3>5. <<y, z>> \in Links
      BY <1>1, <2>3, LinkFacts
    <3> HIDE DEF q, p
    <3>6. ASSUME NEW i \in 2 .. Len(p) PROVE <<p[i - 1], p[i]>> \in Links
      <4>1. CASE i = 2
        <5>1. p[2] = q[1] /\ p[2 - 1] = y
          <6>1. 2 \in 2 .. Len(q) + 1 /\ 2 - 1 = 1
            BY <3>2, <3>4
          <6> QED BY <3>3, <6>1
        <5> QED BY <3>2, <3>5, <4>1, <5>1
      <4>2. CASE i # 2
        <5>1. i - 1 \in 2 .. Len(q) /\ i - 1 \in 2 .. Len(q) + 1 /\ i \in 2 .. Len(q) + 1
          BY <3>2, <3>3, <4>2
        <5>2. p[i] = q[i - 1] /\ p[i - 1] = q[(i - 1) - 1]
          BY <3>3, <5>1
        <5> QED BY <3>4, <5>1, <5>2
      <4> QED BY <4>1, <4>2
    <3>7. ASSUME NEW m \in DOMAIN nodes, Reaches(Links, y, nodes[m].orb)
          PROVE  nodes[m].depth < nodes[j].depth + Len(p)
      <4>1. CASE nodes[m].orb = y
        <5>1. m = j
          BY <4>1, BuiltTree
        <5> QED BY <2>3, <3>2, <3>3, <5>1
      <4>2. CASE nodes[m].orb # y
        <5>1. PICK c \in K : Reaches(Links, c, nodes[m].orb)
          BY <1>1, <2>3, <3>7, <4>2, LinkFacts
        <5>2. nodes[m].depth < (nodes[j].depth + 1) + Len(h[c])
          BY <2>4, <5>1 DEF PathBelow
        <5>3. Len(h[c]) \in Nat /\ Len(h[c]) <= Len(q) /\ nodes[m].depth \in Nat
          BY <2>3, <2>5, <3>1 DEF q
        <5> QED BY <2>3, <3>2, <3>3, <5>2, <5>3
      <4> QED BY <4>1, <4>2
    <3>8. Len(p) >= 1
      BY <3>2, <3>3
    <3>9. PathBelow(j, p)
      BY <3>3, <3>6, <3>7, <3>8 DEF PathBelow
    <3> QED BY <2>1, <3>2, <3>9
  <2> QED BY <2>6, <2>7
<1>4. <<N, 1>> \in Q
  <2> HIDE DEF Q
  <2> QED BY <1>3, TreeInduction
<1>5. nodes[1].orb = root
  BY NodesAreFew
<1> QED BY <1>2, <1>4, <1>5 DEF Paths

LEMMA ChainIsLongest == ASSUME BuildInv PROVE Tree!LongestChain
<1> SUFFICES ASSUME pc = "built", root \in Ids
             PROVE  LET path == Tree!CriticalPath(root)
                    IN /\ path[1] = root
                       /\ \A i \in 2 .. Len(path) : <<path[i - 1], path[i]>> \in Links
                       /\ \A i \in DOMAIN nodes :
                            Reaches(Links, root, nodes[i].orb) => nodes[i].depth < Len(path)
  BY TreeFacts, SameGraph DEF BuildInv, Tree!LongestChain, Links
<1>1. PathBelow(1, Tree!CriticalPath(root)) /\ nodes[1].orb = root /\ nodes[1].depth = 0
  BY PathIsRight, NodesAreFew
<1>2. \A k \in Nat : 0 + k = k
  OBVIOUS
<1>3. Len(Tree!CriticalPath(root)) \in Nat
  BY <1>1, LenProperties DEF PathBelow
<1> QED BY <1>1, <1>2, <1>3 DEF PathBelow
-----------------------------------------------------------------------------
(* flatten.                                                                *)

\* g lists the rounds of flatten.
Flats(g) ==
  /\ g[0] = [S \in SUBSET Tree!Ids |-> <<>>]
  /\ \A n \in 1 .. Tree!Calls :
       g[n] = [S \in SUBSET Tree!Ids |->
                 IF S = {} THEN <<>>
                 ELSE <<Tree!First(S)>> \o g[n - 1][Tree!Children(Tree!First(S))]
                                        \o g[n - 1][S \ {Tree!First(S)}]]

LEMMA FirstFacts ==
  ASSUME NEW S \in SUBSET Tree!Ids, S # {}
  PROVE  /\ Tree!First(S) \in S /\ S \ {Tree!First(S)} \in SUBSET Tree!Ids
         /\ Tree!Children(Tree!First(S)) \in SUBSET Tree!Ids
BY DEF Tree!First, Tree!Children

LEMMA Joined ==
  ASSUME NEW S, NEW x \in S, NEW s \in Seq(S), NEW t \in Seq(S)
  PROVE  <<x>> \o s \o t \in Seq(S)
<1> DEFINE o == <<x>>
<1>1. o \in Seq(S)
  OBVIOUS
<1> HIDE DEF o
<1>2. o \o s \in Seq(S) /\ o \o s \o t \in Seq(S)
  BY <1>1, ConcatProperties
<1> QED BY <1>2 DEF o

LEMMA FlatRounds ==
  ASSUME input \in Input
  PROVE  \E g : Flats(g) /\ \A x : Tree!Flatten(x) = g[Tree!Calls][{x}]
<1> DEFINE N == Tree!Calls
           X == [SUBSET Tree!Ids -> Seq(Tree!Ids)]
           step(h) == [S \in SUBSET Tree!Ids |->
                         IF S = {} THEN <<>>
                         ELSE <<Tree!First(S)>> \o h[Tree!Children(Tree!First(S))]
                                                \o h[S \ {Tree!First(S)}]]
           F == [h \in X |-> step(h)]
           x0 == [S \in SUBSET Tree!Ids |-> <<>>]
           P(h) == h = [n \in 0 .. N |->
                          IF n = 0 THEN [S \in SUBSET Tree!Ids |-> <<>>]
                          ELSE [S \in SUBSET Tree!Ids |->
                                  IF S = {} THEN <<>>
                                  ELSE <<Tree!First(S)>>
                                         \o h[n - 1][Tree!Children(Tree!First(S))]
                                         \o h[n - 1][S \ {Tree!First(S)}]]]
<1>1. N \in Nat /\ x0 \in X
  BY TreeFacts, SameCardinality DEF Tree!Calls
<1>2. F \in [X -> X]
  <2>1. ASSUME NEW h \in X, NEW S \in SUBSET Tree!Ids, S # {}
        PROVE  <<Tree!First(S)>> \o h[Tree!Children(Tree!First(S))]
                                 \o h[S \ {Tree!First(S)}] \in Seq(Tree!Ids)
    <3>1. /\ Tree!First(S) \in Tree!Ids
          /\ h[Tree!Children(Tree!First(S))] \in Seq(Tree!Ids)
          /\ h[S \ {Tree!First(S)}] \in Seq(Tree!Ids)
      BY <2>1, FirstFacts
    <3> QED BY <3>1, Joined
  <2>2. \A h \in X : step(h) \in X
    BY <2>1
  <2> HIDE DEF step, X
  <2> QED BY <2>2
<1>3. \E g : P(g)
  <2>1. PICK g : Iterated(g, X, F, x0, N)
    <3> HIDE DEF N, F, x0, X
    <3> QED BY <1>1, <1>2, Iterates
  <2>2. \A n \in 0 .. N : n # 0 => n \in 1 .. N /\ n - 1 \in 0 .. N
    BY <1>1
  <2>3. \A n \in 0 .. N : n # 0 => g[n] = step(g[n - 1])
    BY <2>1, <2>2 DEF Iterated
  <2>4. P(g)
    BY <2>1, <2>3 DEF Iterated
  <2> HIDE DEF P
  <2> QED BY <2>4
<1> DEFINE c == CHOOSE h : P(h)
<1>4. \A x : Tree!Flatten(x) = c[N][{x}]
  BY DEF Tree!Flatten
<1>5. P(c)
  <2> HIDE DEF P
  <2> QED BY <1>3
<1> HIDE DEF c
<1>6. 0 \in 0 .. N /\ \A n \in 1 .. N : n \in 0 .. N /\ n # 0
  BY <1>1
<1>7. c[0] = x0
  BY <1>5, <1>6
<1>8. Flats(c)
  BY <1>5, <1>6, <1>7 DEF Flats
<1> QED BY <1>4, <1>8

LEMMA FlatTypes ==
  ASSUME input \in Input, NEW g, Flats(g), NEW n \in 0 .. Tree!Calls
  PROVE  g[n] \in [SUBSET Tree!Ids -> Seq(Tree!Ids)]
<1> DEFINE N == Tree!Calls
           X == [SUBSET Tree!Ids -> Seq(Tree!Ids)]
           C == {m \in Nat : m <= N => g[m] \in X}
<1>1. N \in Nat
  BY TreeFacts, SameCardinality DEF Tree!Calls
<1> HIDE DEF N
<1>2. 0 \in C
  <2>1. [S \in SUBSET Tree!Ids |-> <<>>] \in X
    OBVIOUS
  <2>2. g[0] \in X
    BY <2>1 DEF Flats
  <2> HIDE DEF X
  <2> QED BY <2>2
<1>3. ASSUME NEW m \in C PROVE m + 1 \in C
  <2> SUFFICES ASSUME m + 1 <= N PROVE g[m + 1] \in X
    OBVIOUS
  <2>1. m + 1 \in 1 .. N /\ (m + 1) - 1 = m /\ m <= N
    BY <1>1
  <2> DEFINE h == g[m]
  <2>2. h \in X
    BY <2>1
  <2>3. g[m + 1] = [S \in SUBSET Tree!Ids |->
                      IF S = {} THEN <<>>
                      ELSE <<Tree!First(S)>> \o h[Tree!Children(Tree!First(S))]
                                             \o h[S \ {Tree!First(S)}]]
    BY <2>1 DEF Flats, N
  <2> HIDE DEF h
  <2>4. ASSUME NEW S \in SUBSET Tree!Ids, S # {}
        PROVE  <<Tree!First(S)>> \o h[Tree!Children(Tree!First(S))]
                                 \o h[S \ {Tree!First(S)}] \in Seq(Tree!Ids)
    <3>1. /\ Tree!First(S) \in Tree!Ids
          /\ h[Tree!Children(Tree!First(S))] \in Seq(Tree!Ids)
          /\ h[S \ {Tree!First(S)}] \in Seq(Tree!Ids)
      BY <2>2, <2>4, FirstFacts
    <3> QED BY <3>1, Joined
  <2> DEFINE e(S) == IF S = {} THEN <<>>
                     ELSE <<Tree!First(S)>> \o h[Tree!Children(Tree!First(S))]
                                            \o h[S \ {Tree!First(S)}]
  <2>5. ASSUME NEW S \in SUBSET Tree!Ids PROVE e(S) \in Seq(Tree!Ids)
    <3>1. CASE S = {}
      BY <3>1
    <3>2. CASE S # {}
      BY <2>4, <3>2, Zenon
    <3> QED BY <3>1, <3>2
  <2>6. g[m + 1] = [S \in SUBSET Tree!Ids |-> e(S)]
    BY <2>3
  <2> HIDE DEF e
  <2> QED BY <2>5, <2>6
<1>4. C = Nat
  <2>1. C \in SUBSET Nat /\ \A m \in C : m + 1 \in C
    BY <1>3
  <2> HIDE DEF C
  <2> QED BY <1>2, <2>1, Induction
<1>5. n \in Nat /\ n <= N
  BY <1>1 DEF N
<1> QED BY <1>4, <1>5

\* The rounds are determined.
LEMMA FlatsUnique ==
  ASSUME input \in Input, NEW g, NEW h, Flats(g), Flats(h)
  PROVE  g[Tree!Calls] = h[Tree!Calls]
<1> DEFINE N == Tree!Calls
           C == {m \in Nat : m <= N => g[m] = h[m]}
<1>1. N \in Nat
  BY TreeFacts, SameCardinality DEF Tree!Calls
<1> HIDE DEF N
<1>2. 0 \in C
  BY DEF Flats
<1>3. ASSUME NEW m \in C PROVE m + 1 \in C
  <2> SUFFICES ASSUME m + 1 <= N PROVE g[m + 1] = h[m + 1]
    OBVIOUS
  <2>1. m + 1 \in 1 .. N /\ (m + 1) - 1 = m /\ m <= N
    BY <1>1
  <2> DEFINE step(f) == [S \in SUBSET Tree!Ids |->
                           IF S = {} THEN <<>>
                           ELSE <<Tree!First(S)>> \o f[Tree!Children(Tree!First(S))]
                                                  \o f[S \ {Tree!First(S)}]]
  <2>2. g[m] = h[m]
    BY <2>1
  <2>3. g[m + 1] = step(g[m]) /\ h[m + 1] = step(h[m])
    BY <2>1 DEF Flats, N
  <2> HIDE DEF step
  <2> QED BY <2>2, <2>3
<1>4. C = Nat
  <2>1. C \in SUBSET Nat /\ \A m \in C : m + 1 \in C
    BY <1>3
  <2> HIDE DEF C
  <2> QED BY <1>2, <2>1, Induction
<1>5. N \in Nat /\ N <= N
  BY <1>1
<1>6. g[N] = h[N]
  BY <1>4, <1>5
<1> QED BY <1>6 DEF N

\* Without a cycle of parents above it the root's tree has none.
LEMMA NoLoopBelow ==
  ASSUME input \in Input, root \in OrbId, ~ Looping,
         NEW x \in OrbId, Under(root, x), NEW c \in Tree!Children(x)
  PROVE  ~ Under(c, x)
<1> SUFFICES ASSUME Under(c, x) PROVE FALSE
  OBVIOUS
<1> DEFINE D == {y \in OrbId : ~ (Under(c, y) /\ Under(y, x))}
<1>0. c \in OrbId /\ c \in Ids /\ Parent(c) = x /\ \A y : Tree!Children(y) \subseteq OrbId
  BY TreeFacts
<1>1. root \in D
  <2> SUFFICES ASSUME Under(c, root), Under(root, x) PROVE Looping
    OBVIOUS
  <2>1. CASE x = root
    BY <2>1 DEF Looping
  <2>2. CASE x # root
    <3>1. PICK y \in Tree!Children(root) : Under(y, x)
      BY <2>2, UnderFirst
    <3>2. Under(y, c)
      BY <1>0, <3>1, UnderFacts
    <3>3. Under(y, root)
      BY <1>0, <3>1, <3>2, UnderFacts
    <3> QED BY <3>3 DEF Looping
  <2> QED BY <2>1, <2>2
<1>2. ASSUME NEW v \in OrbId, NEW w \in OrbId, <<v, w>> \in Tree!Down, v \in D PROVE w \in D
  <2> SUFFICES ASSUME Under(c, w), Under(w, x) PROVE FALSE
    OBVIOUS
  <2>1. w \in Tree!Children(v) /\ Parent(w) = v
    BY <1>2, TreeFacts
  <2>2. Under(v, x)
    <3>1. Under(v, w)
      BY <2>1, UnderFacts
    <3> QED BY <3>1, UnderFacts
  <2>3. Under(c, v)
    <3>1. CASE w = c
      BY <1>0, <2>1, <3>1
    <3>2. CASE w # c
      BY <1>0, <2>1, <3>2, UnderLast
    <3> QED BY <3>1, <3>2
  <2> QED BY <1>2, <2>2, <2>3
<1>3. Closed(Tree!Down, D) /\ D \in SUBSET OrbId
  BY <1>2 DEF Closed
<1>4. x \in D
  BY <1>1, <1>3 DEF Under, Reaches
<1> QED BY <1>4, UnderFacts

\* The orbs whose trees flatten puts one after the other.
Siblings(S) == S = {root} \/ \E p \in OrbId : Under(root, p) /\ S \subseteq Tree!Children(p)

Below(S) == {z \in Ids : \E s \in S : Under(s, z)}

LEMMA SiblingFacts ==
  ASSUME input \in Input, root \in Ids, ~ Looping, NEW S, Siblings(S), NEW x \in S
  PROVE  /\ S \in SUBSET Tree!Ids /\ x \in Ids
         /\ Siblings(Tree!Children(x)) /\ Siblings(S \ {x})
         /\ x \in Below(S)
         /\ Below(Tree!Children(x)) \subseteq Below(S) \ {x}
         /\ Below(S \ {x}) \subseteq Below(S) \ {x}
<1>0. Tree!Ids = Ids /\ Ids \subseteq OrbId /\ \A y : Tree!Children(y) \subseteq Ids
  BY TreeFacts
<1>1. /\ S \in SUBSET Ids /\ x \in Ids /\ x \in OrbId /\ root \in OrbId
  BY <1>0 DEF Siblings
<1>2. Under(root, x)
  <2>1. CASE S = {root}
    BY <1>1, <2>1, UnderFacts
  <2>2. CASE \E p \in OrbId : Under(root, p) /\ S \subseteq Tree!Children(p)
    BY <1>1, <2>2, UnderFacts
  <2> QED BY <2>1, <2>2 DEF Siblings
<1>3. Siblings(Tree!Children(x))
  BY <1>1, <1>2 DEF Siblings
<1>4. Siblings(S \ {x})
  <2>1. CASE S = {root}
    <3>1. S \ {x} = {}
      BY <2>1
    <3> QED BY <1>1, <3>1, UnderFacts DEF Siblings
  <2>2. CASE \E p \in OrbId : Under(root, p) /\ S \subseteq Tree!Children(p)
    BY <2>2 DEF Siblings
  <2> QED BY <2>1, <2>2 DEF Siblings
<1>5. x \in Below(S)
  BY <1>1, UnderFacts DEF Below
<1>6. Below(Tree!Children(x)) \subseteq Below(S) \ {x}
  <2> SUFFICES ASSUME NEW c \in Tree!Children(x), NEW z \in Ids, Under(c, z)
               PROVE  Under(x, z) /\ z # x
    BY <1>1 DEF Below
  <2>1. c \in OrbId /\ z \in OrbId
    BY <1>0
  <2>2. Under(x, c)
    BY <1>1, UnderFacts
  <2>3. Under(x, z)
    BY <1>1, <2>1, <2>2, UnderFacts
  <2> QED BY <1>1, <1>2, <2>3, NoLoopBelow
<1>7. Below(S \ {x}) \subseteq Below(S) \ {x}
  <2> SUFFICES ASSUME NEW s \in S, s # x, Under(s, x) PROVE FALSE
    BY DEF Below
  <2>1. PICK p \in OrbId : Under(root, p) /\ S \subseteq Tree!Children(p)
    BY DEF Siblings
  <2>2. s \in OrbId /\ Parent(x) = p
    BY <1>0, <2>1, TreeFacts
  <2>3. Under(s, p)
    BY <1>1, <2>2, UnderLast
  <2> QED BY <1>1, <2>1, <2>3, NoLoopBelow
<1> QED BY <1>0, <1>1, <1>3, <1>4, <1>5, <1>6, <1>7

\* flatten has come to its end when there are as many rounds as orbs.
LEMMA FlatEnds ==
  ASSUME input \in Input, root \in Ids, ~ Looping, NEW g, Flats(g),
         NEW S, Siblings(S), S # {}
  PROVE  LET x == Tree!First(S)
             G == g[Tree!Calls]
         IN G[S] = <<x>> \o G[Tree!Children(x)] \o G[S \ {x}]
<1> DEFINE N == Tree!Calls
           C == {n \in Nat : n + 1 <= N =>
                   \A T : Siblings(T) /\ Cardinality(Below(T)) <= n => g[n][T] = g[n + 1][T]}
<1>1. /\ N \in Nat /\ N = Cardinality(Ids) /\ IsFiniteSet(Ids)
      /\ \A T : Below(T) \subseteq Ids
      /\ Tree!Ids = Ids
  BY TreeFacts, SameCardinality DEF Tree!Calls, Below
<1>2. \A T : IsFiniteSet(Below(T)) /\ Cardinality(Below(T)) \in Nat /\ Cardinality(Below(T)) <= N
  BY <1>1, FS_Subset, FS_CardinalityType
<1>3. \A n \in 1 .. N : \A T \in SUBSET Tree!Ids :
        g[n][T] = IF T = {} THEN <<>>
                  ELSE <<Tree!First(T)>> \o g[n - 1][Tree!Children(Tree!First(T))]
                                         \o g[n - 1][T \ {Tree!First(T)}]
  BY DEF Flats
<1>4. g[0][{}] = <<>>
  BY DEF Flats
<1>5. ASSUME NEW T, Siblings(T), T # {}
      PROVE  LET x == Tree!First(T) IN
             /\ T \in SUBSET Tree!Ids
             /\ Siblings(Tree!Children(x)) /\ Siblings(T \ {x})
             /\ Cardinality(Below(Tree!Children(x))) <= Cardinality(Below(T)) - 1
             /\ Cardinality(Below(T \ {x})) <= Cardinality(Below(T)) - 1
             /\ Cardinality(Below(T)) >= 1
  <2> DEFINE x == Tree!First(T)
  <2>1. x \in T
    BY <1>5 DEF Tree!First
  <2> HIDE DEF x
  <2>2. /\ T \in SUBSET Tree!Ids
        /\ Siblings(Tree!Children(x)) /\ Siblings(T \ {x})
        /\ x \in Below(T)
        /\ Below(Tree!Children(x)) \subseteq Below(T) \ {x}
        /\ Below(T \ {x}) \subseteq Below(T) \ {x}
    BY <1>5, <2>1, SiblingFacts
  <2>3. /\ IsFiniteSet(Below(T) \ {x})
        /\ Cardinality(Below(T) \ {x}) = Cardinality(Below(T)) - 1
        /\ Cardinality(Below(T) \ {x}) \in Nat
    BY <1>2, <2>2, FS_RemoveElement, FS_CardinalityType
  <2>4. /\ Cardinality(Below(Tree!Children(x))) <= Cardinality(Below(T)) - 1
        /\ Cardinality(Below(T \ {x})) <= Cardinality(Below(T)) - 1
    <3> DEFINE D == Below(T) \ {x}
    <3>1. IsFiniteSet(D) /\ Cardinality(D) = Cardinality(Below(T)) - 1
      BY <2>3
    <3>2. Below(Tree!Children(x)) \in SUBSET D /\ Below(T \ {x}) \in SUBSET D
      BY <2>2
    <3> HIDE DEF D
    <3>3. \A U \in SUBSET D : Cardinality(U) <= Cardinality(D)
      BY <3>1, FS_Subset
    <3> QED BY <3>1, <3>2, <3>3
  <2>5. Cardinality(Below(T)) >= 1
    BY <1>2, <2>3
  <2> QED BY <2>2, <2>4, <2>5 DEF x
<1> HIDE DEF N
<1>6. 0 \in C
  <2> SUFFICES ASSUME 1 <= N, NEW T, Siblings(T), Cardinality(Below(T)) <= 0
               PROVE  g[0][T] = g[1][T]
    OBVIOUS
  <2>1. T = {}
    <3>1. T # {} => Cardinality(Below(T)) >= 1
      BY <1>5
    <3> QED BY <1>2, <3>1
  <2>2. 1 \in 1 .. N /\ {} \in SUBSET Tree!Ids
    BY <1>1
  <2> QED BY <1>3, <1>4, <2>1, <2>2
<1>7. ASSUME NEW n \in C PROVE n + 1 \in C
  <2> SUFFICES ASSUME (n + 1) + 1 <= N, NEW T, Siblings(T), Cardinality(Below(T)) <= n + 1
               PROVE  g[n + 1][T] = g[(n + 1) + 1][T]
    OBVIOUS
  <2>1. /\ n + 1 <= N /\ n + 1 \in 1 .. N /\ (n + 1) - 1 = n
        /\ (n + 1) + 1 \in 1 .. N /\ ((n + 1) + 1) - 1 = n + 1 /\ n \in Nat
    BY <1>1
  <2>2. CASE T = {}
    <3>1. {} \in SUBSET Tree!Ids
      OBVIOUS
    <3>2. g[n + 1][{}] = <<>> /\ g[(n + 1) + 1][{}] = <<>>
      BY <1>3, <2>1, <3>1
    <3> QED BY <2>2, <3>2
  <2>3. CASE T # {}
    <3> DEFINE x == Tree!First(T)
    <3>1. /\ T \in SUBSET Tree!Ids
          /\ Siblings(Tree!Children(x)) /\ Siblings(T \ {x})
          /\ Cardinality(Below(Tree!Children(x))) <= Cardinality(Below(T)) - 1
          /\ Cardinality(Below(T \ {x})) <= Cardinality(Below(T)) - 1
      BY <1>5, <2>3
    <3>2. /\ g[n + 1][T] = <<x>> \o g[n][Tree!Children(x)] \o g[n][T \ {x}]
          /\ g[(n + 1) + 1][T] = <<x>> \o g[n + 1][Tree!Children(x)] \o g[n + 1][T \ {x}]
      BY <1>3, <2>1, <2>3, <3>1
    <3> HIDE DEF x
    <3>3. Cardinality(Below(Tree!Children(x))) <= n /\ Cardinality(Below(T \ {x})) <= n
      BY <1>2, <2>1, <3>1
    <3>4. /\ g[n][Tree!Children(x)] = g[n + 1][Tree!Children(x)]
          /\ g[n][T \ {x}] = g[n + 1][T \ {x}]
      BY <2>1, <3>1, <3>3
    <3> QED BY <3>2, <3>4
  <2> QED BY <2>2, <2>3
<1>8. C = Nat
  <2>1. C \in SUBSET Nat /\ \A n \in C : n + 1 \in C
    BY <1>7
  <2> HIDE DEF C
  <2> QED BY <1>6, <2>1, Induction
<1> DEFINE x == Tree!First(S)
<1>9. /\ S \in SUBSET Tree!Ids
      /\ Siblings(Tree!Children(x)) /\ Siblings(S \ {x})
      /\ Cardinality(Below(Tree!Children(x))) <= Cardinality(Below(S)) - 1
      /\ Cardinality(Below(S \ {x})) <= Cardinality(Below(S)) - 1
      /\ Cardinality(Below(S)) >= 1
  BY <1>5
<1>10. /\ N - 1 \in Nat /\ (N - 1) + 1 = N /\ N \in 1 .. N
  BY <1>1, <1>2, <1>9
<1>11. g[N][S] = <<x>> \o g[N - 1][Tree!Children(x)] \o g[N - 1][S \ {x}]
  BY <1>3, <1>9, <1>10
<1> HIDE DEF x
<1>12. \A T : Siblings(T) /\ Cardinality(Below(T)) <= N - 1 => g[N - 1][T] = g[N][T]
  <2>1. N - 1 \in C
    BY <1>8, <1>10
  <2>2. (N - 1) + 1 <= N => \A T : Siblings(T) /\ Cardinality(Below(T)) <= N - 1
                                     => g[N - 1][T] = g[(N - 1) + 1][T]
    BY <2>1
  <2> QED BY <1>1, <1>10, <2>2
<1>13. /\ Cardinality(Below(Tree!Children(x))) <= N - 1
       /\ Cardinality(Below(S \ {x})) <= N - 1
  BY <1>1, <1>2, <1>9
<1> QED BY <1>9, <1>11, <1>12, <1>13 DEF N, x

\* What flatten will list: the nodes so far, and then the trees of the orbs still to
\* be built, those of the last call first.
Orbs(s) == [j \in DOMAIN s |-> s[j].orb]

Rest(g, r) ==
  /\ DOMAIN r = 0 .. Len(stack)
  /\ \A i \in 0 .. Len(stack) : r[i] \in Seq(Tree!Ids)
  /\ r[0] = <<>>
  /\ \A i \in 1 .. Len(stack) : r[i] = g[Tree!Calls][stack[i].todo] \o r[i - 1]
  /\ g[Tree!Calls][{root}] = Orbs(nodes) \o r[Len(stack)]

Preorder ==
  root \in Ids /\ ~ Looping => \E g, r : Flats(g) /\ Rest(g, r)

LEMMA OrbsOfAppend ==
  ASSUME NEW S, NEW s \in Seq([orb : S, depth : Nat]), NEW n \in [orb : S, depth : Nat]
  PROVE  Orbs(s) \in Seq(S) /\ Orbs(Append(s, n)) = Orbs(s) \o <<n.orb>>
<1> DEFINE E == [orb : S, depth : Nat]
           t == Append(s, n)
           o == Orbs(s)
           x == n.orb
<1>1. /\ Len(s) \in Nat /\ DOMAIN s = 1 .. Len(s) /\ \A j \in 1 .. Len(s) : s[j] \in E
  BY LenProperties, ElementOfSeq
<1>2. /\ t \in Seq(E) /\ Len(t) = Len(s) + 1
      /\ \A j \in 1 .. Len(s) : t[j] = s[j]
      /\ t[Len(s) + 1] = n
  BY AppendProperties
<1>3. DOMAIN t = 1 .. Len(s) + 1
  BY <1>2, LenProperties
<1>4. x \in S /\ \A j \in 1 .. Len(s) : s[j].orb \in S
  BY <1>1
<1> HIDE DEF t, x
<1>5. o \in Seq(S) /\ Len(o) = Len(s) /\ DOMAIN o = 1 .. Len(s) /\ \A j \in 1 .. Len(s) : o[j] = s[j].orb
  <2>1. o = [j \in 1 .. Len(s) |-> s[j].orb]
    BY <1>1 DEF Orbs
  <2> HIDE DEF o
  <2> QED BY <1>1, <1>4, <2>1
<1> HIDE DEF o
<1>6. /\ Append(o, x) \in Seq(S) /\ Len(Append(o, x)) = Len(s) + 1
      /\ \A j \in 1 .. Len(s) : Append(o, x)[j] = o[j]
      /\ Append(o, x)[Len(s) + 1] = x
  BY <1>4, <1>5, AppendProperties
<1>7. Orbs(t) = Append(o, x)
  <2> DEFINE a == Append(o, x)
  <2>1. DOMAIN a = 1 .. Len(s) + 1 /\ a = [j \in DOMAIN a |-> a[j]]
    BY <1>6, LenProperties
  <2>2. \A j \in 1 .. Len(s) + 1 : j \in 1 .. Len(s) \/ j = Len(s) + 1
    BY <1>1
  <2> HIDE DEF a
  <2>3. \A j \in 1 .. Len(s) + 1 : t[j].orb = a[j]
    BY <1>2, <1>5, <1>6, <2>2 DEF a, x
  <2> QED BY <1>3, <2>1, <2>3 DEF Orbs, a
<1>8. Append(o, x) = o \o <<x>>
  BY <1>4, <1>5, AppendIsConcat
<1> QED BY <1>5, <1>7, <1>8 DEF o, t, x

\* The rounds of flatten do not depend on how far the tree is built.
LEMMA FlatsStay ==
  ASSUME UNCHANGED input, NEW g, Flats(g)
  PROVE  Flats(g)' /\ Tree!Calls' = Tree!Calls /\ Tree!Ids' = Tree!Ids
<1>1. Tree!Ids' = Tree!Ids
  BY DEF Tree!Ids
<1>2. Tree!Calls' = Tree!Calls
  BY <1>1 DEF Tree!Calls
<1>3. \A x : Tree!Children(x)' = Tree!Children(x)
  BY <1>1 DEF Tree!Children
<1>4. \A x : Tree!First(x)' = Tree!First(x)
  BY DEF Tree!First
<1> QED BY <1>1, <1>2, <1>3, <1>4 DEF Flats

LEMMA InitPreorder ==
  ASSUME input \in Input, Tree!Init
  PROVE  Preorder
<1> SUFFICES ASSUME root \in Ids, ~ Looping PROVE \E g, r : Flats(g) /\ Rest(g, r)
  BY DEF Preorder
<1>0. Tree!Ids = Ids /\ Ids \subseteq OrbId /\ root \in OrbId /\ Tree!Calls \in Nat
  BY TreeFacts, SameCardinality DEF Tree!Calls
<1>1. /\ Len(stack) = 1 /\ stack[1].todo = Tree!Children(root) /\ Orbs(nodes) = <<root>>
  <2> DEFINE n == [orb |-> root, depth |-> 0]
             s == [orb |-> root, todo |-> Tree!Children(root)]
  <2>1. stack = <<s>> /\ nodes = <<n>>
    BY <1>0 DEF Tree!Init, Tree!Call
  <2>2. n.orb = root /\ s.todo = Tree!Children(root)
    OBVIOUS
  <2> HIDE DEF n, s
  <2>3. Len(stack) = 1 /\ stack[1] = s /\ DOMAIN nodes = 1 .. 1 /\ nodes[1] = n
    BY <2>1
  <2>4. Orbs(nodes) = [j \in 1 .. 1 |-> root]
    BY <2>2, <2>3 DEF Orbs
  <2>5. [j \in 1 .. 1 |-> root] = <<root>>
    OBVIOUS
  <2> QED BY <2>2, <2>3, <2>4, <2>5
<1>2. PICK g : Flats(g)
  BY FlatRounds
<1> DEFINE G == g[Tree!Calls]
           k == Tree!Children(root)
           w == G[k]
           r == [i \in 0 .. 1 |-> IF i = 0 THEN <<>> ELSE w]
<1>3. G \in [SUBSET Tree!Ids -> Seq(Tree!Ids)] /\ k \in SUBSET Tree!Ids
  <2>1. Tree!Calls \in 0 .. Tree!Calls
    BY <1>0
  <2> QED BY <1>2, <2>1, FlatTypes DEF Tree!Children
<1>4. w \in Seq(Tree!Ids)
  BY <1>3
<1>5. G[{root}] = <<root>> \o w \o G[{root} \ {root}] /\ G[{}] = <<>>
  <2>1. Siblings({root}) /\ {root} # {} /\ Tree!First({root}) = root
    BY DEF Siblings, Tree!First
  <2>2. G[{}] = <<>>
    <3>1. CASE Tree!Calls = 0
      BY <1>2, <3>1 DEF Flats
    <3>2. CASE Tree!Calls # 0
      <4>1. Tree!Calls \in 1 .. Tree!Calls /\ {} \in SUBSET Tree!Ids
        BY <1>0, <3>2
      <4> QED BY <1>2, <4>1 DEF Flats
    <3> QED BY <3>1, <3>2
  <2> QED BY <1>2, <2>1, <2>2, FlatEnds
<1>6. G[{root}] = <<root>> \o w
  <2>1. {root} \ {root} = {} /\ <<root>> \o w \in Seq(Tree!Ids)
    BY <1>0, <1>4, Prefixed
  <2> DEFINE t == <<root>> \o w
  <2>2. t \o <<>> = t
    <3> HIDE DEF t
    <3> QED BY <2>1, ConcatEmptySeq DEF t
  <2> QED BY <1>5, <2>1, <2>2
<1>7. w \o <<>> = w
  BY <1>4, ConcatEmptySeq
<1> HIDE DEF G, w, k
<1>8. Rest(g, r)
  BY <1>1, <1>4, <1>6, <1>7 DEF Rest, G, w, k
<1> QED BY <1>2, <1>8

LEMMA ReturnPreorder == ASSUME BuildInv, Preorder, Tree!Return PROVE Preorder'
<1>1. /\ Len(stack) >= 1 /\ Len(stack) \in Nat /\ Len(stack') = Len(stack) - 1
      /\ \A i \in 1 .. Len(stack) - 1 : stack'[i] = stack[i]
      /\ stack[Len(stack)].todo = {}
      /\ UNCHANGED <<input, root, nodes>>
  BY ReturnFacts
<1>2. Ids' = Ids /\ Looping' = Looping /\ Orbs(nodes)' = Orbs(nodes)
  BY <1>1 DEF Ids, Looping, Tree!Children, Tree!Ids, Under, Tree!Down, Orbs
<1> SUFFICES ASSUME root \in Ids, ~ Looping PROVE \E g, r : Flats(g)' /\ Rest(g, r)'
  BY <1>1, <1>2 DEF Preorder
<1>3. PICK g, r : Flats(g) /\ Rest(g, r)
  BY DEF Preorder
<1>4. Flats(g)' /\ Tree!Calls' = Tree!Calls /\ Tree!Ids' = Tree!Ids
  BY <1>1, <1>3, FlatsStay
<1> DEFINE L == Len(stack)
           G == g[Tree!Calls]
           q == [i \in 0 .. L - 1 |-> r[i]]
<1>5. G[{}] = <<>>
  <2>1. Tree!Calls \in Nat
    BY TreeFacts, SameCardinality DEF Tree!Calls, BuildInv
  <2>2. CASE Tree!Calls = 0
    BY <1>3, <2>2 DEF Flats
  <2>3. CASE Tree!Calls # 0
    <3>1. Tree!Calls \in 1 .. Tree!Calls /\ {} \in SUBSET Tree!Ids
      BY <2>1, <2>3
    <3> QED BY <1>3, <3>1 DEF Flats
  <2> QED BY <2>2, <2>3
<1> HIDE DEF L
<1>6. /\ \A i \in 0 .. L - 1 : i \in 0 .. L
      /\ \A i \in 1 .. L - 1 : i \in 1 .. L /\ i \in 0 .. L - 1 /\ i - 1 \in 0 .. L - 1
      /\ 0 \in 0 .. L - 1 /\ L \in 1 .. L /\ L - 1 \in 0 .. L - 1 /\ L - 1 \in 0 .. L
  BY <1>1 DEF L
<1>7. r[L] = r[L - 1] /\ r[L - 1] \in Seq(Tree!Ids)
  <2>1. r[L] = <<>> \o r[L - 1] /\ r[L - 1] \in Seq(Tree!Ids)
    BY <1>1, <1>3, <1>5, <1>6 DEF Rest, L
  <2> QED BY <2>1, ConcatEmptySeq
<1>8. /\ DOMAIN q = 0 .. L - 1 /\ \A i \in 0 .. L - 1 : q[i] \in Seq(Tree!Ids)
      /\ q[0] = <<>>
  BY <1>3, <1>6 DEF Rest, L
<1>9. \A i \in 1 .. L - 1 : q[i] = G[stack'[i].todo] \o q[i - 1]
  BY <1>1, <1>3, <1>6 DEF Rest, L
<1>10. G[{root}] = Orbs(nodes) \o q[L - 1]
  BY <1>3, <1>6, <1>7 DEF Rest, L
<1> HIDE DEF q
<1>. PICK p : p = q
  OBVIOUS
<1>11. Rest(g, p)'
  <2>1. Len(stack') = L - 1
    BY <1>1 DEF L
  <2>2. G' = G
    BY <1>4
  <2>3. /\ DOMAIN p = 0 .. Len(stack') /\ p[0] = <<>>
        /\ \A i \in 0 .. Len(stack') : p[i] \in Seq(Tree!Ids')
        /\ \A i \in 1 .. Len(stack') : p[i] = G'[stack'[i].todo] \o p[i - 1]
        /\ G'[{root'}] = Orbs(nodes)' \o p[Len(stack')]
    <3> HIDE DEF G
    <3> QED BY <1>1, <1>2, <1>4, <1>8, <1>9, <1>10, <2>1, <2>2
  <2> QED BY <2>3 DEF Rest
<1> QED BY <1>4, <1>11

LEMMA CallPreorder ==
  ASSUME BuildInv, Preorder, NEW x, CallMade(x)
  PROVE  Preorder'
<1> DEFINE L == Len(stack)
           T == stack[L].todo
<1>1. /\ UNCHANGED <<input, root>> /\ x \in Tree!Ids /\ x \in T /\ x = Tree!First(T)
      /\ L \in Nat /\ L >= 1 /\ Len(stack') = L + 1 /\ DOMAIN stack = 1 .. L
      /\ \A i \in 1 .. L - 1 : stack'[i] = stack[i]
      /\ stack'[L].todo = T \ {x} /\ stack'[L + 1].todo = Tree!Children(x)
      /\ nodes' = Append(nodes, [orb |-> x, depth |-> L])
  BY DEF CallMade
<1>2. Ids' = Ids /\ Looping' = Looping
  BY <1>1 DEF Ids, Looping, Tree!Children, Tree!Ids, Under, Tree!Down
<1> SUFFICES ASSUME root \in Ids, ~ Looping PROVE \E g, r : Flats(g)' /\ Rest(g, r)'
  BY <1>1, <1>2 DEF Preorder
<1>3. PICK g, r : Flats(g) /\ Rest(g, r)
  BY DEF Preorder
<1>4. Flats(g)' /\ Tree!Calls' = Tree!Calls /\ Tree!Ids' = Tree!Ids
  BY <1>1, <1>3, FlatsStay
<1>5. input \in Input /\ Tree!Ids = Ids /\ Ids \subseteq OrbId /\ Tree!Calls \in Nat
  BY TreeFacts, SameCardinality DEF Tree!Calls, BuildInv
<1>6. Siblings(T)
  <2>1. L \in 1 .. L
    BY <1>1
  <2>2. T \subseteq Tree!Children(stack[L].orb)
    BY <1>1, <2>1 DEF BuildInv, CallsFit
  <2>3. PICK j \in DOMAIN nodes : nodes[j] = [orb |-> stack[L].orb, depth |-> L - 1]
    BY <1>1, <2>1 DEF BuildInv, CallsFit
  <2>4. Under(root, nodes[j].orb) /\ nodes[j].orb = stack[L].orb
    BY <2>3 DEF BuildInv, NodesFit, NodeFits
  <2>5. stack[L].orb \in OrbId
    BY <1>1, <1>5, <2>1, TreeTypes DEF BuildInv
  <2> QED BY <2>2, <2>4, <2>5 DEF Siblings
<1> DEFINE G == g[Tree!Calls]
           a == G[Tree!Children(x)]
           b == G[T \ {x}]
<1>7. G[T] = <<x>> \o a \o b
  <2>1. T # {}
    BY <1>1
  <2> HIDE DEF T
  <2> QED BY <1>1, <1>3, <1>5, <1>6, <2>1, FlatEnds
<1>8. a \in Seq(Tree!Ids) /\ b \in Seq(Tree!Ids)
  <2>1. Tree!Calls \in 0 .. Tree!Calls
    BY <1>5
  <2>2. G \in [SUBSET Tree!Ids -> Seq(Tree!Ids)]
    BY <1>3, <1>5, <2>1, FlatTypes
  <2>3. Tree!Children(x) \in SUBSET Tree!Ids /\ T \ {x} \in SUBSET Tree!Ids
    <3> HIDE DEF T
    <3> QED BY <1>1, <1>5, <1>6, SiblingFacts DEF Tree!Children
  <2> QED BY <2>2, <2>3
<1> DEFINE u == r[L - 1]
           v == b \o u
           z == a \o v
           q == [i \in 0 .. L + 1 |-> IF i = L THEN v ELSE IF i = L + 1 THEN z ELSE r[i]]
           o == Orbs(nodes)
<1> HIDE DEF L, T, G, a, b
<1>9. /\ L - 1 \in 0 .. L /\ L \in 1 .. L /\ L # L + 1 /\ 0 # L /\ 0 # L + 1
      /\ 0 \in 0 .. L + 1 /\ L \in 0 .. L + 1 /\ L + 1 \in 0 .. L + 1 /\ (L + 1) - 1 = L
      /\ L - 1 \in 0 .. L + 1 /\ L - 1 # L /\ L - 1 # L + 1
  BY <1>1
<1>10. u \in Seq(Tree!Ids) /\ r[L] = G[T] \o u /\ r[0] = <<>> /\ G[{root}] = o \o r[L]
       /\ \A i \in 0 .. L : r[i] \in Seq(Tree!Ids)
  BY <1>1, <1>3, <1>9 DEF Rest, L, T, G
<1> HIDE DEF u
<1>11. v \in Seq(Tree!Ids)
  BY <1>8, <1>10, ConcatProperties
<1>12. z \in Seq(Tree!Ids)
  <2> HIDE DEF v
  <2> QED BY <1>8, <1>11, ConcatProperties
<1>13. r[L] = <<x>> \o z
  <2> DEFINE w == <<x>>
             p == w \o a
  <2>0. \A s, t \in Seq(Tree!Ids) : (s \o t) \o u = s \o (t \o u)
    <3>1. u \in Seq(Tree!Ids)
      BY <1>10
    <3> QED BY <3>1, ConcatAssociative
  <2>1. w \in Seq(Tree!Ids)
    BY <1>1
  <2> HIDE DEF w
  <2>2. p \in Seq(Tree!Ids)
    BY <1>8, <2>1, ConcatProperties
  <2> HIDE DEF p
  <2>3. (p \o b) \o u = p \o (b \o u)
    BY <1>8, <2>0, <2>2, Zenon
  <2> HIDE DEF v
  <2>4. (w \o a) \o v = w \o (a \o v)
    BY <1>8, <1>11, <2>1, ConcatAssociative
  <2>5. G[T] = p \o b
    BY <1>7 DEF p, w
  <2>6. r[L] = p \o v
    BY <1>10, <2>3, <2>5 DEF v
  <2> QED BY <2>4, <2>6 DEF p, w
<1> HIDE DEF v, z
<1>14. /\ DOMAIN q = 0 .. L + 1 /\ q[0] = <<>>
       /\ q[L] = v /\ q[L + 1] = z /\ q[L - 1] = u
       /\ \A i \in 0 .. L - 1 : q[i] = r[i]
  <2>1. \A i \in 0 .. L - 1 : i \in 0 .. L + 1 /\ i # L /\ i # L + 1
    BY <1>1
  <2> QED BY <1>9, <1>10, <2>1 DEF u
<1> HIDE DEF q
<1>15. \A i \in 0 .. L + 1 : q[i] \in Seq(Tree!Ids)
  <2>1. \A i \in 0 .. L + 1 : i \in 0 .. L - 1 \/ i = L \/ i = L + 1
    BY <1>1
  <2>2. \A i \in 0 .. L - 1 : i \in 0 .. L
    BY <1>1
  <2> QED BY <1>10, <1>11, <1>12, <1>14, <2>1, <2>2
<1>16. \A i \in 1 .. L + 1 : q[i] = G[stack'[i].todo] \o q[i - 1]
  <2> SUFFICES ASSUME NEW i \in 1 .. L + 1 PROVE q[i] = G[stack'[i].todo] \o q[i - 1]
    OBVIOUS
  <2>1. CASE i \in 1 .. L - 1
    <3>1. i \in 0 .. L - 1 /\ i - 1 \in 0 .. L - 1 /\ i \in 1 .. L
      BY <1>1, <2>1
    <3>2. r[i] = G[stack[i].todo] \o r[i - 1]
      BY <1>3, <3>1 DEF Rest, L, G
    <3> QED BY <1>1, <1>14, <2>1, <3>1, <3>2
  <2>2. CASE i = L
    BY <1>1, <1>14, <2>2 DEF v, b
  <2>3. CASE i = L + 1
    BY <1>1, <1>9, <1>14, <2>3 DEF z, a
  <2>4. i \in 1 .. L - 1 \/ i = L \/ i = L + 1
    BY <1>1
  <2> QED BY <2>1, <2>2, <2>3, <2>4
<1>17. Orbs(nodes)' = o \o <<x>> /\ o \in Seq(Tree!Ids)
  <2> DEFINE n == [orb |-> x, depth |-> L]
  <2>1. nodes \in Seq([orb : Tree!Ids, depth : Nat]) /\ n \in [orb : Tree!Ids, depth : Nat] /\ n.orb = x
    BY <1>1 DEF BuildInv, Tree!TypeOK
  <2>2. Orbs(nodes)' = Orbs(Append(nodes, n))
    BY <1>1 DEF Orbs
  <2> HIDE DEF n
  <2> QED BY <2>1, <2>2, OrbsOfAppend
<1>18. G[{root}] = Orbs(nodes)' \o q[L + 1]
  <2> DEFINE s == <<x>>
  <2>1. s \in Seq(Tree!Ids)
    BY <1>1
  <2> HIDE DEF s, o
  <2>2. (o \o s) \o z = o \o (s \o z)
    BY <1>12, <1>17, <2>1, ConcatAssociative
  <2> QED BY <1>10, <1>13, <1>14, <1>17, <2>2 DEF s
<1>. PICK p : p = q
  OBVIOUS
<1>19. Rest(g, p)'
  <2>1. G' = G
    BY <1>4 DEF G
  <2>2. /\ DOMAIN p = 0 .. Len(stack') /\ p[0] = <<>>
        /\ \A i \in 0 .. Len(stack') : p[i] \in Seq(Tree!Ids')
        /\ \A i \in 1 .. Len(stack') : p[i] = G'[stack'[i].todo] \o p[i - 1]
        /\ G'[{root'}] = Orbs(nodes)' \o p[Len(stack')]
    BY <1>1, <1>4, <1>14, <1>15, <1>16, <1>18, <2>1
  <2> QED BY <2>2 DEF Rest, G
<1> QED BY <1>4, <1>19

LEMMA OverflowPreorder == ASSUME BuildInv, Preorder, Tree!Overflow PROVE Preorder'
<1>1. UNCHANGED <<input, root, stack, nodes>>
  BY DEF Tree!Overflow
<1>2. Ids' = Ids /\ Looping' = Looping /\ Orbs(nodes)' = Orbs(nodes)
  BY <1>1 DEF Ids, Looping, Tree!Children, Tree!Ids, Under, Tree!Down, Orbs
<1> SUFFICES ASSUME root \in Ids, ~ Looping PROVE \E g, r : Flats(g)' /\ Rest(g, r)'
  BY <1>1, <1>2 DEF Preorder
<1>3. PICK g, r : Flats(g) /\ Rest(g, r)
  BY DEF Preorder
<1>4. Flats(g)' /\ Tree!Calls' = Tree!Calls /\ Tree!Ids' = Tree!Ids
  BY <1>1, <1>3, FlatsStay
<1>5. Rest(g, r)'
  BY <1>1, <1>2, <1>3, <1>4 DEF Rest
<1> QED BY <1>4, <1>5

LEMMA NextPreorder == ASSUME BuildInv, Preorder, Tree!Next PROVE Preorder'
BY DescendFacts, CallPreorder, ReturnPreorder, OverflowPreorder DEF Tree!Next

\* On a finished tree flatten lists the nodes in the order in which they were made.
LEMMA FlattenIsRight ==
  ASSUME BuildInv, Preorder, pc = "built", root \in Ids
  PROVE  Tree!Flatten(root) = Orbs(nodes)
<1>1. ~ Looping /\ stack = <<>> /\ Len(stack) = 0 /\ input \in Input
  BY BuiltTree DEF BuildInv, Ends
<1>2. PICK g, r : Flats(g) /\ Rest(g, r)
  BY <1>1 DEF Preorder
<1>3. PICK h : Flats(h) /\ \A x : Tree!Flatten(x) = h[Tree!Calls][{x}]
  BY <1>1, FlatRounds
<1>4. g[Tree!Calls] = h[Tree!Calls]
  BY <1>1, <1>2, <1>3, FlatsUnique
<1>5. g[Tree!Calls][{root}] = Orbs(nodes) \o <<>>
  BY <1>1, <1>2 DEF Rest
<1>6. Orbs(nodes) \in Seq(Tree!Ids)
  <2>1. nodes \in Seq([orb : Tree!Ids, depth : Nat])
    BY DEF BuildInv, Tree!TypeOK
  <2>2. \A j \in DOMAIN nodes : nodes[j].orb \in Tree!Ids
    BY TreeTypes DEF BuildInv
  <2>3. Len(nodes) \in Nat /\ DOMAIN nodes = 1 .. Len(nodes)
    BY TreeTypes DEF BuildInv
  <2> DEFINE n == Len(nodes)
             f == [j \in 1 .. n |-> nodes[j].orb]
  <2>4. f \in Seq(Tree!Ids)
    <3>1. n \in Nat /\ \A j \in 1 .. n : nodes[j].orb \in Tree!Ids
      BY <2>2, <2>3
    <3> HIDE DEF n
    <3> QED BY <3>1
  <2> QED BY <2>3, <2>4 DEF Orbs
<1>7. Orbs(nodes) \o <<>> = Orbs(nodes)
  BY <1>6, ConcatEmptySeq
<1> QED BY <1>3, <1>4, <1>5, <1>7
-----------------------------------------------------------------------------
LEMMA TimelineIsRight ==
  ASSUME BuildInv, Preorder, pc = "built", root \in Ids
  PROVE  /\ Tree!Timeline.edges = {e \in input.edges : e.from \in Seen \/ e.to \in Seen}
         /\ Tree!Timeline.totalOrbs = Len(nodes)
         /\ Tree!Timeline.maxDepth = Tree!DepthOf(root)
<1> DEFINE o == Orbs(nodes)
<1>1. Tree!Flatten(root) = o
  BY FlattenIsRight
<1>2. Len(nodes) \in Nat /\ DOMAIN nodes = 1 .. Len(nodes)
  BY TreeTypes DEF BuildInv
<1>3. DOMAIN o = 1 .. Len(nodes) /\ \A j \in DOMAIN o : o[j] = nodes[j].orb
  BY <1>2 DEF Orbs
<1>4. {o[j] : j \in DOMAIN o} = Seen
  BY <1>2, <1>3 DEF Seen
<1>5. Len(o) = Len(nodes)
  <2> DEFINE n == Len(nodes)
  <2>1. n \in Nat /\ o = [j \in 1 .. n |-> nodes[j].orb]
    BY <1>2 DEF Orbs
  <2> HIDE DEF n
  <2>2. Len(o) = n
    BY <2>1
  <2> QED BY <2>2 DEF n
<1> HIDE DEF o
<1>6. Tree!Timeline = [edges |-> {e \in input.edges : e.from \in Seen \/ e.to \in Seen},
                       totalOrbs |-> Len(nodes),
                       maxDepth |-> Tree!DepthOf(root)]
  BY <1>1, <1>4, <1>5, Zenon DEF Tree!Timeline
<1> QED BY <1>6

LEMMA ReadersRight == ASSUME BuildInv, Preorder PROVE Tree!ReadersAgree
<1> SUFFICES ASSUME pc = "built", root \in Tree!Ids
             PROVE  /\ Tree!Flatten(root) = Orbs(nodes)
                    /\ Tree!LeavesOf(root) = Seen \ {input.parent[x] : x \in Tree!Ids}
                    /\ Tree!Timeline.edges = {e \in input.edges : {e.from, e.to} \cap Seen # {}}
                    /\ Tree!Timeline.totalOrbs = Cardinality(Seen)
                    /\ \A i \in DOMAIN nodes : nodes[i].depth <= Tree!Timeline.maxDepth
                    /\ \E i \in DOMAIN nodes : nodes[i].depth = Tree!Timeline.maxDepth
  BY SameCardinality, Zenon DEF Tree!ReadersAgree, Seen, Orbs
<1>1. input \in Input /\ Tree!Ids = Ids /\ Ids \subseteq OrbId /\ root \in Ids
  BY TreeFacts DEF BuildInv
<1>2. Tree!LeavesOf(root) = Seen \ {input.parent[x] : x \in Tree!Ids}
  <2>1. \A z \in Ids : Tree!Children(z) = {} <=> z \notin {input.parent[x] : x \in Ids}
    BY <1>1, TreeFacts DEF Parent
  <2> QED BY <1>1, <2>1, LeavesAreRight, BuiltTree DEF LeavesBelow
<1>3. \A e : e.from \in Seen \/ e.to \in Seen <=> {e.from, e.to} \cap Seen # {}
  OBVIOUS
<1>4. DepthBelow(1, Tree!Timeline.maxDepth) /\ nodes[1].orb = root /\ nodes[1].depth = 0
  BY <1>1, DepthIsRight, TimelineIsRight, NodesAreFew
<1>5. \A j \in DOMAIN nodes : Under(root, nodes[j].orb)
  BY DEF BuildInv, NodesFit, NodeFits
<1>6. /\ \A i \in DOMAIN nodes : nodes[i].depth <= Tree!Timeline.maxDepth
      /\ \E i \in DOMAIN nodes : nodes[i].depth = Tree!Timeline.maxDepth
  <2>1. \A d \in Nat : 0 + d = d
    OBVIOUS
  <2> QED BY <1>4, <1>5, <2>1 DEF DepthBelow
<1>7. Tree!Timeline.edges = {e \in input.edges : {e.from, e.to} \cap Seen # {}}
  BY <1>1, <1>3, TimelineIsRight
<1>8. Tree!Timeline.totalOrbs = Cardinality(Seen)
  BY <1>1, TimelineIsRight, NodesAreFew
<1> QED BY <1>1, <1>2, <1>6, <1>7, <1>8, FlattenIsRight

-----------------------------------------------------------------------------
(* The commands.                                                           *)

\* A pipeline command has no tree, a tree command does none of pipeline's work.
CommandInv ==
  \/ NotATree /\ IInv /\ UrgencyInv /\ LevelInv
  \/ root \in OrbId /\ NotAQuery /\ BuildInv /\ Preorder

LEMMA InitCommand == ASSUME CommandInit PROVE CommandInv
<1>1. CASE Init /\ NotATree
  <2>1. LevelInv
    BY <1>1 DEF Init, LevelInv
  <2> QED BY <1>1, <2>1, InitIInv, InitUrgency DEF CommandInv
<1>2. CASE input \in Input /\ Tree!Init /\ NotAQuery
  <2>1. root \in OrbId
    BY <1>2 DEF Tree!Init
  <2> QED BY <1>2, <2>1, InitBuild, InitPreorder DEF CommandInv
<1> QED BY <1>1, <1>2 DEF CommandInit

\* Nothing of a tree changes when none of its variables does.
LEMMA TreeStutters ==
  ASSUME UNCHANGED <<input, pc, root, stack, nodes>>, BuildInv, Preorder
  PROVE  BuildInv' /\ Preorder'
<1>1. Ids' = Ids /\ Looping' = Looping /\ Orbs(nodes)' = Orbs(nodes) /\ Seen' = Seen
  BY DEF Ids, Looping, Tree!Children, Tree!Ids, Under, Tree!Down, Orbs, Seen
<1>2. Preorder'
  <2> SUFFICES ASSUME root \in Ids, ~ Looping PROVE \E g, r : Flats(g)' /\ Rest(g, r)'
    BY <1>1 DEF Preorder
  <2>1. PICK g, r : Flats(g) /\ Rest(g, r)
    BY DEF Preorder
  <2>2. Flats(g)' /\ Tree!Calls' = Tree!Calls /\ Tree!Ids' = Tree!Ids
    BY <2>1, FlatsStay
  <2>3. Rest(g, r)'
    BY <1>1, <2>1, <2>2 DEF Rest
  <2> QED BY <2>2, <2>3
<1>3. Tree!TypeOK' /\ Ends' /\ NoneTwice'
  BY <1>1 DEF BuildInv, Tree!TypeOK, Tree!Ids, Tree!Top, Ends, NoneTwice
<1>4. /\ \A x : Tree!Children(x)' = Tree!Children(x) /\ Parent(x)' = Parent(x)
      /\ \A x, y : Under(x, y)' = Under(x, y)
      /\ \A x : OnLoop(x)' = OnLoop(x)
  BY DEF Tree!Children, Tree!Ids, Parent, Under, Tree!Down, OnLoop
<1>5. CallsFit' /\ NothingForgotten' /\ LoopGoesOn'
  BY <1>1, <1>4 DEF BuildInv, CallsFit, NothingForgotten, LoopGoesOn
<1>6. NodesFit'
  BY <1>4 DEF BuildInv, NodesFit, NodeFits
<1> QED BY <1>2, <1>3, <1>5, <1>6 DEF BuildInv

LEMMA NextCommand == ASSUME CommandInv, [CommandNext]_commandVars PROVE CommandInv'
<1>1. CASE NotATree /\ IInv /\ UrgencyInv /\ LevelInv
  <2>1. root = NoParent /\ stack = <<>> /\ NoParent \notin OrbId
    BY <1>1, ParentAssumption DEF NotATree
  <2>2. ~ Tree!Next
    <3> SUFFICES ASSUME Tree!Next PROVE FALSE
      OBVIOUS
    <3>1. pc = "build"
      BY DEF Tree!Next, Tree!Descend, Tree!Return, Tree!Overflow
    <3> QED BY <1>1, <3>1 DEF IInv, TypeOK
  <2>3. [Next]_vars /\ UNCHANGED treeVars
    BY <2>2 DEF CommandNext, commandVars, queryVars, vars, treeVars
  <2>4. NotATree'
    BY <1>1, <2>3 DEF NotATree, treeVars
  <2> QED BY <1>1, <2>3, <2>4, NextIInv, NextUrgency, NextLevels DEF CommandInv
<1>2. CASE root \in OrbId /\ NotAQuery /\ BuildInv /\ Preorder
  <2>1. ~ Next
    BY <1>2 DEF BuildInv, Tree!TypeOK, Next, Propagate, Start, Take, Finish
  <2>2. UNCHANGED queryVars /\ (Tree!Next \/ UNCHANGED <<input, pc, root, stack, nodes>>)
    BY <2>1 DEF CommandNext, commandVars, treeVars
  <2>3. UNCHANGED <<input, root>>
    BY <2>2 DEF Tree!Next, Tree!Descend, Tree!Return, Tree!Overflow
  <2>4. NotAQuery'
    BY <1>2, <2>2, <2>3 DEF NotAQuery, queryVars, Ids
  <2> QED BY <1>2, <2>2, <2>3, <2>4, NextBuild, NextPreorder, TreeStutters DEF CommandInv
<1> QED BY <1>1, <1>2 DEF CommandInv

LEMMA CommandInvariant == CommandSpec => []CommandInv
BY InitCommand, NextCommand, PTL DEF CommandSpec

\* Whatever was read, and whichever of the two commands runs, its variables keep to
\* their types.
THEOREM CommandTypeCorrect == CommandSpec => []CommandTypeOK
<1>1. CommandInv => CommandTypeOK
  <2>1. ASSUME root \in OrbId PROVE ~ NotATree
    BY <2>1, ParentAssumption DEF NotATree
  <2> QED BY <2>1 DEF CommandInv, CommandTypeOK, IInv, BuildInv
<1> QED BY <1>1, CommandInvariant, PTL

\* A command reads the orbs and the edges at two moments, between which others may
\* write. Whatever it has read, ready and waiting find work to do, and pipeline's
\* order and priorities are right for it.
THEOREM PipelineCorrect ==
  CommandSpec => [](SomeReady /\ PipelineOrder /\ UrgencyPasses /\ LevelsInOrder)
<1>1. ASSUME CommandInv PROVE SomeReady /\ PipelineOrder /\ UrgencyPasses /\ LevelsInOrder
  <2>1. SomeReady
    BY <1>1, ReadyRight DEF CommandInv, IInv, BuildInv
  <2>2. CASE IInv /\ UrgencyInv /\ LevelInv
    BY <2>1, <2>2, UrgencyRight, LevelsRight DEF IInv
  <2>3. CASE BuildInv
    BY <2>1, <2>3 DEF BuildInv, Tree!TypeOK, PipelineOrder, UrgencyPasses, LevelsInOrder
  <2> QED BY <1>1, <2>2, <2>3 DEF CommandInv
<1> QED BY <1>1, CommandInvariant, PTL

\* For all parents, edges and roots: build_orb_tree makes a node for the root and each
\* of its descendants, once, a level below its parent; flatten, leaves, depth,
\* find_critical_path and the timeline say of that tree what is so; and it is under a
\* cycle of parents only that the calls do not end.
THEOREM TreeCorrect == CommandSpec => []TreeIsRight
<1>1. CommandInv => TreeIsRight
  <2>1. CASE NotATree /\ IInv
    <3>1. pc # "built" /\ pc # "overflow"
      BY <2>1 DEF IInv, TypeOK
    <3> QED BY <3>1
            DEF TreeIsRight, Tree!EachDescendantOnce, Tree!ReadersAgree,
                Tree!LongestChain, Tree!OverflowOnlyOnCycle
  <2>2. CASE BuildInv /\ Preorder
    BY <2>2, DescendantsOnce, ReadersRight, ChainIsLongest, OverflowIsCycle DEF TreeIsRight
  <2> QED BY <2>1, <2>2 DEF CommandInv
<1> QED BY <1>1, CommandInvariant, PTL
=============================================================================
