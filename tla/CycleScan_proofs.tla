-------------------------- MODULE CycleScan_proofs ---------------------------
(***************************************************************************)
(* The cycle check is right on every graph: proofs about CycleScan for any *)
(* set of orbs, finite or not.  Termination needs a finite graph and is    *)
(* left to TLC.                                                            *)
(***************************************************************************)
EXTENDS CycleScan, SequenceTheorems, TLAPS

Occurs(q, x) == \E i \in 1 .. Len(q) : q[i] = x

\* What is left to look at: the queue, and the orb being expanded until all
\* its successors have been looked at.
Frontier ==
  /\ dst \in visited
  /\ \A x \in visited : Reaches(arcs, dst, x)
  /\ pc \in {"pop", "expand", "ok"} =>
       /\ src \in visited => Occurs(queue, src)
       /\ \A x, y \in OrbId :
            /\ x \in visited
            /\ <<x, y>> \in arcs
            /\ ~ Occurs(queue, x)
            => y \in visited \/ (pc = "expand" /\ x = current /\ y \in todo)
  /\ pc = "expand" => /\ current \in visited
                      /\ current # src
                      /\ todo \subseteq Successors(current)
  /\ pc \in {"trace", "cycle"} => src \in visited
  /\ pc = "ok" => queue = <<>>
  /\ \A x : Occurs(queue, x) => x \in visited

\* Every orb found but the first has the orb it was found from as its parent,
\* which is never the tail: the tail is not expanded.
ParentTree ==
  \A x \in OrbId :
    /\ parent[x] = NoOrb <=> (x \notin visited \/ x = dst)
    /\ parent[x] # src
    /\ parent[x] # NoOrb => /\ parent[x] \in visited
                            /\ <<parent[x], x>> \in arcs

\* The walk so far is a path of arcs, from an orb the search found to the tail.
Walk ==
  pc = "trace" =>
    /\ Len(path) >= 1
    /\ path[1] \in visited
    /\ path[Len(path)] = src
    /\ current = src
    /\ Len(path) > 1 => path[1] # src
    /\ \A i \in 1 .. Len(path) - 1 : <<path[i], path[i + 1]>> \in arcs

IInv == TypeOK /\ Frontier /\ ParentTree /\ Walk /\ ReportIsCycle

-----------------------------------------------------------------------------
(* Reachability and sequences.                                             *)

\* An orb reaches itself.
LEMMA ReachesSelf ==
  ASSUME NEW A, NEW x \in OrbId
  PROVE  Reaches(A, x, x)
  BY DEF Reaches

\* Reaching goes along arcs.
LEMMA ReachesStep ==
  ASSUME NEW A, NEW x \in OrbId, NEW y \in OrbId, NEW z \in OrbId,
         Reaches(A, x, y), <<y, z>> \in A
  PROVE  Reaches(A, x, z)
  BY DEF Reaches, Closed

\* What taking the head off a queue leaves in it.
LEMMA OccursTail ==
  ASSUME NEW q \in Seq(OrbId), q # <<>>
  PROVE  /\ Head(q) \in OrbId
         /\ Tail(q) \in Seq(OrbId)
         /\ Occurs(q, Head(q))
         /\ \A x : Occurs(q, x) <=> x = Head(q) \/ Occurs(Tail(q), x)
<1>1. /\ Head(q) = q[1]
      /\ Len(q) \in Nat \ {0}
      /\ Len(Tail(q)) = Len(q) - 1
      /\ \A i \in 1 .. Len(q) - 1 : Tail(q)[i] = q[i + 1]
      /\ Tail(q) \in Seq(OrbId)
      /\ Head(q) \in OrbId
  BY HeadTailProperties, EmptySeq
<1>2. ASSUME NEW x PROVE Occurs(q, x) <=> x = Head(q) \/ Occurs(Tail(q), x)
  <2>1. ASSUME NEW i \in 1 .. Len(q), q[i] = x
        PROVE  x = Head(q) \/ Occurs(Tail(q), x)
    <3>1. CASE i = 1
      BY <1>1, <2>1, <3>1
    <3>2. CASE i # 1
      <4>1. i - 1 \in 1 .. Len(Tail(q)) /\ Tail(q)[i - 1] = x
        BY <1>1, <2>1, <3>2
      <4> QED BY <4>1 DEF Occurs
    <3> QED BY <3>1, <3>2
  <2>2. x = Head(q) => Occurs(q, x)
    BY <1>1 DEF Occurs
  <2>3. ASSUME NEW i \in 1 .. Len(Tail(q)), Tail(q)[i] = x
        PROVE  Occurs(q, x)
    <3>1. i + 1 \in 1 .. Len(q) /\ q[i + 1] = x
      BY <1>1, <2>3
    <3> QED BY <3>1 DEF Occurs
  <2> QED BY <2>1, <2>2, <2>3 DEF Occurs
<1>3. Occurs(q, Head(q))
  BY <1>1 DEF Occurs
<1> QED BY <1>1, <1>2, <1>3

\* What appending leaves in a queue.
LEMMA OccursAppend ==
  ASSUME NEW q \in Seq(OrbId), NEW y \in OrbId
  PROVE  /\ Append(q, y) \in Seq(OrbId)
         /\ \A x : Occurs(Append(q, y), x) <=> x = y \/ Occurs(q, x)
<1>1. /\ Append(q, y) \in Seq(OrbId)
      /\ Len(Append(q, y)) = Len(q) + 1
      /\ \A i \in 1 .. Len(q) : Append(q, y)[i] = q[i]
      /\ Append(q, y)[Len(q) + 1] = y
      /\ Len(q) \in Nat
  BY AppendProperties, LenProperties
<1>2. ASSUME NEW x PROVE Occurs(Append(q, y), x) <=> x = y \/ Occurs(q, x)
  <2>1. ASSUME NEW i \in 1 .. Len(Append(q, y)), Append(q, y)[i] = x
        PROVE  x = y \/ Occurs(q, x)
    <3>1. i = Len(q) + 1 \/ i \in 1 .. Len(q)
      BY <1>1
    <3> QED BY <1>1, <2>1, <3>1 DEF Occurs
  <2>2. ASSUME NEW i \in 1 .. Len(q), q[i] = x
        PROVE  Occurs(Append(q, y), x)
    <3>1. i \in 1 .. Len(Append(q, y)) /\ Append(q, y)[i] = x
      BY <1>1, <2>2
    <3> QED BY <3>1 DEF Occurs
  <2>3. x = y => Occurs(Append(q, y), x)
    <3>1. Len(q) + 1 \in 1 .. Len(Append(q, y))
      BY <1>1
    <3> QED BY <1>1, <3>1 DEF Occurs
  <2> QED BY <2>1, <2>2, <2>3 DEF Occurs
<1> QED BY <1>1, <1>2

\* What an orb put before a path makes of it.
LEMMA Prepend ==
  ASSUME NEW q \in Seq(OrbId), NEW x \in OrbId
  PROVE  /\ <<x>> \o q \in Seq(OrbId)
         /\ Len(<<x>> \o q) = Len(q) + 1
         /\ (<<x>> \o q)[1] = x
         /\ \A i \in 1 .. Len(q) : (<<x>> \o q)[i + 1] = q[i]
<1>1. <<x>> \in Seq(OrbId) /\ Len(<<x>>) = 1 /\ <<x>>[1] = x
  OBVIOUS
<1>2. Len(q) \in Nat
  BY LenProperties
<1>3. /\ <<x>> \o q \in Seq(OrbId)
      /\ Len(<<x>> \o q) = Len(<<x>>) + Len(q)
      /\ \A i \in 1 .. Len(<<x>>) + Len(q) :
           (<<x>> \o q)[i] = IF i <= Len(<<x>>) THEN <<x>>[i]
                             ELSE q[i - Len(<<x>>)]
  BY <1>1, ConcatProperties
<1> QED BY <1>1, <1>2, <1>3

-----------------------------------------------------------------------------
(* Type correctness.                                                       *)

\* The initial states are well typed.
LEMMA InitType == Init => TypeOK
  BY DEF Init, TypeOK

\* Every step of the search keeps the types; a walk always has a first orb.
LEMMA NextType == TypeOK /\ Walk /\ [Next]_vars => TypeOK'
<1> SUFFICES ASSUME TypeOK, Walk, [Next]_vars PROVE TypeOK'
  OBVIOUS
<1> USE DEF TypeOK, input
<1>1. CASE Exhausted
  BY <1>1 DEF Exhausted
<1>2. CASE Pop
  <2>1. Head(queue) \in OrbId /\ Tail(queue) \in Seq(OrbId)
    BY <1>2, OccursTail DEF Pop
  <2> QED BY <1>2, <2>1 DEF Pop, Successors
<1>3. CASE Found
  <2>1. Tail(queue) \in Seq(OrbId) /\ <<src>> \in Seq(OrbId)
    BY <1>3, OccursTail DEF Found
  <2> QED BY <1>3, <2>1 DEF Found
<1>4. ASSUME NEW y \in OrbId, Look(y) PROVE TypeOK'
  <2>1. Append(queue, y) \in Seq(OrbId)
    BY OccursAppend
  <2>2. [parent EXCEPT ![y] = current] \in [OrbId -> OrbId \cup {NoOrb}]
    OBVIOUS
  <2> QED BY <1>4, <2>1, <2>2 DEF Look
<1>5. CASE Expanded
  BY <1>5 DEF Expanded
<1>6. CASE Trace
  <2>1. path # <<>>
    BY <1>6 DEF Trace, Walk
  <2>2. parent[Head(path)] \in OrbId
    BY <1>6, <2>1, OccursTail DEF Trace
  <2> QED BY <1>6, <2>2, Prepend DEF Trace
<1>7. CASE Report
  BY <1>7, Prepend DEF Report
<1>8. CASE UNCHANGED vars
  BY <1>8 DEF vars
<1> QED BY <1>1, <1>2, <1>3, <1>4, <1>5, <1>6, <1>7, <1>8 DEF Next

-----------------------------------------------------------------------------
(* The inductive invariant.                                                *)

\* The initial states satisfy the invariant.
LEMMA InitIInv == Init => IInv
<1> SUFFICES ASSUME Init PROVE IInv
  OBVIOUS
<1>1. TypeOK
  BY InitType
<1>2. \A x : Occurs(queue, x) <=> x = dst
  <2>1. queue = <<dst>> /\ Len(queue) = 1 /\ queue[1] = dst /\ 1 .. 1 = {1}
    BY DEF Init
  <2> QED BY <2>1 DEF Occurs
<1>3. Frontier
  <2>1. Reaches(arcs, dst, dst)
    BY <1>1, ReachesSelf DEF TypeOK
  <2> QED BY <1>2, <2>1 DEF Init, Frontier
<1>4. ParentTree
  BY NoOrbAssumption DEF Init, ParentTree
<1>5. Walk /\ ReportIsCycle
  BY DEF Init, Walk, ReportIsCycle
<1> QED BY <1>1, <1>3, <1>4, <1>5 DEF IInv

\* Taking an orb off the queue: it becomes the one exception to "everything
\* expanded has its successors visited", all of whose successors are to do.
LEMMA PopKeeps ==
  ASSUME IInv, Pop
  PROVE  Frontier' /\ ParentTree' /\ Walk' /\ ReportIsCycle'
<1> USE DEF IInv
<1>1. /\ \A x : Occurs(queue, x) <=> x = Head(queue) \/ Occurs(queue', x)
      /\ Head(queue) \in OrbId
      /\ Occurs(queue, Head(queue))
  BY OccursTail DEF Pop, TypeOK
<1>2. /\ current' = Head(queue) /\ current' # src
      /\ todo' = Successors(current')
      /\ pc = "pop" /\ pc' = "expand"
      /\ UNCHANGED <<arcs, src, dst, visited, parent, path>>
  BY DEF Pop, input
<1>3. Head(queue) \in visited
  BY <1>1 DEF Frontier
<1>4. \A x, y \in OrbId :
        x \in visited /\ <<x, y>> \in arcs /\ ~ Occurs(queue', x)
          => y \in visited \/ (x = current' /\ y \in todo')
  <2> SUFFICES ASSUME NEW x \in OrbId, NEW y \in OrbId, x \in visited,
                      <<x, y>> \in arcs, ~ Occurs(queue', x)
               PROVE  y \in visited \/ (x = current' /\ y \in todo')
    OBVIOUS
  <2>1. CASE x = Head(queue)
    BY <1>2, <2>1 DEF Successors, AllArcs
  <2>2. CASE x # Head(queue)
    BY <1>1, <1>2, <2>2 DEF Frontier
  <2> QED BY <2>1, <2>2
<1>5. src \in visited => Occurs(queue', src)
  BY <1>1, <1>2 DEF Frontier
<1>6. todo' \subseteq Successors(current)'
  BY <1>2 DEF Successors, AllArcs
<1>7. Frontier'
  BY <1>1, <1>2, <1>3, <1>4, <1>5, <1>6 DEF Frontier
<1>8. ParentTree'
  BY <1>2 DEF ParentTree
<1>9. Walk' /\ ReportIsCycle'
  BY <1>2 DEF Walk, ReportIsCycle
<1> QED BY <1>7, <1>8, <1>9

\* Looking at a successor: a new one is reached through the orb being
\* expanded, over an arc that was there before the new one.
LEMMA LookKeeps ==
  ASSUME IInv, NEW y \in OrbId, Look(y)
  PROVE  Frontier' /\ ParentTree' /\ Walk' /\ ReportIsCycle'
<1> USE DEF IInv
<1>1. /\ pc = "expand" /\ pc' = "expand"
      /\ y \in todo /\ todo' = todo \ {y}
      /\ visited' = visited \cup {y}
      /\ UNCHANGED <<arcs, src, dst, current, path>>
  BY DEF Look, input
<1>2. /\ current \in visited /\ current # src /\ current \in OrbId
      /\ <<current, y>> \in AllArcs
  BY <1>1 DEF Frontier, Successors, TypeOK
<1>3. <<current, y>> \in arcs
  BY <1>2 DEF AllArcs
<1>4. Reaches(arcs, dst, y)
  BY <1>2, <1>3, ReachesStep DEF Frontier, TypeOK
<1>5. /\ \A x : Occurs(queue, x) => Occurs(queue', x)
      /\ \A x : Occurs(queue', x) => x = y \/ Occurs(queue, x)
      /\ y \notin visited => Occurs(queue', y)
  <2>1. CASE y \in visited
    BY <2>1 DEF Look
  <2>2. CASE y \notin visited
    <3>1. queue' = Append(queue, y)
      BY <2>2 DEF Look
    <3>2. queue \in Seq(OrbId)
      BY DEF TypeOK
    <3> QED BY <3>1, <3>2, OccursAppend
  <2> QED BY <2>1, <2>2
<1>6. todo' \subseteq Successors(current)'
  BY <1>1 DEF Frontier, Successors, AllArcs
<1>7. \A x, z \in OrbId :
        x \in visited' /\ <<x, z>> \in arcs /\ ~ Occurs(queue', x)
          => z \in visited' \/ (x = current /\ z \in todo')
  <2> SUFFICES ASSUME NEW x \in OrbId, NEW z \in OrbId, x \in visited',
                      <<x, z>> \in arcs, ~ Occurs(queue', x)
               PROVE  z \in visited' \/ (x = current /\ z \in todo')
    OBVIOUS
  <2>1. x \in visited
    BY <1>1, <1>5
  <2>2. z \in visited \/ (x = current /\ z \in todo)
    BY <1>1, <1>5, <2>1 DEF Frontier
  <2> QED BY <1>1, <2>2
<1>8. Frontier'
  BY <1>1, <1>2, <1>4, <1>5, <1>6, <1>7 DEF Frontier
<1>9. ParentTree'
  <2>1. CASE y \in visited
    <3>1. parent' = parent /\ visited' = visited
      BY <1>1, <2>1 DEF Look
    <3> QED BY <1>1, <3>1 DEF ParentTree
  <2>2. CASE y \notin visited
    <3>1. parent' = [parent EXCEPT ![y] = current]
      BY <2>2 DEF Look
    <3>2. parent'[y] = current /\ current # NoOrb /\ y # dst
      BY <1>2, <2>2, <3>1, NoOrbAssumption DEF TypeOK, Frontier
    <3>3. \A x \in OrbId : x # y => parent'[x] = parent[x]
      BY <3>1 DEF TypeOK
    <3>4. ASSUME NEW x \in OrbId
          PROVE  /\ parent'[x] = NoOrb <=> (x \notin visited' \/ x = dst)
                 /\ parent'[x] # src
                 /\ parent'[x] # NoOrb => /\ parent'[x] \in visited'
                                          /\ <<parent'[x], x>> \in arcs
      <4>1. CASE x = y
        BY <1>1, <1>2, <1>3, <3>2, <4>1
      <4>2. CASE x # y
        BY <1>1, <3>3, <4>2 DEF ParentTree
      <4> QED BY <4>1, <4>2
    <3> QED BY <1>1, <3>4 DEF ParentTree
  <2> QED BY <2>1, <2>2
<1>10. Walk' /\ ReportIsCycle'
  BY <1>1 DEF Walk, ReportIsCycle
<1> QED BY <1>8, <1>9, <1>10

\* Finding the tail begins a walk of one orb.
LEMMA FoundKeeps ==
  ASSUME IInv, Found
  PROVE  Frontier' /\ ParentTree' /\ Walk' /\ ReportIsCycle'
<1> USE DEF IInv
<1>1. /\ \A x : Occurs(queue, x) <=> x = Head(queue) \/ Occurs(queue', x)
      /\ Occurs(queue, Head(queue))
  BY OccursTail DEF Found, TypeOK
<1>2. /\ Head(queue) = src
      /\ pc = "pop" /\ pc' = "trace"
      /\ UNCHANGED <<arcs, src, dst, visited, parent, todo>>
      /\ current' = src /\ path' = <<src>>
  BY DEF Found, input
<1>3. src \in visited
  BY <1>1, <1>2 DEF Frontier
<1>4. Len(path') = 1 /\ path'[1] = src /\ 1 .. Len(path') - 1 = {}
  BY <1>2
<1>5. Walk'
  BY <1>2, <1>3, <1>4 DEF Walk
<1>6. ParentTree' /\ ReportIsCycle'
  BY <1>2 DEF ParentTree, ReportIsCycle
<1>7. Frontier'
  BY <1>1, <1>2, <1>3 DEF Frontier
<1> QED BY <1>5, <1>6, <1>7

\* One step back: the parent of an orb on the walk precedes it, and is never
\* the tail.
LEMMA TraceKeeps ==
  ASSUME IInv, Trace
  PROVE  Frontier' /\ ParentTree' /\ Walk' /\ ReportIsCycle'
<1> USE DEF IInv
<1> DEFINE p == parent[path[1]]
<1>1. /\ pc = "trace" /\ pc' = "trace"
      /\ UNCHANGED <<arcs, src, dst, visited, parent, todo, current, queue>>
  BY DEF Trace, input
<1>2. /\ Len(path) >= 1 /\ path \in Seq(OrbId) /\ path[1] \in OrbId
      /\ Head(path) = path[1] /\ Len(path) \in Nat
  <2>1. path \in Seq(OrbId) /\ Len(path) >= 1 /\ Len(path) \in Nat
    BY <1>1, LenProperties DEF Walk, TypeOK
  <2> QED BY <2>1, HeadTailProperties, ElementOfSeq
<1>3. p # NoOrb /\ path' = <<p>> \o path
  BY <1>2 DEF Trace
<1>4. p \in visited /\ p \in OrbId /\ p # src /\ <<p, path[1]>> \in arcs
  BY <1>2, <1>3 DEF ParentTree, TypeOK
<1> HIDE DEF p
<1>5. /\ Len(path') = Len(path) + 1
      /\ path'[1] = p
      /\ \A i \in 1 .. Len(path) : path'[i + 1] = path[i]
  BY <1>2, <1>3, <1>4, Prepend
<1>6. path'[Len(path')] = src
  BY <1>1, <1>2, <1>5 DEF Walk
<1>7. ASSUME NEW i \in 1 .. Len(path') - 1
      PROVE  <<path'[i], path'[i + 1]>> \in arcs
  <2>1. CASE i = 1
    BY <1>2, <1>4, <1>5, <2>1
  <2>2. CASE i # 1
    <3>1. i - 1 \in 1 .. Len(path) - 1
      BY <1>2, <1>5, <2>2
    <3>2. <<path[i - 1], path[(i - 1) + 1]>> \in arcs
      BY <1>1, <3>1 DEF Walk
    <3>3. path'[(i - 1) + 1] = path[i - 1] /\ path'[i + 1] = path[i]
      BY <1>2, <1>5, <3>1
    <3>4. (i - 1) + 1 = i
      OBVIOUS
    <3> QED BY <3>2, <3>3, <3>4
  <2> QED BY <2>1, <2>2
<1>8. Walk'
  BY <1>1, <1>2, <1>4, <1>5, <1>6, <1>7 DEF Walk
<1>9. Frontier' /\ ParentTree' /\ ReportIsCycle'
  BY <1>1 DEF Frontier, ParentTree, ReportIsCycle
<1> QED BY <1>8, <1>9

\* The walk stops at the head of the new arc, which closes the cycle.
LEMMA ReportKeeps ==
  ASSUME IInv, Report
  PROVE  Frontier' /\ ParentTree' /\ Walk' /\ ReportIsCycle'
<1> USE DEF IInv
<1>1. /\ pc = "trace" /\ pc' = "cycle"
      /\ UNCHANGED <<arcs, src, dst, visited, parent, todo, current, queue>>
      /\ path' = <<src>> \o path
  BY DEF Report, input
<1>2. /\ Len(path) >= 1 /\ path \in Seq(OrbId) /\ path[1] \in OrbId
      /\ Head(path) = path[1] /\ Len(path) \in Nat
  <2>1. path \in Seq(OrbId) /\ Len(path) >= 1 /\ Len(path) \in Nat
    BY <1>1, LenProperties DEF Walk, TypeOK
  <2> QED BY <2>1, HeadTailProperties, ElementOfSeq
<1>3. path[1] = dst
  <2>1. parent[path[1]] = NoOrb
    BY <1>1, <1>2 DEF Report, Walk
  <2> QED BY <1>1, <1>2, <2>1 DEF ParentTree, Walk
<1>4. /\ Len(path') = Len(path) + 1
      /\ path'[1] = src
      /\ \A i \in 1 .. Len(path) : path'[i + 1] = path[i]
  BY <1>1, <1>2, Prepend DEF TypeOK
<1>5. path'[2] = dst /\ path'[Len(path')] = src
  <2>1. 1 \in 1 .. Len(path) /\ Len(path) \in 1 .. Len(path) /\ 1 + 1 = 2
    BY <1>2
  <2> QED BY <1>1, <1>3, <1>4, <2>1 DEF Walk
<1>6. ASSUME NEW i \in 1 .. Len(path') - 1
      PROVE  <<path'[i], path'[i + 1]>> \in AllArcs
  <2>1. CASE i = 1
    BY <1>4, <1>5, <2>1 DEF AllArcs
  <2>2. CASE i # 1
    <3>1. i - 1 \in 1 .. Len(path) - 1
      BY <1>2, <1>4, <2>2
    <3>2. <<path[i - 1], path[(i - 1) + 1]>> \in arcs
      BY <1>1, <3>1 DEF Walk
    <3>3. path'[(i - 1) + 1] = path[i - 1] /\ path'[i + 1] = path[i]
      BY <1>2, <1>4, <3>1
    <3>4. (i - 1) + 1 = i
      OBVIOUS
    <3> QED BY <3>2, <3>3, <3>4 DEF AllArcs
  <2> QED BY <2>1, <2>2
<1>7. ReportIsCycle'
  BY <1>1, <1>2, <1>4, <1>5, <1>6 DEF ReportIsCycle, AllArcs
<1>8. Frontier' /\ ParentTree' /\ Walk'
  BY <1>1 DEF Frontier, ParentTree, Walk
<1> QED BY <1>7, <1>8

\* The steps that only move the program counter.
LEMMA ControlKeeps ==
  ASSUME IInv, Exhausted \/ Expanded \/ UNCHANGED vars
  PROVE  Frontier' /\ ParentTree' /\ Walk' /\ ReportIsCycle'
<1> USE DEF IInv
<1>1. /\ UNCHANGED <<arcs, src, dst, visited, parent, todo, current, queue, path>>
      /\ \/ pc = "pop" /\ pc' = "ok" /\ queue = <<>>
         \/ pc = "expand" /\ pc' = "pop" /\ todo = {}
         \/ pc' = pc
  BY DEF Exhausted, Expanded, vars, input
<1>2. Frontier'
  BY <1>1 DEF Frontier, Successors, AllArcs
<1>3. ParentTree' /\ Walk' /\ ReportIsCycle'
  BY <1>1 DEF ParentTree, Walk, ReportIsCycle, AllArcs
<1> QED BY <1>2, <1>3

\* Every step preserves the invariant.
LEMMA NextIInv == IInv /\ [Next]_vars => IInv'
<1> SUFFICES ASSUME IInv, [Next]_vars PROVE IInv'
  OBVIOUS
<1>1. TypeOK'
  BY NextType DEF IInv
<1>2. Frontier' /\ ParentTree' /\ Walk' /\ ReportIsCycle'
  BY PopKeeps, FoundKeeps, LookKeeps, TraceKeeps, ReportKeeps, ControlKeeps
     DEF Next
<1> QED BY <1>1, <1>2 DEF IInv

\* The invariant holds in every reachable state.
LEMMA IInvInvariant == Spec => []IInv
  BY InitIInv, NextIInv, PTL DEF Spec

-----------------------------------------------------------------------------
(* What it gives.                                                          *)

\* The search is well typed on every graph.
THEOREM ScanTypeCorrect == Spec => []TypeOK
<1>1. IInv => TypeOK
  BY DEF IInv
<1> QED BY <1>1, IInvInvariant, PTL

\* Once the queue is empty the visited orbs are closed under the arcs and lack
\* the tail; an orb is reported only if it was reached.
LEMMA IInvVerdict == IInv => VerdictIsRight
<1> SUFFICES ASSUME IInv PROVE VerdictIsRight
  OBVIOUS
<1> USE DEF IInv
<1>1. ASSUME pc = "ok" PROVE ~ Reaches(arcs, dst, src)
  <2>1. queue = <<>> /\ \A x : ~ Occurs(queue, x)
    BY <1>1 DEF Frontier, Occurs
  <2>2. Closed(arcs, visited)
    BY <1>1, <2>1 DEF Frontier, Closed
  <2>3. dst \in visited /\ src \notin visited /\ visited \in SUBSET OrbId
    BY <1>1, <2>1 DEF Frontier, TypeOK
  <2> QED BY <2>2, <2>3 DEF Reaches
<1>2. ASSUME pc \in {"trace", "cycle"} PROVE Reaches(arcs, dst, src)
  BY <1>2 DEF Frontier
<1> QED BY <1>1, <1>2 DEF VerdictIsRight

\* The check answers "no cycle" only when the head of the new arc does not lead
\* back to its tail, and "cycle" only when it does.
THEOREM VerdictCorrect == Spec => []VerdictIsRight
  BY IInvInvariant, IInvVerdict, PTL

\* The cycle reported is one: it starts with the new arc, follows an arc at
\* every step and returns to the tail.
THEOREM ReportCorrect == Spec => []ReportIsCycle
<1>1. IInv => ReportIsCycle
  BY DEF IInv
<1> QED BY <1>1, IInvInvariant, PTL
=============================================================================
