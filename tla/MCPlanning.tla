------------------------------ MODULE MCPlanning ------------------------------
(***************************************************************************)
(* Planning for TLC: families of inputs.  Of the ids a, b, c and d    *)
(* the last is that of no orb in some of them.                             *)
(***************************************************************************)
EXTENDS Planning

CONSTANTS a, b, c, d

MCOrbId == {a, b, c, d}

Blocks(x, y) == [from |-> x, to |-> y, type |-> "blocks"]

DependsOn(x, y) == [from |-> x, to |-> y, type |-> "depends_on"]

Task(status) == [NewOrb(FALSE, FALSE, FALSE) EXCEPT !.status = status]

Epic(phase) == [NewOrb(TRUE, FALSE, FALSE) EXCEPT !.phase = phase]

In(orbs, own, edges, parent) ==
  [orbs |-> orbs, own |-> own, edges |-> edges, parent |-> parent]

Three == {a, b, c}
Four == {a, b, c, d}

Pending(S) == [y \in S |-> Task("Pending")]
Distinct(S) == [y \in S |-> CASE y = a -> 1 [] y = b -> 2 [] y = c -> 3 [] y = d -> 4]
Flat(S) == [y \in S |-> NoParent]

UpTo(n, E) == {F \in SUBSET E : Cardinality(F) <= n}

\* Three orbs, up to four edges: cycles, edges that say the same, edges of other
\* ids and of types that do not block.
Edges3 ==
  {Blocks(a, b), Blocks(b, c), Blocks(c, a), Blocks(a, c), Blocks(c, d), Blocks(b, b),
   DependsOn(b, a), DependsOn(c, b), DependsOn(a, d),
   [from |-> c, to |-> b, type |-> "related"]}

Orders == {In(Pending(Three), own, edges, Flat(Three)) :
             own \in [Three -> {1, 2}], edges \in UpTo(4, Edges3)}

\* Four orbs, all graphs along one order of them.
Edges4 == {Blocks(a, b), Blocks(a, c), Blocks(a, d), Blocks(b, d), Blocks(c, d),
           DependsOn(c, b), DependsOn(d, b)}

Graphs == {In(Pending(Four), [y \in Four |-> IF y = d THEN 1 ELSE 2], edges, Flat(Four)) :
             edges \in SUBSET Edges4}

\* States of all kinds.
States == {In(orbs, Distinct(Three), edges, Flat(Three)) :
             orbs \in [Three -> {Task("Pending"), Task("Done"), Task("Failed"),
                                 Epic("Review")}],
             edges \in UpTo(2, Edges3)}

\* Parents of all kinds, cycles and ids that are not there included.
Links == {Blocks(a, b), DependsOn(c, b), DependsOn(a, d)}

Trees ==
  {In(Pending(Four), Distinct(Four), Links, parent) : parent \in [Four -> Four \cup {NoParent}]}
    \cup {In(Pending(Three), Distinct(Three), Links, parent) :
            parent \in [Three -> Four \cup {NoParent}]}

\* Two orbs of which each blocks one other, in another order of priority.
Forks == {In(Pending(Four), [y \in Four |-> CASE y = a -> 1 [] y = b -> 2 [] y = c -> 4 [] y = d -> 3],
             {Blocks(a, c), Blocks(b, d)}, Flat(Four))}

MCInput == Orders \cup Graphs \cup States \cup Trees
=============================================================================
