------------------------------- MODULE Schedule -------------------------------
(***************************************************************************)
(* The scheduling queries of src/dep_store.rs: ready and waiting, the      *)
(* effective priorities, and the order that pipeline puts the orbs in.     *)
(*                                                                         *)
(* A query works on what it has read, the `input`: the orbs that are not   *)
(* deleted, their priorities and the live edges, which may name other ids. *)
(* ready and waiting are operators; pipeline is stepped through, one orb   *)
(* of each of its loops at a time, because the loops run over HashMaps and *)
(* the order they meet the orbs in differs from run to run.                *)
(***************************************************************************)
EXTENDS DepGraph, OrbRecord, Sequences, FiniteSets

CONSTANT Input

\* Of priorities, the least is the most urgent.
ASSUME InputAssumption ==
  \A in \in Input :
    /\ DOMAIN in.orbs \subseteq OrbId
    /\ IsFiniteSet(DOMAIN in.orbs) /\ IsFiniteSet(in.edges)
    /\ in.orbs \in [DOMAIN in.orbs -> Orb]
    /\ in.own \in [DOMAIN in.orbs -> Nat]
    /\ in.edges \subseteq Edge

VARIABLES
  input,
  pc,         \* "propagate", "take", "done"
  todo,       \* the orbs whose priority is not yet propagated
  effective,  \* priorities
  degree,     \* how many edges still hold each orb back
  queue,
  result      \* the order; while the queue lasts also the set `visited`

vars == <<input, pc, todo, effective, degree, queue, result>>

Ids == DOMAIN input.orbs

ArcsNow == Arcs(input.edges)

-----------------------------------------------------------------------------
(* ready and waiting.                                                      *)

Status(x) == EffectiveStatus(input.orbs[x])

Unfinished == {x \in Ids : Status(x) \notin {"Done", "Failed", "Cancelled"}}

Blockers(x) == {y \in OrbId : <<y, x>> \in ArcsNow}

\* Mutant: a blocker that is not among the orbs holds back.
Ready_Strict ==
  {x \in Unfinished : \A y \in Blockers(x) : y \in Ids /\ Status(y) = "Done"}

\* A blocker that was deleted, or never was, does not hold back.
Ready == {x \in Unfinished : \A y \in Blockers(x) \cap Ids : Status(y) = "Done"}

Waiting == {x \in Unfinished : \E y \in Blockers(x) \cap Ids : Status(y) # "Done"}

-----------------------------------------------------------------------------
(* The edges as pipeline counts them.                                      *)

\* Mutant: two edges that say the same count once.
EdgesInto_Pairs(y) ==
  Cardinality({x \in Ids : <<x, y>> \in ArcsNow})

\* A `blocks` and a `depends_on` edge with the same arc count twice.
EdgesInto(y) ==
  Cardinality({e \in input.edges : IsBlocking(e) /\ Arc(e) \in Ids \X {y}})

EdgesBetween(x, y) == Cardinality({e \in input.edges : IsBlocking(e) /\ Arc(e) = <<x, y>>})

Arrangements(S) ==
  {s \in [1 .. Cardinality(S) -> S] : \A i, j \in DOMAIN s : s[i] = s[j] => i = j}

\* The ways to sort a set by priority.
Sorted(S) ==
  {s \in Arrangements(S) :
     \A i, j \in DOMAIN s : i < j => effective[s[i]] <= effective[s[j]]}

-----------------------------------------------------------------------------
Init ==
  /\ input \in Input
  /\ pc = "propagate"
  /\ todo = Ids
  /\ effective = input.own
  /\ degree = [x \in Ids |-> EdgesInto(x)]
  /\ queue = <<>>
  /\ result = <<>>

\* Mutant: only the direct dependents are looked at.
Dependents_Direct(x) == {y \in OrbId : <<x, y>> \in ArcsNow}

\* What the inner search of compute_effective_priorities visits; it goes on
\* through ids that are not among the orbs, for a turn per arc at most.
Dependents(x) ==
  LET found[n \in 0 .. Cardinality(ArcsNow)] ==
        IF n = 0 THEN {x}
        ELSE LET before == found[n - 1]
             IN before \cup {a[2] : a \in {b \in ArcsNow : b[1] \in before}}
  IN found[Cardinality(ArcsNow)]

\* The most urgent of an orb and its dependents, as far as they are known.
MostUrgent(x) ==
  LET known == {effective[y] : y \in (Dependents(x) \cap Ids) \cup {x}}
  IN CHOOSE p \in known : \A q \in known : p <= q

Propagate ==
  /\ pc = "propagate"
  /\ \E x \in todo :
       /\ effective' = [effective EXCEPT ![x] = MostUrgent(x)]
       /\ todo' = todo \ {x}
  /\ UNCHANGED <<input, pc, degree, queue, result>>

Start ==
  /\ pc = "propagate"
  /\ todo = {}
  /\ pc' = "take"
  /\ queue' \in Sorted({x \in Ids : degree[x] = 0})
  /\ UNCHANGED <<input, todo, effective, degree, result>>

Less(m, n) == IF m > n THEN m - n ELSE 0

\* Mutant: what has become free is put in front.
Enqueued_Front(s) == s \o Tail(queue)

Enqueued(s) == Tail(queue) \o s

Visited == {result[i] : i \in DOMAIN result}

\* One turn of the loop.
Take ==
  /\ pc = "take"
  /\ queue # <<>>
  /\ LET x == Head(queue)
         left == [y \in Ids |-> Less(degree[y], EdgesBetween(x, y))]
         free == {y \in Ids \ (Visited \cup {x}) : EdgesBetween(x, y) > 0 /\ left[y] = 0}
     IN IF x \in Visited
        THEN queue' = Tail(queue) /\ UNCHANGED <<degree, result>>
        ELSE /\ degree' = left
             /\ result' = Append(result, x)
             /\ \E s \in Sorted(free) : queue' = Enqueued(s)
  /\ UNCHANGED <<input, pc, todo, effective>>

\* Mutants: every id in the edges is taken for an orb; the loop goes on until it
\* has reached every orb.
Finish_AllIds ==
  /\ pc = "take"
  /\ queue = <<>>
  /\ \E s \in Arrangements(OrbId \ Visited) : result' = result \o s
  /\ pc' = "done"
  /\ UNCHANGED <<input, todo, effective, degree, queue>>

Finish_WhenAll ==
  /\ pc = "take"
  /\ Visited = Ids
  /\ pc' = "done"
  /\ UNCHANGED <<input, todo, effective, degree, queue, result>>

\* Orbs on a cycle or behind one follow in no order.
Finish ==
  /\ pc = "take"
  /\ queue = <<>>
  /\ \E s \in Arrangements(Ids \ Visited) : result' = result \o s
  /\ pc' = "done"
  /\ UNCHANGED <<input, todo, effective, degree, queue>>

Next == Propagate \/ Start \/ Take \/ Finish

Spec == Init /\ [][Next]_vars /\ WF_vars(Next)

-----------------------------------------------------------------------------
TypeOK ==
  /\ pc \in {"propagate", "take", "done"}
  /\ todo \subseteq Ids
  /\ effective \in [Ids -> Nat]
  /\ degree \in [Ids -> Nat]
  /\ queue \in Seq(Ids)
  /\ result \in Seq(Ids)

\* ready and waiting, written as two loops, divide the unfinished orbs between
\* them; and when blocking is acyclic, as DepStore keeps it, some orb is ready
\* unless all are finished or one of them waits for an orb that was given up.
SomeReady ==
  /\ Ready \cup Waiting = Unfinished /\ Ready \cap Waiting = {}
  /\ Acyclic(ArcsNow) /\ Unfinished # {} =>
       \/ Ready # {}
       \/ \E x \in Waiting, y \in Ids :
            <<y, x>> \in ArcsNow /\ Status(y) \in {"Failed", "Cancelled"}

\* pipeline returns every orb once, and without a cycle every blocker before
\* what it blocks.
PipelineOrder ==
  pc = "done" =>
    /\ Visited = Ids
    /\ \A i, j \in DOMAIN result : result[i] = result[j] => i = j
    /\ Acyclic(ArcsNow) =>
         \A i, j \in DOMAIN result : <<result[i], result[j]>> \in ArcsNow => i < j

\* The orbs in rounds: those of the first n rounds have all that blocks them in
\* earlier ones.
Rounds ==
  LET round[n \in 0 .. Cardinality(Ids)] ==
        IF n = 0 THEN {}
        ELSE LET before == round[n - 1]
             IN {x \in Ids : Blockers(x) \cap Ids \subseteq before}
  IN round

\* The round of an orb; those on a cycle or behind one come after all rounds.
Level(x) ==
  LET in == {n \in DOMAIN Rounds : x \in Rounds[n]}
  IN IF in = {} THEN Cardinality(Ids) + 1 ELSE CHOOSE n \in in : \A m \in in : n <= m

\* pipeline returns the orbs round after round, whatever the graph, and those of
\* the first round by effective priority.
LevelsInOrder ==
  pc = "done" =>
    \A i, j \in DOMAIN result :
      i < j =>
        /\ Level(result[i]) <= Level(result[j])
        /\ Level(result[j]) = 1 => effective[result[i]] <= effective[result[j]]

\* What the comment of pipeline says: within a level the order is by priority.
LevelsByPriority ==
  pc = "done" =>
    \A i, j \in DOMAIN result :
      i < j /\ Level(result[i]) = Level(result[j]) /\ Level(result[i]) <= Cardinality(Ids)
        => effective[result[i]] <= effective[result[j]]

\* In whatever order the orbs are gone through, each one ends up as urgent as
\* the most urgent of those that wait for it, directly or not.
UrgencyPasses ==
  pc = "done" =>
    \A x \in Ids :
      LET after == {y \in Ids : Reaches(ArcsNow, x, y)}
      IN /\ \A y \in after : effective[x] <= input.own[y]
         /\ \E y \in after : effective[x] = input.own[y]
=============================================================================
