------------------------------ MODULE CycleScan ------------------------------
(***************************************************************************)
(* detect_cycle_with_new_edge of src/dep_store.rs, step by step: a search  *)
(* from the head of a new arc for its tail, and the reconstruction of the  *)
(* cycle it reports.  Successors are visited in any order, as the edges    *)
(* come out of a HashMap.                                                  *)
(***************************************************************************)
EXTENDS DepGraph, Integers, Sequences

CONSTANT NoOrb        \* "no entry" in the map of parents

ASSUME NoOrbAssumption == NoOrb \notin OrbId

VARIABLES
  arcs,      \* the arcs of the existing blocking edges
  src, dst,  \* the new arc
  pc,        \* "pop", "expand", "trace", then "ok" or "cycle"
  queue,     \* the orbs found and not yet expanded
  visited,
  parent,    \* the orb each visited orb was found from
  current,   \* the orb being expanded
  todo,      \* its successors not yet looked at
  path       \* the reported cycle, built from its end

input == <<arcs, src, dst>>
vars == <<arcs, src, dst, pc, queue, visited, parent, current, todo, path>>

AllArcs == arcs \cup {<<src, dst>>}

Successors(x) == {y \in OrbId : <<x, y>> \in AllArcs}

Init ==
  /\ arcs \in SUBSET (OrbId \X OrbId)
  /\ src \in OrbId
  /\ dst \in OrbId
  /\ pc = "pop"
  /\ queue = <<dst>>
  /\ visited = {dst}
  /\ parent = [x \in OrbId |-> NoOrb]
  /\ current = dst
  /\ todo = {}
  /\ path = <<>>

\* The queue is empty: the tail was not found.
Exhausted ==
  /\ pc = "pop"
  /\ queue = <<>>
  /\ pc' = "ok"
  /\ UNCHANGED <<input, queue, visited, parent, current, todo, path>>

\* Mutant: the front of the queue is read and not removed.
Pop_Front ==
  /\ pc = "pop"
  /\ queue # <<>>
  /\ Head(queue) # src
  /\ pc' = "expand"
  /\ current' = Head(queue)
  /\ todo' = Successors(Head(queue))
  /\ UNCHANGED <<input, queue, visited, parent, path>>

Pop ==
  /\ pc = "pop"
  /\ queue # <<>>
  /\ Head(queue) # src
  /\ pc' = "expand"
  /\ queue' = Tail(queue)
  /\ current' = Head(queue)
  /\ todo' = Successors(Head(queue))
  /\ UNCHANGED <<input, visited, parent, path>>

\* The tail is reached: the report starts with it.
Found ==
  /\ pc = "pop"
  /\ queue # <<>>
  /\ Head(queue) = src
  /\ pc' = "trace"
  /\ queue' = Tail(queue)
  /\ current' = src
  /\ path' = <<src>>
  /\ UNCHANGED <<input, visited, parent, todo>>

\* Mutant: the successor is marked before the test, so it always looks seen.
Look_MarkedFirst(y) ==
  /\ pc = "expand"
  /\ y \in todo
  /\ todo' = todo \ {y}
  /\ visited' = visited \cup {y}
  /\ UNCHANGED <<input, pc, queue, parent, current, path>>

Look(y) ==
  /\ pc = "expand"
  /\ y \in todo
  /\ todo' = todo \ {y}
  /\ visited' = visited \cup {y}
  /\ IF y \in visited
     THEN UNCHANGED <<parent, queue>>
     ELSE /\ parent' = [parent EXCEPT ![y] = current]
          /\ queue' = Append(queue, y)
  /\ UNCHANGED <<input, pc, current, path>>

Expanded ==
  /\ pc = "expand"
  /\ todo = {}
  /\ pc' = "pop"
  /\ UNCHANGED <<input, queue, visited, parent, current, todo, path>>

\* Mutant: the walk does not stop at the head of the new arc.
Trace_PastHead ==
  /\ pc = "trace"
  /\ Len(path) = 1 \/ Head(path) # current
  /\ path' = <<parent[Head(path)]>> \o path
  /\ UNCHANGED <<input, pc, queue, visited, parent, current, todo>>

\* One step back along the parents; the guard of the loop in the code stops it
\* should it come round to where it began.
Trace ==
  /\ pc = "trace"
  /\ parent[Head(path)] # NoOrb
  /\ Len(path) = 1 \/ Head(path) # current
  /\ path' = <<parent[Head(path)]>> \o path
  /\ UNCHANGED <<input, pc, queue, visited, parent, current, todo>>

\* Mutant: the path is not closed with its first orb.
Report_Open ==
  /\ pc = "trace"
  /\ parent[Head(path)] = NoOrb \/ (Len(path) > 1 /\ Head(path) = current)
  /\ pc' = "cycle"
  /\ UNCHANGED <<input, queue, visited, parent, current, todo, path>>

Report ==
  /\ pc = "trace"
  /\ parent[Head(path)] = NoOrb \/ (Len(path) > 1 /\ Head(path) = current)
  /\ path' = <<src>> \o path
  /\ pc' = "cycle"
  /\ UNCHANGED <<input, queue, visited, parent, current, todo>>

Next ==
  \/ Exhausted
  \/ Pop
  \/ Found
  \/ \E y \in OrbId : Look(y)
  \/ Expanded
  \/ Trace
  \/ Report

Spec == Init /\ [][Next]_vars /\ WF_vars(Next)

-----------------------------------------------------------------------------
TypeOK ==
  /\ arcs \in SUBSET (OrbId \X OrbId)
  /\ src \in OrbId /\ dst \in OrbId /\ current \in OrbId
  /\ pc \in {"pop", "expand", "trace", "ok", "cycle"}
  /\ queue \in Seq(OrbId)
  /\ visited \in SUBSET OrbId
  /\ todo \in SUBSET OrbId
  /\ parent \in [OrbId -> OrbId \cup {NoOrb}]
  /\ path \in Seq(OrbId)

\* An edge is let in only if its head does not lead back to its tail, and
\* refused only if it does: no false alarm and no missed cycle.
VerdictIsRight ==
  /\ pc = "ok" => ~ Reaches(arcs, dst, src)
  /\ pc \in {"trace", "cycle"} => Reaches(arcs, dst, src)

\* DepError::CycleDetected promises "the path forming the cycle, from source
\* back to source": what is reported starts with the new arc, returns to its
\* tail and follows an arc at every step.
ReportIsCycle ==
  pc = "cycle" =>
    /\ Len(path) >= 2
    /\ path[1] = src /\ path[2] = dst /\ path[Len(path)] = src
    /\ \A i \in 1 .. Len(path) - 1 : <<path[i], path[i + 1]>> \in AllArcs

\* The search and the walk along the parents both end, on any graph and from
\* any arc, self-loops included.
Terminates == <>(pc \in {"ok", "cycle"})
=============================================================================
