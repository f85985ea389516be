------------------------------- MODULE OrbTree --------------------------------
(***************************************************************************)
(* The tree of an orb and its descendants (src/tree.rs): build_orb_tree    *)
(* with its call stack, and what is then read off the tree.                *)
(*                                                                         *)
(* `input` holds the parents of the orbs that are not deleted, and the     *)
(* live edges.  The children of an orb come in the order of their          *)
(* creation, here in some fixed order.                                     *)
(***************************************************************************)
EXTENDS DepGraph, Integers, Sequences, FiniteSets

CONSTANTS
  NoParent,
  StackLimit     \* how many calls of build_node fit on the stack

VARIABLES
  input,
  pc,      \* "build", "built", "overflow"
  root,
  stack,   \* the calls of build_node: an orb, its children still to be built
  nodes    \* the nodes made, in the order of the calls: orb and depth

vars == <<input, pc, root, stack, nodes>>

Ids == DOMAIN input.parent

Children(x) == {y \in Ids : input.parent[y] = x}

-----------------------------------------------------------------------------
(* build_orb_tree.                                                         *)

Call(x) == [orb |-> x, todo |-> Children(x)]

Init ==
  /\ root \in OrbId
  /\ IF root \in Ids
     THEN pc = "build" /\ stack = <<Call(root)>> /\ nodes = <<[orb |-> root, depth |-> 0]>>
     ELSE pc = "built" /\ stack = <<>> /\ nodes = <<>>

Top == stack[Len(stack)]

Below == SubSeq(stack, 1, Len(stack) - 1)

First(S) == CHOOSE x \in S : TRUE

\* Mutant: the depth is that of the parent.
Descend_Flat ==
  /\ pc = "build"
  /\ Len(stack) < StackLimit
  /\ Top.todo # {}
  /\ LET x == First(Top.todo) IN
       /\ stack' = Append(Append(Below, [Top EXCEPT !.todo = @ \ {x}]), Call(x))
       /\ nodes' = Append(nodes, [orb |-> x, depth |-> Len(stack) - 1])
  /\ UNCHANGED <<input, pc, root>>

Descend ==
  /\ pc = "build"
  /\ Len(stack) < StackLimit
  /\ Top.todo # {}
  /\ LET x == First(Top.todo) IN
       /\ stack' = Append(Append(Below, [Top EXCEPT !.todo = @ \ {x}]), Call(x))
       /\ nodes' = Append(nodes, [orb |-> x, depth |-> Len(stack)])
  /\ UNCHANGED <<input, pc, root>>

Return ==
  /\ pc = "build"
  /\ Top.todo = {}
  /\ stack' = Below
  /\ pc' = IF Below = <<>> THEN "built" ELSE "build"
  /\ UNCHANGED <<input, root, nodes>>

\* Nothing keeps parents from forming a cycle; the program then aborts.
Overflow ==
  /\ pc = "build"
  /\ Len(stack) = StackLimit
  /\ Top.todo # {}
  /\ pc' = "overflow"
  /\ UNCHANGED <<input, root, stack, nodes>>

Next == Descend \/ Return \/ Overflow

-----------------------------------------------------------------------------
(* What is read off a tree that was built.                                 *)

\* The functions that read a tree call themselves once per level, flatten here once
\* per orb: on a tree that was built, less often than there are orbs.
Calls == Cardinality(Ids)

Greatest(S) == CHOOSE d \in S : \A e \in S : e <= d

DepthOf(x) ==
  LET depth[n \in 0 .. Calls] ==
        IF n = 0 THEN [y \in Ids |-> 0]
        ELSE [y \in Ids |->
                IF Children(y) = {} THEN 0
                ELSE 1 + Greatest({depth[n - 1][z] : z \in Children(y)})]
  IN depth[Calls][x]

LeavesOf(x) ==
  LET leaves[n \in 0 .. Calls] ==
        IF n = 0 THEN [y \in Ids |-> {}]
        ELSE [y \in Ids |->
                IF Children(y) = {} THEN {y}
                ELSE UNION {leaves[n - 1][z] : z \in Children(y)}]
  IN leaves[Calls][x]

\* The trees of the orbs of S, one after the other.
Flatten(x) ==
  LET flat[n \in 0 .. Calls] ==
        IF n = 0 THEN [S \in SUBSET Ids |-> <<>>]
        ELSE [S \in SUBSET Ids |->
                IF S = {} THEN <<>>
                ELSE <<First(S)>> \o flat[n - 1][Children(First(S))]
                                  \o flat[n - 1][S \ {First(S)}]]
  IN flat[Calls][{x}]

\* build_full_timeline: the tree, the edges with an end in it, and two measures.
Timeline ==
  LET orbs == Flatten(root)
      ids == {orbs[i] : i \in DOMAIN orbs}
  IN [edges |-> {e \in input.edges : e.from \in ids \/ e.to \in ids},
      totalOrbs |-> Len(orbs),
      maxDepth |-> DepthOf(root)]

\* A blocking edge between the two, in either direction.
Linked(x, y) == \E e \in input.edges : IsBlocking(e) /\ {e.from, e.to} = {x, y}

LinkedChildren(x) == {y \in Children(x) : Linked(x, y)}

Longest(paths) == CHOOSE p \in paths : \A q \in paths : Len(q) <= Len(p)

CriticalPath(x) ==
  LET path[n \in 0 .. Calls] ==
        IF n = 0 THEN [y \in Ids |-> <<y>>]
        ELSE [y \in Ids |->
                IF LinkedChildren(y) = {} THEN <<y>>
                ELSE <<y>> \o Longest({path[n - 1][z] : z \in LinkedChildren(y)})]
  IN path[Calls][x]

-----------------------------------------------------------------------------
Down == {<<input.parent[y], y>> : y \in Ids}

TypeOK ==
  /\ pc \in {"build", "built", "overflow"}
  /\ root \in OrbId
  /\ stack \in Seq([orb : Ids, todo : SUBSET Ids])
  /\ nodes \in Seq([orb : Ids, depth : Nat])

\* The tree has the root and each of its descendants once, one deeper than its
\* parent and after it.
EachDescendantOnce ==
  pc = "built" /\ root \in Ids =>
    /\ {nodes[i].orb : i \in DOMAIN nodes} = {x \in Ids : Reaches(Down, root, x)}
    /\ \A i, j \in DOMAIN nodes : nodes[i].orb = nodes[j].orb => i = j
    /\ \A j \in 2 .. Len(nodes) : \E i \in 1 .. j - 1 :
         /\ nodes[i].orb = input.parent[nodes[j].orb]
         /\ nodes[j].depth = nodes[i].depth + 1

\* What is read off the tree recursively fits its nodes: the list of them, the
\* leaves, and in the timeline the edges, the number of orbs and the depth.
ReadersAgree ==
  pc = "built" /\ root \in Ids =>
    LET orbs == {nodes[i].orb : i \in DOMAIN nodes}
    IN /\ Flatten(root) = [i \in DOMAIN nodes |-> nodes[i].orb]
       /\ LeavesOf(root) = orbs \ {input.parent[x] : x \in Ids}
       /\ Timeline.edges = {e \in input.edges : {e.from, e.to} \cap orbs # {}}
       /\ Timeline.totalOrbs = Cardinality(orbs)
       /\ \A i \in DOMAIN nodes : nodes[i].depth <= Timeline.maxDepth
       /\ \E i \in DOMAIN nodes : nodes[i].depth = Timeline.maxDepth

\* The critical path goes down from the root along blocking edges, and no such
\* path goes deeper.
LongestChain ==
  pc = "built" /\ root \in Ids =>
    LET path == CriticalPath(root)
        links == {a \in Down : Linked(a[1], a[2])}
    IN /\ path[1] = root
       /\ \A i \in 2 .. Len(path) : <<path[i - 1], path[i]>> \in links
       /\ \A i \in DOMAIN nodes :
            Reaches(links, root, nodes[i].orb) => nodes[i].depth < Len(path)

\* Building fails for one reason only, that the root is its own ancestor.
OverflowOnlyOnCycle == pc = "overflow" => OnCycle(Down, root)
=============================================================================
