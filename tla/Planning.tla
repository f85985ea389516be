------------------------------- MODULE Planning -------------------------------
(***************************************************************************)
(* The commands that plan, `orbs pipeline` and `orbs tree` (cmd_tree and   *)
(* cmd_ids_from_query of cli/src/main.rs; ready and waiting take no        *)
(* steps).  Each reads the orbs, then the edges, and computes on what it   *)
(* has read.  Other commands may write in between, so the two need not be  *)
(* of one moment: the input is any.                                        *)
(***************************************************************************)
EXTENDS Schedule

CONSTANTS NoParent, StackLimit

ASSUME ParentAssumption ==
  /\ NoParent \notin OrbId
  /\ \A in \in Input : in.parent \in [DOMAIN in.orbs -> OrbId \cup {NoParent}]

\* The stack has room for as many calls as there are orbs.
ASSUME StackAssumption ==
  StackLimit \in Nat /\ \A in \in Input : Cardinality(DOMAIN in.orbs) <= StackLimit

VARIABLES root, stack, nodes

Tree == INSTANCE OrbTree

queryVars == <<todo, effective, degree, queue, result>>
treeVars == <<root, stack, nodes>>
commandVars == <<input, pc, queryVars, treeVars>>

NotATree == root = NoParent /\ stack = <<>> /\ nodes = <<>>

NotAQuery ==
  /\ todo = Ids /\ effective = input.own /\ degree = [x \in Ids |-> 0]
  /\ queue = <<>> /\ result = <<>>

CommandInit ==
  \/ Init /\ NotATree
  \/ input \in Input /\ Tree!Init /\ NotAQuery

CommandNext ==
  \/ Next /\ UNCHANGED treeVars
  \/ Tree!Next /\ UNCHANGED queryVars

CommandSpec ==
  CommandInit /\ [][CommandNext]_commandVars /\ WF_commandVars(CommandNext)

-----------------------------------------------------------------------------
CommandTypeOK == IF NotATree THEN TypeOK ELSE Tree!TypeOK

\* The tree is that of the root's descendants, however deep, what is read off it
\* is so, and building it fails only under a cycle of parents.
TreeIsRight ==
  /\ Tree!EachDescendantOnce
  /\ Tree!ReadersAgree
  /\ Tree!LongestChain
  /\ Tree!OverflowOnlyOnCycle

\* A command that runs on ends.
CommandEnds == <>(pc \in {"done", "built", "overflow"})
=============================================================================
