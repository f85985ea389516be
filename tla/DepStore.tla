------------------------------- MODULE DepStore ------------------------------
(***************************************************************************)
(* The dependency store (DepStore of src/dep_store.rs) in a JSONL file     *)
(* shared by several processes: each `orb dep add` and `orb dep rm` reads  *)
(* the whole file, decides, and appends one line.  Nothing locks the file  *)
(* between the read and the append, which may fail or be cut short.        *)
(***************************************************************************)
EXTENDS DepGraph, Integers, Sequences

CONSTANTS
  Proc,       \* the processes that run the command line
  Offered,    \* the edges they ask for
  Bad,        \* text that does not parse
  MaxLog,     \* bounds: no call starts on a file of this many lines,
  MaxFails    \* failed writes

VARIABLES
  log,     \* the lines of the file: an edge and whether removed_at is set, or Bad
  open,    \* the last line has no newline
  pc,      \* what each process is between: "idle", "adding", "removing"
  arg,     \* the edge of its call
  raced,   \* ghost: two checked additions have been under way at once
  fails    \* ghost: how many writes have failed

vars == <<log, open, pc, arg, raced, fails>>

Line == [edge : Edge, removed : BOOLEAN]

ASSUME OfferedAssumption == Offered \subseteq Edge
ASSUME BadAssumption == Bad \notin Line
ASSUME BoundsAssumption == MaxLog \in Nat /\ MaxFails \in Nat

\* all_edges does not return an error: one bad line is enough for that.
Readable(lines) == \A i \in DOMAIN lines : lines[i] # Bad

\* Line i is the last one of its edge.
Latest(lines, i) ==
  \A j \in DOMAIN lines : lines[j].edge = lines[i].edge => j <= i

\* Mutant: once removed, an edge stays removed.
Live_RemovedForGood(lines) ==
  {lines[i].edge : i \in DOMAIN lines}
    \ {lines[i].edge : i \in {j \in DOMAIN lines : lines[j].removed}}

\* all_edges of a readable file: the edges whose last line does not say removed.
Live(lines) ==
  {lines[i].edge :
     i \in {j \in DOMAIN lines : Latest(lines, j) /\ ~ lines[j].removed}}

\* Mutant: the new edge is taken to run from `from` to `to` whatever its type.
CycleFree_SameWay(E, e) == ~ Reaches(Arcs(E), e.to, e.from)

\* detect_cycle_with_new_edge answers Ok: the head of the new arc does not lead
\* back to its tail.  (CycleScan shows that the search computes this.)
CycleFree(E, e) == ~ Reaches(Arcs(E), Arc(e)[2], Arc(e)[1])

-----------------------------------------------------------------------------
Init ==
  /\ log = <<>>
  /\ open = FALSE
  /\ pc = [p \in Proc |-> "idle"]
  /\ arg \in [Proc -> Offered]
  /\ raced = FALSE
  /\ fails = 0

Idle(p) == pc[p] = "idle" /\ Len(log) < MaxLog

Begin(p, e, what) ==
  /\ pc' = [pc EXCEPT ![p] = what]
  /\ arg' = [arg EXCEPT ![p] = e]
  /\ UNCHANGED <<log, open, fails>>

\* Mutants: only `blocks` edges are checked; an edge of any type is.
BeginAdd_BlocksOnly(p, e) ==
  /\ Idle(p)
  /\ IsBlocking(e)
  /\ Readable(log)
  /\ e.type = "blocks" => CycleFree(Live(log), e)
  /\ Begin(p, e, "adding")
  /\ raced' = (raced \/ \E q \in Proc : pc[q] = "adding")

BeginAdd_AnyType(p, e) ==
  /\ Idle(p)
  /\ Readable(log) /\ CycleFree(Live(log), e)
  /\ Begin(p, e, "adding")
  /\ raced' = (raced \/ \E q \in Proc : pc[q] = "adding")

\* add_edge of a blocking edge, up to the append: the file is read and the
\* check passed.  (A check that fails ends the call with nothing written.)
BeginAdd(p, e) ==
  /\ Idle(p)
  /\ IsBlocking(e)
  /\ Readable(log) /\ CycleFree(Live(log), e)
  /\ Begin(p, e, "adding")
  /\ raced' = (raced \/ \E q \in Proc : pc[q] = "adding")

\* remove_edge, up to the append: the edge was found among the live ones.
BeginRemove(p, e) ==
  /\ Idle(p)
  /\ Readable(log) /\ e \in Live(log)
  /\ Begin(p, e, "removing")
  /\ UNCHANGED raced

\* A line at the end of the file, or run into one that has no newline.
Extended(line) ==
  IF open THEN [log EXCEPT ![Len(log)] = Bad] ELSE Append(log, line)

\* append_raw: one write of one line, which succeeds.
AppendRaw(e, removed) ==
  /\ log' = Extended([edge |-> e, removed |-> removed])
  /\ open' = FALSE
  /\ UNCHANGED fails

\* The write fails, or the process dies in it or before it: nothing is written,
\* a part of the line, or all of it but the newline.
AppendFails(e, removed) ==
  /\ fails < MaxFails
  /\ fails' = fails + 1
  /\ \/ UNCHANGED <<log, open>>
     \/ /\ log' \in {Extended(Bad), Extended([edge |-> e, removed |-> removed])}
        /\ open' = TRUE

\* add_edge of an edge that is not blocking: appended without a read.
AddUnchecked(p, e) ==
  /\ Idle(p)
  /\ ~ IsBlocking(e)
  /\ AppendRaw(e, FALSE)
  /\ UNCHANGED <<pc, arg, raced>>

AddUncheckedFails(p, e) ==
  /\ Idle(p)
  /\ ~ IsBlocking(e)
  /\ AppendFails(e, FALSE)
  /\ UNCHANGED <<pc, arg, raced>>

Return(p) ==
  /\ pc' = [pc EXCEPT ![p] = "idle"]
  /\ UNCHANGED <<arg, raced>>

EndAdd(p) == pc[p] = "adding" /\ AppendRaw(arg[p], FALSE) /\ Return(p)

EndRemove(p) == pc[p] = "removing" /\ AppendRaw(arg[p], TRUE) /\ Return(p)

AddFails(p) == pc[p] = "adding" /\ AppendFails(arg[p], FALSE) /\ Return(p)

RemoveFails(p) == pc[p] = "removing" /\ AppendFails(arg[p], TRUE) /\ Return(p)

Next ==
  \E p \in Proc :
    \/ \E e \in Offered : \/ BeginAdd(p, e) \/ BeginRemove(p, e)
                         \/ AddUnchecked(p, e) \/ AddUncheckedFails(p, e)
    \/ EndAdd(p) \/ EndRemove(p)
    \/ AddFails(p) \/ RemoveFails(p)

Spec == Init /\ [][Next]_vars

-----------------------------------------------------------------------------
TypeOK ==
  /\ log \in Seq(Line \cup {Bad})
  /\ open \in BOOLEAN
  /\ pc \in [Proc -> {"idle", "adding", "removing"}]
  /\ arg \in [Proc -> Offered]
  /\ raced \in BOOLEAN
  /\ fails \in Nat
  /\ \A p \in Proc : pc[p] = "adding" => IsBlocking(arg[p])

\* Unless two checked additions overlapped, the blocking edges that can be read
\* form no cycle, however many processes add, remove and re-add edges of every
\* type, and whatever their failed writes leave.
NoCycle == ~ raced /\ Readable(log) => Acyclic(Arcs(Live(log)))

\* A call that returns Ok has taken effect whatever the other processes did
\* between its read and its append: an edge can come back after a removal, and a
\* removal undoes an addition it never saw.  Only where an earlier write has
\* failed may the file be unreadable instead.
CallsTakeEffect ==
  [][\A p \in Proc :
       /\ EndAdd(p) \/ EndRemove(p) => Readable(log') \/ fails > 0
       /\ EndAdd(p) /\ Readable(log') => arg[p] \in Live(log')
       /\ EndRemove(p) /\ Readable(log') => arg[p] \notin Live(log')]_vars

\* What readers have of the file: nothing, if they get an error.
ReadBack == IF Readable(log) THEN Live(log) ELSE {}

Promise == INSTANCE DepPromise WITH edges <- ReadBack

\* Until additions overlap or the file cannot be read, it implements the promise:
\* the edges read back change by whole calls, each of them allowed when it takes
\* effect.  A call that fails has taken effect or has not.
KeepsPromise ==
  Promise!Init /\ [][raced' \/ ~ Readable(log') \/ Promise!Next]_ReadBack

-----------------------------------------------------------------------------
\* README.md: "Add edge (rejects cycles on blocking edges)".  Two processes
\* that check at once both pass.
NeverCycle == Readable(log) => Acyclic(Arcs(Live(log)))
=============================================================================
