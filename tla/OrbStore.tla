------------------------------- MODULE OrbStore ------------------------------
(***************************************************************************)
(* The orb store (OrbStore of src/orb_store.rs) in a JSONL file shared by  *)
(* several processes of the command line (cmd_create, cmd_update and       *)
(* cmd_delete of cli/src/main.rs).  Create appends without reading; update *)
(* and delete read the file, change their copy of the orb and append it.   *)
(* Nothing locks the file in between, and a write may fail or be cut short *)
(* by a crash.                                                             *)
(***************************************************************************)
EXTENDS OrbRecord, Sequences, FiniteSets

CONSTANTS
  Proc,       \* the processes
  OrbId,      \* the ids that Orb::new may hash to
  NewOrbs,    \* the orbs that create builds
  Bad,        \* a line that does not parse
  MaxLines,   \* bound: no command starts on a file of this many lines
  MaxFails    \* bound: writes that fail

ASSUME NewOrbsAssumption ==
  NewOrbs \subseteq {NewOrb(u, h, d) : u, h, d \in BOOLEAN}

Line == [id : OrbId, orb : Orb]

ASSUME BadAssumption == Bad \notin Line
ASSUME BoundsAssumption == MaxLines \in Nat /\ MaxFails \in Nat

VARIABLES
  lines,   \* the file
  open,    \* the last line lacks its newline
  held,    \* per process: the line it is about to append, Bad between commands
  base,    \* per process: the line its orb was read from, 0 for a new orb
  acked,   \* ghost: how many appends have returned Ok
  fails,   \* how many did not
  stale    \* ghost: ids written from something else than their latest line

vars == <<lines, open, held, base, acked, fails, stale>>

-----------------------------------------------------------------------------
(* Reading.                                                                *)

\* load_all_including_tombstoned: one line that does not parse fails the read.
Readable == \A i \in DOMAIN lines : lines[i] # Bad

\* Mutant: the first line of an id wins.
IsLatest_First(i) ==
  /\ lines[i] # Bad
  /\ \A j \in DOMAIN lines : lines[j] # Bad /\ lines[j].id = lines[i].id => j >= i

\* Line i parses, and no later line has its id.
IsLatest(i) ==
  /\ lines[i] # Bad
  /\ \A j \in DOMAIN lines : lines[j] # Bad /\ lines[j].id = lines[i].id => j <= i

\* Mutant: tombstoned orbs are found too.
Loaded_Tombstoned(i) == Readable /\ IsLatest(i)

\* load_by_id finds the orb of line i: it is the latest and not tombstoned.
Loaded(i) == Readable /\ IsLatest(i) /\ ~ IsTombstoned(lines[i].orb)

-----------------------------------------------------------------------------
(* What the commands make of an orb.                                       *)

\* parse_phase knows no name for ExecutingChildren.
NamedPhase == OrbPhase \ {"ExecutingChildren"}

\* Mutant: the setter is chosen by the value asked for, not by the orb's type.
ApplyLifecycle_AnySetter(o) ==
  {SetPhase(o, p) : p \in {q \in NamedPhase : PhaseTransitionAllowed(o.phase, q)}}
    \cup {SetStatus(o, s) : s \in {t \in OrbStatus : StatusTransitionAllowed(o.status, t)}}

ApplyLifecycle(o) ==
  IF o.usesPhase
  THEN {SetPhase(o, p) : p \in {q \in NamedPhase : PhaseTransitionAllowed(o.phase, q)}}
  ELSE {SetStatus(o, s) : s \in {t \in OrbStatus : StatusTransitionAllowed(o.status, t)}}

\* cmd_update: an optional change of state, then defer or undefer or neither.
\* (An update of the other fields only leaves the lifecycle as it is.)
Updates(o) ==
  LET set == {o} \cup ApplyLifecycle(o)
  IN set \cup {Defer(x) : x \in {y \in set : CanDefer(y)}}
         \cup {Undefer(x) : x \in set}

\* What one command may write over an orb.
Edits(o) == Updates(o) \cup {TombstoneOrb(o)}

-----------------------------------------------------------------------------
Init ==
  /\ lines = <<>>
  /\ open = FALSE
  /\ held = [p \in Proc |-> Bad]
  /\ base = [p \in Proc |-> 0]
  /\ acked = 0
  /\ fails = 0
  /\ stale = {}

Begin(p, line, from) ==
  /\ held[p] = Bad
  /\ Len(lines) < MaxLines
  /\ held' = [held EXCEPT ![p] = line]
  /\ base' = [base EXCEPT ![p] = from]
  /\ UNCHANGED <<lines, open, acked, fails, stale>>

\* cmd_create: the id is a hash of title, description and clock, generated
\* against an empty set of existing ids, so it can be any id.
Create(p, id, o) == Begin(p, [id |-> id, orb |-> o], 0)

Update(p, i) ==
  /\ Loaded(i)
  /\ \E o \in Updates(lines[i].orb) : Begin(p, [id |-> lines[i].id, orb |-> o], i)

Delete(p, i) ==
  /\ Loaded(i)
  /\ Begin(p, [id |-> lines[i].id, orb |-> TombstoneOrb(lines[i].orb)], i)

\* Mutants: a new version overwrites the last line; a write over a torn end
\* takes the line before with it.
Extended_Overwrites(l) ==
  IF lines = <<>> THEN <<l>> ELSE [lines EXCEPT ![Len(lines)] = l]

Extended_LosesTwo(l) ==
  IF open THEN [i \in DOMAIN lines |-> IF i < Len(lines) - 1 THEN lines[i] ELSE Bad]
          ELSE Append(lines, l)

\* The file with one more line written at its end: on an end without a newline
\* the two run together, and do not parse.
Extended(l) ==
  IF open THEN [lines EXCEPT ![Len(lines)] = Bad] ELSE Append(lines, l)

\* The line about to be appended was made from the latest of its id, or is the
\* first of its id.
Fresh(p) ==
  IF base[p] = 0
  THEN \A i \in DOMAIN lines : lines[i] # Bad => lines[i].id # held[p].id
  ELSE IsLatest(base[p])

Land(p) ==
  /\ lines' = Extended(held[p])
  /\ stale' = IF Fresh(p) THEN stale ELSE stale \cup {held[p].id}

Finish(p) ==
  /\ held' = [held EXCEPT ![p] = Bad]
  /\ base' = [base EXCEPT ![p] = 0]

\* append: one write of the line and its newline, and Ok.
EndAppend(p) ==
  /\ held[p] # Bad
  /\ Land(p)
  /\ open' = FALSE
  /\ acked' = acked + 1
  /\ Finish(p)
  /\ UNCHANGED fails

\* The write is cut short, by an error or a crash of the process: before the
\* first byte, inside the line, or just before its newline.
FailAppend(p) ==
  /\ held[p] # Bad
  /\ fails < MaxFails
  /\ fails' = fails + 1
  /\ \/ UNCHANGED <<lines, open, stale>>
     \/ lines' = Extended(Bad) /\ open' = TRUE /\ UNCHANGED stale
     \/ Land(p) /\ open' = TRUE
  /\ Finish(p)
  /\ UNCHANGED acked

Next ==
  \E p \in Proc :
    \/ \E id \in OrbId, o \in NewOrbs : Create(p, id, o)
    \/ \E i \in DOMAIN lines : Update(p, i) \/ Delete(p, i)
    \/ EndAppend(p)
    \/ FailAppend(p)

Spec == Init /\ [][Next]_vars

-----------------------------------------------------------------------------
Sound(i) == lines[i] # Bad

SameOrb(i, j) == Sound(i) /\ Sound(j) /\ lines[i].id = lines[j].id

\* The lifecycle field an orb uses is the one of its type.
TypedLifecycle(o) ==
  IF o.usesPhase THEN o.status = None /\ o.phase # None
                 ELSE o.status # None /\ o.phase = None

TypeOK ==
  /\ lines \in Seq(Line \cup {Bad})
  /\ open \in BOOLEAN
  /\ held \in [Proc -> Line \cup {Bad}]
  /\ base \in [Proc -> Nat]
  /\ acked \in Nat /\ fails \in Nat
  /\ stale \in SUBSET OrbId
  /\ open => lines # <<>>
  /\ \A i \in DOMAIN lines : Sound(i) => TypedLifecycle(lines[i].orb)

\* The file is append-only: no command, finished or cut short, alters a line
\* that ends in a newline.
AppendOnly ==
  [][\A i \in DOMAIN lines :
       (i < Len(lines) \/ ~ open) => i \in DOMAIN lines' /\ lines'[i] = lines[i]]_vars

\* An orb that every command wrote from its latest line has a history of legal
\* steps: each version is what one command makes of the one before.  Writes
\* that failed but reached the file count as versions too.
HistoryIsLegal ==
  \A i, j \in DOMAIN lines :
    /\ i < j /\ SameOrb(i, j) /\ lines[i].id \notin stale
    /\ \A k \in i + 1 .. j - 1 : ~ SameOrb(i, k)
    => lines[j].orb \in Edits(lines[i].orb)

\* Nothing is written over a deleted orb except by a command that read it
\* before the deletion (or made its id anew).
DeletedStaysDeleted ==
  \A i, j \in DOMAIN lines :
    i < j /\ SameOrb(i, j) /\ IsTombstoned(lines[i].orb) => lines[i].id \in stale

\* A write that fails costs at most one line that does not parse and at most
\* one line whose append was acknowledged, whoever wrote it; without failures
\* the file can be read.
OneLossPerFailure ==
  /\ Cardinality({i \in DOMAIN lines : ~ Sound(i)}) <= fails
  /\ Cardinality({i \in DOMAIN lines : Sound(i)}) >= acked - fails

-----------------------------------------------------------------------------
\* The doc comments of OrbId::generate ("checking for collisions against
\* `existing`") and of OrbStore::existing_ids ("for collision checking during
\* ID generation"): a new orb gets an id of its own.
CreateIsFresh ==
  [][\A p \in Proc :
       held[p] # Bad /\ held'[p] = Bad /\ base[p] = 0 /\ acked' > acked
         => \A i \in DOMAIN lines : Sound(i) => lines[i].id # held[p].id]_vars
=============================================================================
