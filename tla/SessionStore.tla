----------------------------- MODULE SessionStore -----------------------------
(***************************************************************************)
(* The session store (src/session_store.rs): one transcript per session, a *)
(* header line and then events, and a rotation that moves the transcripts  *)
(* of closed sessions to an archive.  Several processes share the store    *)
(* and nothing is locked: append_event reads the transcript, then its      *)
(* size, then opens it, then writes; rotate reads all transcripts and then *)
(* renames some of them, by name.                                          *)
(*                                                                         *)
(* `files` are the files themselves, `live` and `archive` the names they   *)
(* have: a process that has a file open goes on writing to it under its    *)
(* new name.  Sizes are counted in lines; every line is one unit long, and *)
(* a part of a line counts as a whole one.                                 *)
(***************************************************************************)
EXTENDS Session, FiniteSets

CONSTANTS
  Proc,
  Id,
  Offered,       \* the events that callers append
  Header,        \* a first line that parses
  Bad,           \* text that does not parse
  MaxFileBytes,  \* retention.max_file_bytes
  RotateAfter,   \* retention.rotate_after_days
  Month,         \* the length of a month
  MaxFiles,      \* bounds: sessions created,
  MaxNow,        \* ticks of the clock,
  MaxFails       \* failed writes

\* `base` is a ghost: how many lines of the file its writer had read.
Line == [event : SessionEvent, base : Nat]

Text == Line \cup {Header, Bad}

ASSUME OfferedAssumption == Offered \subseteq SessionEvent
ASSUME ProcAssumption == IsFiniteSet(Proc)
ASSUME TextAssumption == Header \notin Line /\ Bad \notin Line /\ Header # Bad
ASSUME BoundsAssumption ==
  /\ MaxFileBytes \in Nat /\ RotateAfter \in Nat /\ Month \in Nat \ {0}
  /\ MaxFiles \in Nat /\ MaxNow \in Nat /\ MaxFails \in Nat

VARIABLES
  files,     \* every transcript ever created, in the order of creation
  live,      \* <root>/<id>.jsonl: which of them, 0 if there is none
  archive,   \* <root>/archive/<month>/<id>.jsonl: entries [month, id, file]
  now,
  job,       \* what each process is doing
  fails      \* ghost: how many writes have failed

vars == <<files, live, archive, now, job, fails>>

Idle == [step |-> "idle"]

-----------------------------------------------------------------------------
(* Reading a transcript.                                                   *)

\* load returns a snapshot.
Loadable(f) ==
  LET s == files[f].lines
  IN s # <<>> /\ s[1] = Header /\ \A i \in 2 .. Len(s) : s[i] \in Line

\* read_meta returns a value: only the header has to parse.
Listed(f) == files[f].lines # <<>> /\ files[f].lines[1] = Header

Greatest(S) == CHOOSE i \in S : \A j \in S : j <= i

\* read_meta skips what does not parse.  The status: the last one that is named.
StatusOf(s) ==
  LET named == {i \in DOMAIN s : s[i] \in Line /\ s[i].event.type = "StatusChanged"}
  IN IF named = {} THEN "Active" ELSE s[Greatest(named)].event.to

\* load folds its snapshot to the same status: SnapshotAgrees.
ClosedBy(f) == StatusOf(files[f].lines) = "Closed"

\* The time of the last event that has one, otherwise of the creation.
AgeAnchor(f) ==
  LET s == files[f].lines
      timed == {i \in DOMAIN s : s[i] \in Line /\ Timed(s[i].event)}
  IN IF timed = {} THEN files[f].createdAt ELSE s[Greatest(timed)].event.at

-----------------------------------------------------------------------------
(* Writing to one.                                                         *)

\* Text t appended to file f, with or without its newline.  On an end without
\* a newline it runs into the last line, which then does not parse.
Appended(f, t, whole) ==
  LET s == files[f].lines
  IN [files EXCEPT ![f].lines = IF files[f].open THEN [s EXCEPT ![Len(s)] = Bad]
                                                 ELSE Append(s, t),
                   ![f].open = ~ whole,
                   ![f].size = @ + 1]

\* What the header leaves when it is written over the start of s.  A process
\* that was about to append to an archived session of the same id may have
\* written there first.
Over(s) ==
  LET tails == {SubSeq(s, k, Len(s)) : k \in 2 .. Len(s) + 1}
  IN IF s = <<>> THEN {<<Header>>}
     ELSE {<<Header>> \o t : t \in tails} \cup {<<Header, Bad>> \o t : t \in tails}

Fail == fails < MaxFails /\ fails' = fails + 1

Goto(p, j) == job' = [job EXCEPT ![p] = j]

-----------------------------------------------------------------------------
Init ==
  /\ files = <<>>
  /\ live = [id \in Id |-> 0]
  /\ archive = {}
  /\ now = 0
  /\ job = [p \in Proc |-> Idle]
  /\ fails = 0

Tick ==
  /\ now < MaxNow
  /\ now' = now + 1
  /\ UNCHANGED <<files, live, archive, job, fails>>

-----------------------------------------------------------------------------
(* create.                                                                 *)

\* Mutant: an existing transcript is replaced.
Create_Replaces(p, id) ==
  /\ job[p] = Idle
  /\ Len(files) < MaxFiles
  /\ files' = Append(files, [id |-> id, lines |-> <<>>, size |-> 0, open |-> FALSE,
                             createdAt |-> now])
  /\ live' = [live EXCEPT ![id] = Len(files) + 1]
  /\ Goto(p, [step |-> "header", file |-> Len(files) + 1])
  /\ UNCHANGED <<archive, now, fails>>

\* The file is made, unless there is one; create_new makes that one step.
Create(p, id) ==
  /\ job[p] = Idle
  /\ Len(files) < MaxFiles
  /\ live[id] = 0
  /\ files' = Append(files, [id |-> id, lines |-> <<>>, size |-> 0, open |-> FALSE,
                             createdAt |-> now])
  /\ live' = [live EXCEPT ![id] = Len(files) + 1]
  /\ Goto(p, [step |-> "header", file |-> Len(files) + 1])
  /\ UNCHANGED <<archive, now, fails>>

\* The header is written, at the start of the file.
WriteHeader(p) ==
  /\ job[p].step = "header"
  /\ LET f == job[p].file
     IN \E s \in Over(files[f].lines) :
          files' = [files EXCEPT ![f].lines = s, ![f].size = IF @ = 0 THEN 1 ELSE @]
  /\ Goto(p, Idle)
  /\ UNCHANGED <<live, archive, now, fails>>

\* It is not: the file stays as it is, or gets a part of the header, or all but
\* the newline.
HeaderFails(p) ==
  /\ job[p].step = "header"
  /\ LET f == job[p].file
         s == files[f].lines
     IN \/ UNCHANGED files
        \/ /\ s = <<>>
           /\ \E t \in {Header, Bad} : files' = Appended(f, t, FALSE)
        \/ /\ s # <<>>
           /\ files' = [files EXCEPT ![f].lines = [s EXCEPT ![1] = Bad]]
  /\ Goto(p, Idle)
  /\ Fail
  /\ UNCHANGED <<live, archive, now>>

-----------------------------------------------------------------------------
(* append_event; close is an append of a StatusChanged to Closed.          *)

\* Mutant: the status is not looked at.
Load_AnyStatus(p, id, event) ==
  LET f == live[id]
  IN /\ job[p] = Idle
     /\ f # 0
     /\ Loadable(f)
     /\ Goto(p, [step |-> "measure", id |-> id, event |-> [event EXCEPT !.at = now],
                 file |-> f, base |-> Len(files[f].lines)])
     /\ UNCHANGED <<files, live, archive, now, fails>>

\* The transcript is read; a closed session is refused, as is one that does not
\* load.  The caller has stamped the event just before.
Load(p, id, event) ==
  LET f == live[id]
  IN /\ job[p] = Idle
     /\ f # 0
     /\ Loadable(f)
     /\ ~ ClosedBy(f)
     /\ Goto(p, [step |-> "measure", id |-> id, event |-> [event EXCEPT !.at = now],
                 file |-> f, base |-> Len(files[f].lines)])
     /\ UNCHANGED <<files, live, archive, now, fails>>

\* Mutant: the size before the append is compared, not the one after it.
Measure_Before(p) ==
  LET f == live[job[p].id]
  IN /\ job[p].step = "measure"
     /\ Goto(p, IF f # 0 /\ files[f].size <= MaxFileBytes
                THEN [job[p] EXCEPT !.step = "open"] ELSE Idle)
     /\ UNCHANGED <<files, live, archive, now, fails>>

\* The size is read, of the file that has the name now.
Measure(p) ==
  LET f == live[job[p].id]
  IN /\ job[p].step = "measure"
     /\ Goto(p, IF f # 0 /\ files[f].size + 1 <= MaxFileBytes
                THEN [job[p] EXCEPT !.step = "open"] ELSE Idle)
     /\ UNCHANGED <<files, live, archive, now, fails>>

\* Mutant: that the file is missing goes unnoticed.
Open_Unchecked(p) ==
  LET f == live[job[p].id]
  IN /\ job[p].step = "open"
     /\ Goto(p, [step |-> "write", file |-> f, event |-> job[p].event,
                 base |-> IF f = job[p].file THEN job[p].base ELSE 0])
     /\ UNCHANGED <<files, live, archive, now, fails>>

\* The file is opened, not created.  The file may be another than was read.
Open(p) ==
  LET f == live[job[p].id]
  IN /\ job[p].step = "open"
     /\ Goto(p, IF f = 0 THEN Idle
                ELSE [step |-> "write", file |-> f, event |-> job[p].event,
                      base |-> IF f = job[p].file THEN job[p].base ELSE 0])
     /\ UNCHANGED <<files, live, archive, now, fails>>

NewLine(p) == [event |-> job[p].event, base |-> job[p].base]

Write(p) ==
  /\ job[p].step = "write"
  /\ files' = Appended(job[p].file, NewLine(p), TRUE)
  /\ Goto(p, Idle)
  /\ UNCHANGED <<live, archive, now, fails>>

\* Nothing, a part of the line, or all but the newline is written.
WriteFails(p) ==
  /\ job[p].step = "write"
  /\ \/ UNCHANGED files
     \/ \E t \in {NewLine(p), Bad} : files' = Appended(job[p].file, t, FALSE)
  /\ Goto(p, Idle)
  /\ Fail
  /\ UNCHANGED <<live, archive, now>>

-----------------------------------------------------------------------------
(* rotate.                                                                 *)

\* Mutant: idle sessions are archived as well.
Eligible_Idle(f) ==
  /\ Listed(f)
  /\ StatusOf(files[f].lines) # "Active"
  /\ AgeAnchor(f) + RotateAfter <= now

Eligible(f) == Listed(f) /\ ClosedBy(f) /\ AgeAnchor(f) + RotateAfter <= now

\* All transcripts are read, and what to move is decided.
List(p) ==
  LET due == {id \in Id : live[id] # 0 /\ Eligible(live[id])}
  IN /\ job[p] = Idle
     /\ due # {}
     /\ Goto(p, [step |-> "rename",
                 todo |-> {[month |-> AgeAnchor(live[id]) \div Month, id |-> id] : id \in due}])
     /\ UNCHANGED <<files, live, archive, now, fails>>

\* The entries other than those of one name.
Besides(name) == {a \in archive : a.month # name.month \/ a.id # name.id}

\* One transcript is renamed, over one of the same name in the archive.  If it
\* is not there any more rotate returns the error and leaves the rest.
Rename(p) ==
  /\ job[p].step = "rename"
  /\ \E name \in job[p].todo :
       IF live[name.id] # 0
       THEN /\ archive' = Besides(name) \cup
                            {[month |-> name.month, id |-> name.id, file |-> live[name.id]]}
            /\ live' = [live EXCEPT ![name.id] = 0]
            /\ Goto(p, IF job[p].todo = {name} THEN Idle
                       ELSE [job[p] EXCEPT !.todo = @ \ {name}])
       ELSE /\ Goto(p, Idle)
            /\ UNCHANGED <<archive, live>>
  /\ UNCHANGED <<files, now, fails>>

-----------------------------------------------------------------------------
Step(p) ==
  \/ \E id \in Id : Create(p, id)
  \/ WriteHeader(p) \/ HeaderFails(p)
  \/ \E id \in Id : \E event \in Offered : Load(p, id, event)
  \/ Measure(p) \/ Open(p) \/ Write(p) \/ WriteFails(p)
  \/ List(p) \/ Rename(p)

Next == Tick \/ \E p \in Proc : Step(p)

Spec == Init /\ [][Next]_vars

-----------------------------------------------------------------------------
Transcript == [id : Id, lines : Seq(Text), size : Nat, open : BOOLEAN, createdAt : Nat]

FileNo == 1 .. Len(files)

Job ==
  {Idle}
    \cup [step : {"header"}, file : FileNo]
    \cup [step : {"measure", "open"}, id : Id, event : SessionEvent, file : FileNo, base : Nat]
    \cup [step : {"write"}, event : SessionEvent, file : FileNo, base : Nat]
    \cup [step : {"rename"}, todo : SUBSET [month : Nat, id : Id]]

TypeOK ==
  /\ files \in Seq(Transcript)
  /\ live \in [Id -> {0} \cup FileNo]
  /\ archive \subseteq [month : Nat, id : Id, file : FileNo]
  /\ now \in Nat
  /\ job \in [Proc -> Job]
  /\ fails \in Nat
  /\ \A f \in FileNo : files[f].open => files[f].lines # <<>>

\* The cap on the size of a transcript is passed by writers that measure before
\* the others have written, and then by one line each at most.
CapOvershoot ==
  \A f \in FileNo :
    files[f].size <= (IF MaxFileBytes = 0 THEN 1 ELSE MaxFileBytes) + Cardinality(Proc) - 1

\* A closed session takes no more events, but from a writer that had read the
\* transcript before the close: whatever follows a closing line, and may well
\* reopen the session, follows such a writer's line.
ClosedIsFinal ==
  \A f \in FileNo : \A i \in DOMAIN files[f].lines :
    LET s == files[f].lines
    IN s[i] \in Line /\ Closes(s[i].event) /\ i < Len(s)
       => s[i + 1] = Bad \/ s[i + 1].base < i

\* Only sessions that were closed are archived, although rotate goes by name and
\* by what it read before: the exceptions are an id that was created anew in
\* between, and a closing line without newline that another write ran into.
ArchivedWasClosed ==
  \A a \in archive :
    LET s == files[a.file].lines
    IN \/ \E i \in DOMAIN s : s[i] = Bad \/ (s[i] \in Line /\ Closes(s[i].event))
       \/ \E f \in FileNo : f < a.file /\ files[f].id = a.id

\* Rotation and creation lose no transcript: each one is still live or archived,
\* or a later one of its id was archived over it.
TranscriptsKept ==
  \A f \in FileNo :
    \/ live[files[f].id] = f
    \/ \E a \in archive : a.id = files[f].id /\ (a.file = f \/ a.file > f)

-----------------------------------------------------------------------------
(* What the snapshot of a transcript should be.                            *)

\* The events that load finds in a transcript that it can read.
EventsOf(f) == [i \in 1 .. Len(files[f].lines) - 1 |-> files[f].lines[i + 1].event]

Turns(events) == {i \in DOMAIN events : events[i].type = "UserMessage"}

Charges(events) == {i \in DOMAIN events : events[i].type = "Usage"}

TokensCharged(events) ==
  LET sum[n \in 0 .. Len(events)] ==
        IF n = 0 THEN 0
        ELSE sum[n - 1] + (IF n \in Charges(events) THEN events[n].usage.tokens ELSE 0)
  IN sum[Len(events)]

Saturated(n) == IF n > MaxCount THEN MaxCount ELSE n

\* The two readers of a transcript, load and read_meta, agree on its status, and
\* the snapshot that load folds together tells the turns and the last close, and
\* the usage as long as it was charged in one currency.
SnapshotAgrees ==
  \A f \in FileNo :
    Loadable(f) =>
      LET events == EventsOf(f)
          session == Snapshot(events)
          closings == {i \in DOMAIN events : Closes(events[i])}
          currencies == {events[i].usage.currency : i \in Charges(events)}
      IN /\ session.status = StatusOf(files[f].lines)
         /\ session.turnCount = Saturated(Cardinality(Turns(events)))
         /\ session.totalUsage.tokens = Saturated(TokensCharged(events))
         /\ \A c \in Currency : currencies = {c} => session.totalUsage.currency = c
         /\ (closings = {}) = (session.closedAt = NotClosed)
         /\ \A i \in closings :
              (\A j \in closings : j <= i) => session.closedAt = events[i].at
=============================================================================
