------------------------------ MODULE AuditStore ------------------------------
(***************************************************************************)
(* The audit trail (src/audit_store.rs, src/audit.rs): events.jsonl and    *)
(* comments.jsonl, both appended to by several processes.  add_comment     *)
(* writes the comment and then an event to the other file; a caller that   *)
(* got an error may pass the same comment again.  In a pipeline directory  *)
(* the events are also in the snapshots that recovery restores, and the    *)
(* comments are not (src/pipeline.rs).  A recovery truncates the events    *)
(* and then writes the snapshot at the start of the file; others may       *)
(* append in between.                                                      *)
(*                                                                         *)
(* Of an event the model keeps its type, its time stamp and, of a          *)
(* Commented one, whose body it has; the helpers log_creation to           *)
(* log_tombstoned differ in the type and the text only.                    *)
(***************************************************************************)
EXTENDS Integers, Sequences, FiniteSets

CONSTANTS
  Proc,
  CommentId,
  NoComment,
  Logged,      \* the types of event that callers log
  Bad,         \* text that does not parse
  MaxEvents,   \* bounds: no call begins on so many lines of events,
  MaxNow,      \* ticks of the clock,
  MaxFails,    \* failed writes,
  MaxRecoveries

EventType == {"Created", "StatusChanged", "PhaseChanged", "PriorityChanged", "Assigned",
              "Commented", "DepAdded", "DepRemoved", "Deferred", "Undeferred",
              "Tombstoned", "ConfidenceRecorded"}

\* The ghost `late`: since the event was made another has been appended.
AuditEvent == [type : EventType, comment : CommentId \cup {NoComment},
               at : Nat, late : BOOLEAN]

Comment == [id : CommentId, at : Nat]

Text == AuditEvent \cup Comment \cup {Bad}

ASSUME CommentIdAssumption == IsFiniteSet(CommentId) /\ NoComment \notin CommentId
ASSUME LoggedAssumption == Logged \subseteq EventType \ {"Commented"}
ASSUME TextAssumption == Bad \notin AuditEvent \cup Comment
ASSUME BoundsAssumption ==
  MaxEvents \in Nat /\ MaxNow \in Nat /\ MaxFails \in Nat /\ MaxRecoveries \in Nat

VARIABLES
  events, comments,  \* the files: [lines, open], open: no newline at the end
  snap,              \* the events in the latest snapshot, the first one being
                     \* of the empty file
  job,               \* per process: the text it is about to append, Bad if none
  call,              \* per comment: "new", "adding", "failed", "added"
  now,
  recovery,          \* per process: the step of recover_pipeline that it is at,
                     \* and the events that it restores
  fails,             \* ghosts: how many writes have failed,
  recoveries,        \* how many recoveries have begun, and what has fallen
  seen               \* into one: an append ("raced") or another ("overlap")

vars == <<events, comments, snap, job, call, now, recovery, fails, recoveries, seen>>

Empty == [lines |-> <<>>, open |-> FALSE]

NoRecovery == [step |-> "none", from |-> Empty]

Idle(p) == job[p] = Bad /\ recovery[p].step = "none"

IsComment(t) == t # Bad /\ "id" \in DOMAIN t

IsEvent(t) == t # Bad /\ "type" \in DOMAIN t

\* The comment a text belongs to.
CommentOf(t) == IF IsComment(t) THEN t.id ELSE t.comment

\* append_jsonl on an end without newline runs into the last line.
Extended(f, t, whole) ==
  [lines |-> IF f.open THEN [f.lines EXCEPT ![Len(f.lines)] = Bad] ELSE Append(f.lines, t),
   open |-> ~ whole]

\* Content c written at the start of a file that holds s: c covers s, of which a
\* tail may stick out behind it, from the start of a line (or the newline before
\* it) or from the middle of one.
Over(c, s) ==
  LET tails == {SubSeq(s.lines, k, Len(s.lines)) : k \in 2 .. Len(s.lines) + 1}
      behind(head, tail) == [lines |-> head \o tail, open |-> s.open]
  IN IF c.lines = <<>> THEN {s}
     ELSE {c} \cup {behind(c.lines, t) : t \in {u \in tails : s.open => u # <<>>}}
              \cup {behind(Extended(c, Bad, TRUE).lines, t) : t \in tails}

-----------------------------------------------------------------------------
Init ==
  /\ events = Empty
  /\ comments = Empty
  /\ snap = Empty
  /\ job = [p \in Proc |-> Bad]
  /\ call = [c \in CommentId |-> "new"]
  /\ now = 0
  /\ recovery = [p \in Proc |-> NoRecovery]
  /\ fails = 0
  /\ recoveries = 0
  /\ seen = {}

\* The clock does not go back.
Tick ==
  /\ now < MaxNow
  /\ now' = now + 1
  /\ UNCHANGED <<events, comments, snap, job, call, recovery, fails, recoveries, seen>>

NewEvent(type, comment) ==
  [type |-> type, comment |-> comment, at |-> now, late |-> FALSE]

Begin(p, t) ==
  /\ Idle(p)
  /\ Len(events.lines) < MaxEvents
  /\ job' = [job EXCEPT ![p] = t]
  /\ UNCHANGED <<events, comments, snap, now, recovery, fails, recoveries, seen>>

\* One of the helpers log_...: an event is made, with the time, to be appended.
Log(p, type) == Begin(p, NewEvent(type, NoComment)) /\ UNCHANGED call

\* add_comment with a new comment, or with one that it failed on before.
AddComment(p, c) ==
  /\ call[c] \in {"new", "failed"}
  /\ Begin(p, [id |-> c, at |-> now])
  /\ call' = [call EXCEPT ![c] = "adding"]

\* Mutants: the event has the time of the comment; the comment goes to the
\* wrong file.
CommentAppended_OneTime(p) ==
  /\ IsComment(job[p])
  /\ comments' = Extended(comments, job[p], TRUE)
  /\ job' = [job EXCEPT ![p] = [NewEvent("Commented", job[p].id) EXCEPT !.at = job[p].at]]
  /\ UNCHANGED <<events, snap, call, now, recovery, fails, recoveries, seen>>

CommentAppended_ToEvents(p) ==
  /\ IsComment(job[p])
  /\ events' = Extended(events, job[p], TRUE)
  /\ job' = [job EXCEPT ![p] = NewEvent("Commented", job[p].id)]
  /\ UNCHANGED <<comments, snap, call, now, recovery, fails, recoveries, seen>>

\* The comment is in its file: now its event is made, with a time of its own.
CommentAppended(p) ==
  /\ IsComment(job[p])
  /\ comments' = Extended(comments, job[p], TRUE)
  /\ job' = [job EXCEPT ![p] = NewEvent("Commented", job[p].id)]
  /\ UNCHANGED <<events, snap, call, now, recovery, fails, recoveries, seen>>

\* Process p is done, and has appended an event if that says so.
Done(p, appended) ==
  job' = [q \in Proc |->
            IF q = p THEN Bad
            ELSE IF appended /\ IsEvent(job[q]) THEN [job[q] EXCEPT !.late = TRUE]
            ELSE job[q]]

\* "raced": the events grow while a recovery has truncated and not refilled them.
NoteRace ==
  seen' = seen \cup IF events' # events /\ \E p \in Proc : recovery[p].step = "refill"
                     THEN {"raced"} ELSE {}

EventAppended(p) ==
  /\ IsEvent(job[p])
  /\ events' = Extended(events, job[p], TRUE)
  /\ Done(p, TRUE)
  /\ call' = [c \in CommentId |-> IF c = job[p].comment THEN "added" ELSE call[c]]
  /\ NoteRace
  /\ UNCHANGED <<comments, snap, now, recovery, fails, recoveries>>

\* What a failed write leaves of a text: nothing, a part, or all but the newline.
Remains(f, t) == {f, Extended(f, Bad, FALSE), Extended(f, t, FALSE)}

\* Mutant: add_comment goes on although its first write failed.
AppendFails_GoesOn(p) ==
  /\ job[p] # Bad
  /\ fails < MaxFails
  /\ fails' = fails + 1
  /\ IF IsComment(job[p])
     THEN /\ comments' \in Remains(comments, job[p])
          /\ job' = [job EXCEPT ![p] = NewEvent("Commented", job[p].id)]
          /\ UNCHANGED <<events, call>>
     ELSE /\ events' \in Remains(events, job[p])
          /\ Done(p, events' # events)
          /\ call' = [c \in CommentId |-> IF c = job[p].comment THEN "failed" ELSE call[c]]
          /\ UNCHANGED comments
  /\ NoteRace
  /\ UNCHANGED <<snap, now, recovery, recoveries>>

\* A write fails, and with it the call; of the text some part may be in the file.
AppendFails(p) ==
  /\ job[p] # Bad
  /\ fails < MaxFails
  /\ fails' = fails + 1
  /\ IF IsComment(job[p])
     THEN comments' \in Remains(comments, job[p]) /\ UNCHANGED events
     ELSE events' \in Remains(events, job[p]) /\ UNCHANGED comments
  /\ call' = [c \in CommentId |-> IF c = CommentOf(job[p]) THEN "failed" ELSE call[c]]
  /\ Done(p, events' # events)
  /\ NoteRace
  /\ UNCHANGED <<snap, now, recovery, recoveries>>

\* snapshot copies the events and not the comments.
Snapshot ==
  /\ recoveries < MaxRecoveries
  /\ snap # events
  /\ snap' = events
  /\ UNCHANGED <<events, comments, job, call, now, recovery, fails, recoveries, seen>>

\* recover_pipeline finds the lock and the latest snapshot.
Recover(p) ==
  /\ Idle(p)
  /\ recoveries < MaxRecoveries
  /\ recoveries' = recoveries + 1
  /\ recovery' = [recovery EXCEPT ![p] = [step |-> "restore", from |-> snap]]
  /\ seen' = seen \cup IF \E q \in Proc : recovery[q].step # "none" THEN {"overlap"} ELSE {}
  /\ UNCHANGED <<events, comments, snap, job, call, now, fails>>

\* The two halves of fs::copy: the events are truncated, then those of the
\* snapshot are written at the start of the file.
Restore(p) ==
  /\ recovery[p].step = "restore"
  /\ events' = Empty
  /\ recovery' = [recovery EXCEPT ![p].step = "refill"]
  /\ UNCHANGED <<comments, snap, job, call, now, fails, recoveries, seen>>

Refill(p) ==
  /\ recovery[p].step = "refill"
  /\ events' \in Over(recovery[p].from, events)
  /\ recovery' = [recovery EXCEPT ![p] = NoRecovery]
  /\ UNCHANGED <<comments, snap, job, call, now, fails, recoveries, seen>>

Next ==
  \/ Tick \/ Snapshot
  \/ \E p \in Proc :
       \/ \E type \in Logged : Log(p, type)
       \/ \E c \in CommentId : AddComment(p, c)
       \/ CommentAppended(p) \/ EventAppended(p) \/ AppendFails(p)
       \/ Recover(p) \/ Restore(p) \/ Refill(p)

Spec == Init /\ [][Next]_vars

-----------------------------------------------------------------------------
EventFile == [lines : Seq(AuditEvent \cup {Bad}), open : BOOLEAN]

CommentFile == [lines : Seq(Comment \cup {Bad}), open : BOOLEAN]

TypeOK ==
  /\ events \in EventFile
  /\ comments \in CommentFile
  /\ snap \in EventFile
  /\ job \in [Proc -> Text]
  /\ call \in [CommentId -> {"new", "adding", "failed", "added"}]
  /\ recovery \in [Proc -> [step : {"none", "restore", "refill"}, from : EventFile]]
  /\ now \in Nat /\ fails \in Nat /\ recoveries \in Nat
  /\ seen \subseteq {"raced", "overlap"}

Readable(f) == \A i \in DOMAIN f.lines : f.lines[i] # Bad

Commented == {c \in CommentId : \E i \in DOMAIN comments.lines :
                comments.lines[i] # Bad /\ comments.lines[i].id = c}

Announced == {c \in CommentId : \E i \in DOMAIN events.lines :
                events.lines[i] # Bad /\ events.lines[i].comment = c}

\* all_events returns the events "in chronological order": two of them are out
\* of order only if the one with the earlier time was made before another one was
\* appended, and itself appended after it.  That holds through recoveries, and the
\* appends that fall into them, as long as no two recoveries overlap.
Chronological ==
  "overlap" \notin seen =>
    \A i, j \in DOMAIN events.lines :
      LET e == events.lines[i]
          l == events.lines[j]
      IN i < j /\ e # Bad /\ l # Bad /\ e.at > l.at => l.late

\* No event announces a comment that is not there, even after a recovery, but
\* for one comment per failed write; and between calls all comments are
\* announced but for two per failed write, as long as there was no recovery.
\* Without failures the comments can be read, and the events too unless an append
\* or another recovery fell into a recovery.
CommentsAnnounced ==
  /\ Cardinality(Announced \ Commented) <= fails
  /\ recoveries = 0 /\ (\A p \in Proc : job[p] = Bad) =>
       Cardinality(Commented \ Announced) <= 2 * fails
  /\ fails = 0 => Readable(comments) /\ (seen = {} => Readable(events))
=============================================================================
