----------------------------- MODULE PipelineDir -----------------------------
(***************************************************************************)
(* One pipeline directory (src/pipeline.rs): three JSONL files, snapshots  *)
(* of them, a compaction that archives and rewrites two of them under      *)
(* `.lock`, and a recovery that copies the latest snapshot back when it    *)
(* finds the lock.  Nothing but recover_pipeline reads the lock, a process *)
(* may crash between any two file operations, and a write may fail.        *)
(*                                                                         *)
(* fs::write and fs::copy first truncate the file and then write at its    *)
(* start; others may append in between, as the stores open with O_APPEND.  *)
(***************************************************************************)
EXTENDS Integers, Sequences, FiniteSets

CONSTANTS
  Proc,        \* the processes that snapshot, compact and recover
  Key,         \* what a line is about: an orb, an edge, an event
  Offered,     \* the lines that callers append: file, key, removed
  Torn,        \* the end of a write cut short: no newline
  Garbled,     \* a line that does not parse
  MaxLines,    \* bounds: lines appended,
  MaxSnaps,    \* snapshots,
  MaxNow,      \* ticks of the clock,
  MaxFaults    \* crashes and failed writes

File == {"orbs", "deps", "events"}

Line == [key : Key, n : Nat, removed : BOOLEAN]

Text == Line \cup {Torn, Garbled}

ASSUME OfferedAssumption ==
  Offered \subseteq [file : File, key : Key, removed : BOOLEAN]
ASSUME TextAssumption ==
  Torn \notin Line /\ Garbled \notin Line /\ Torn # Garbled
ASSUME BoundsAssumption ==
  MaxLines \in Nat /\ MaxSnaps \in Nat /\ MaxNow \in Nat /\ MaxFaults \in Nat

VARIABLES
  file,      \* the three files
  locked,    \* .lock exists
  snaps,     \* the snapshots, in the order of their creation
  archive,   \* the lines in history/, by file and second
  now,       \* the clock
  job,       \* what each process is doing
  acked,     \* ghost: per file, the lines appended, in order
  seen,      \* ghost: which irregular things have happened
  faults     \* ghost: how many faults have happened

vars == <<file, locked, snaps, archive, now, job, acked, seen, faults>>

Idle == [step |-> "idle", at |-> "orbs", lines |-> <<>>, snap |-> 0, second |-> 0]

-----------------------------------------------------------------------------
(* Files.                                                                  *)

Elems(s) == {s[i] : i \in DOMAIN s}

Readable(s) == Elems(s) \cap {Torn, Garbled} = {}

\* What readers make of a file: of the orbs and edges the last line of each
\* key, an edge only if that line does not say removed; all the events.  (A
\* tombstoned orb is a line like others: compaction keeps it.)
View(f, s) ==
  {s[i] : i \in {j \in DOMAIN s :
     /\ s[j] \in Line
     /\ f # "events" => \A k \in DOMAIN s : s[k] \in Line /\ s[k].key = s[j].key => k <= j
     /\ f = "deps" => ~ s[j].removed}}

\* The contents that compaction may write: the lines that still count, each once,
\* the orbs sorted by their creation and the edges as a HashMap yields them.
Compacted(f, s) ==
  LET kept == View(f, s)
  IN {c \in [1 .. Cardinality(kept) -> kept] : Elems(c) = kept}

\* Content c written at the start of a file that holds s: c covers s, of which
\* a tail may stick out behind it, from the start or the middle of a line.
Over(c, s) ==
  LET tails == {SubSeq(s, k, Len(s)) : k \in 2 .. Len(s) + 1}
  IN IF c = <<>> \/ s = <<>> THEN {c \o s}
     ELSE {c \o t : t \in tails} \cup {c \o <<Garbled>> \o t : t \in tails}

\* What a write of c leaves when it is cut short.
Cuts(c) ==
  {SubSeq(c, 1, k) : k \in 0 .. Len(c) - 1}
    \cup {Append(SubSeq(c, 1, k), Torn) : k \in 0 .. Len(c) - 1}

-----------------------------------------------------------------------------
(* Bookkeeping of the ghosts.                                              *)

Busy(p) == job[p].step # "idle"

Note(what) == seen' = seen \cup what

\* "overlap": an operation begins while another works, or (see Snapshot and
\* Compact) on a directory left locked.
Overlap(p) == IF \E q \in Proc \ {p} : Busy(q) THEN {"overlap"} ELSE {}

\* The clock is read; some time may have passed.
Clock == now' \in now .. MaxNow

Fault == faults < MaxFaults /\ faults' = faults + 1

Goto(p, j) == job' = [job EXCEPT ![p] = j]

-----------------------------------------------------------------------------
Init ==
  /\ file = [f \in File |-> <<>>]
  /\ locked = FALSE
  /\ snaps = <<>>
  /\ archive = {}
  /\ now = 0
  /\ job = [p \in Proc |-> Idle]
  /\ acked = [f \in File |-> <<>>]
  /\ seen = {}
  /\ faults = 0

\* A line appended by one of the stores, which never look at the lock.  An edge
\* is only removed if it was once added.  The line is
\* "raced" if f is between its archiving and its rewriting, if a recovery is
\* under way, or if it runs into a torn line.
AppendLine(o) ==
  LET f == o.file
      line == [key |-> o.key, n |-> Len(acked[f]) + 1, removed |-> o.removed]
      torn == file[f] # <<>> /\ file[f][Len(file[f])] = Torn
  IN /\ Len(acked["orbs"]) + Len(acked["deps"]) + Len(acked["events"]) < MaxLines
     /\ o.removed => \E i \in DOMAIN acked[f] : acked[f][i].key = o.key
     /\ file' = [file EXCEPT ![f] = IF torn THEN [@ EXCEPT ![Len(@)] = Garbled]
                                            ELSE Append(@, line)]
     /\ acked' = [acked EXCEPT ![f] = Append(@, line)]
     /\ Note(IF torn \/ \E p \in Proc :
                          \/ job[p].snap # 0 /\ job[p].step # "copy"
                          \/ job[p].at = f /\ job[p].step \in {"load", "truncate", "write"}
             THEN {"raced"} ELSE {})
     /\ UNCHANGED <<locked, snaps, archive, now, job, faults>>

-----------------------------------------------------------------------------
(* snapshot.                                                               *)

\* A new directory, under a name not yet taken.
Snapshot(p) ==
  /\ ~ Busy(p)
  /\ Len(snaps) < MaxSnaps
  /\ Clock
  /\ snaps' = Append(snaps, [present |-> {}, files |-> [f \in File |-> <<>>], mtime |-> now',
                             mark |-> [f \in File |-> Len(acked[f])]])
  /\ Goto(p, [Idle EXCEPT !.step = "copy", !.snap = Len(snaps) + 1])
  /\ Note((IF locked THEN {"overlap"} ELSE Overlap(p)) \cup
          IF \E i \in DOMAIN snaps : snaps[i].mtime = now' THEN {"clash"} ELSE {})
  /\ UNCHANGED <<file, locked, archive, acked, faults>>

Copied(i, f, content) ==
  /\ Clock
  /\ snaps' = [snaps EXCEPT ![i].present = @ \cup {f}, ![i].files[f] = content,
                            ![i].mtime = now']

After(f) == IF f = "orbs" THEN "deps" ELSE "events"

\* One file is copied, which is an entry more in the directory: its
\* modification time is now.
CopyFile(p) ==
  LET i == job[p].snap
      f == job[p].at
  IN /\ job[p].step = "copy"
     /\ Copied(i, f, file[f])
     /\ Goto(p, IF f = "events" THEN Idle ELSE [job[p] EXCEPT !.at = After(f)])
     /\ Note(IF \E j \in DOMAIN snaps \ {i} : snaps[j].mtime = now' THEN {"clash"} ELSE {})
     /\ UNCHANGED <<file, locked, archive, acked, faults>>

\* The copy fails half way and snapshot returns the error; what it has copied
\* stays.
CopyFails(p) ==
  /\ job[p].step = "copy"
  /\ \E c \in Cuts(file[job[p].at]) : Copied(job[p].snap, job[p].at, c)
  /\ Goto(p, Idle)
  /\ Note({"partial"})
  /\ Fault
  /\ UNCHANGED <<file, locked, archive, acked>>

-----------------------------------------------------------------------------
(* compact.                                                                *)

\* write_lock, whether or not there is a lock already.
Compact(p) ==
  /\ ~ Busy(p)
  /\ locked' = TRUE
  /\ Clock
  /\ Goto(p, [Idle EXCEPT !.step = "archive", !.second = now'])
  /\ Note(IF locked THEN {"overlap"} ELSE Overlap(p))
  /\ UNCHANGED <<file, snaps, archive, acked, faults>>

\* The lines of f in the archive of p's second.
Archived(p, f) == {a \in archive : a.file = f /\ a.second = job[p].second}

\* Mutant: the history gets what compaction keeps.
Filed_Compacted(p, f, content) ==
  /\ archive' = (archive \ Archived(p, f))
                  \cup {[file |-> f, second |-> job[p].second, line |-> l] : l \in View(f, content)}
  /\ Note(IF Archived(p, f) # {} THEN {"clash"} ELSE {})

Filed(p, f, content) ==
  /\ archive' = (archive \ Archived(p, f))
                  \cup {[file |-> f, second |-> job[p].second, line |-> l] : l \in Elems(content)}
  /\ Note(IF Archived(p, f) # {} THEN {"clash"} ELSE {})

Archive(p) ==
  /\ job[p].step = "archive"
  /\ Filed(p, job[p].at, file[job[p].at])
  /\ Goto(p, [job[p] EXCEPT !.step = "load"])
  /\ UNCHANGED <<file, locked, snaps, now, acked, faults>>

ArchiveFails(p) ==
  /\ job[p].step = "archive"
  /\ \E c \in Cuts(file[job[p].at]) : Filed(p, job[p].at, c)
  /\ Goto(p, [job[p] EXCEPT !.step = "unlock"])
  /\ Fault
  /\ UNCHANGED <<file, locked, snaps, now, acked>>

\* The file is read and what to write is decided; a line that does not parse
\* is an error, and nothing is rewritten.
Load(p) ==
  LET f == job[p].at
  IN /\ job[p].step = "load"
     /\ \/ /\ Readable(file[f])
           /\ \E c \in Compacted(f, file[f]) :
                Goto(p, [job[p] EXCEPT !.step = "truncate", !.lines = c])
        \/ ~ Readable(file[f]) /\ Goto(p, [job[p] EXCEPT !.step = "unlock"])
     /\ UNCHANGED <<file, locked, snaps, archive, now, acked, seen, faults>>

Truncate(p) ==
  /\ job[p].step = "truncate"
  /\ file' = [file EXCEPT ![job[p].at] = <<>>]
  /\ Goto(p, [job[p] EXCEPT !.step = "write"])
  /\ UNCHANGED <<locked, snaps, archive, now, acked, seen, faults>>

Write(p) ==
  LET f == job[p].at
  IN /\ job[p].step = "write"
     /\ \E s \in Over(job[p].lines, file[f]) : file' = [file EXCEPT ![f] = s]
     /\ Goto(p, [job[p] EXCEPT !.step = IF f = "orbs" THEN "archive" ELSE "unlock",
                               !.at = "deps", !.lines = <<>>])
     /\ UNCHANGED <<locked, snaps, archive, now, acked, seen, faults>>

\* The rewrite fails half way: compact removes the lock all the same.
WriteFails(p) ==
  LET f == job[p].at
  IN /\ job[p].step = "write"
     /\ \E c \in Cuts(job[p].lines) :
          \E s \in Over(c, file[f]) : file' = [file EXCEPT ![f] = s]
     /\ Goto(p, [job[p] EXCEPT !.step = "unlock", !.lines = <<>>])
     /\ Note({"cut"})
     /\ Fault
     /\ UNCHANGED <<locked, snaps, archive, now, acked>>

\* remove_lock, by a compaction or at the end of a recovery.
Unlock(p) ==
  /\ job[p].step = "unlock"
  /\ locked' = FALSE
  /\ Goto(p, Idle)
  /\ Note(IF job[p].snap # 0 THEN {"recovered"} ELSE {})
  /\ UNCHANGED <<file, snaps, archive, now, acked, faults>>

-----------------------------------------------------------------------------
(* recover_pipeline.                                                       *)

\* The latest by modification time, any one of them on a tie.
Latest(i) == \A j \in DOMAIN snaps : snaps[j].mtime <= snaps[i].mtime

\* Without a snapshot the lock is removed, and that is all.
RecoverBare(p) ==
  /\ ~ Busy(p)
  /\ locked
  /\ snaps = <<>>
  /\ locked' = FALSE
  /\ Note({"recovered"} \cup Overlap(p))
  /\ UNCHANGED <<file, snaps, archive, now, job, acked, faults>>

\* Mutant: the lock is removed before anything is restored.
Recover_UnlocksFirst(p) ==
  /\ ~ Busy(p)
  /\ locked
  /\ \E i \in DOMAIN snaps :
       /\ Latest(i)
       /\ Goto(p, [Idle EXCEPT !.step = "restore", !.snap = i])
  /\ locked' = FALSE
  /\ Note({"recovering"} \cup Overlap(p))
  /\ UNCHANGED <<file, snaps, archive, now, acked, faults>>

Recover(p) ==
  /\ ~ Busy(p)
  /\ locked
  /\ \E i \in DOMAIN snaps :
       /\ Latest(i)
       /\ Goto(p, [Idle EXCEPT !.step = "restore", !.snap = i])
  /\ Note({"recovering"} \cup Overlap(p))
  /\ UNCHANGED <<file, locked, snaps, archive, now, acked, faults>>

\* Mutant: only the orbs are restored.
Restored_OrbsOnly(p) == [job[p] EXCEPT !.step = "unlock"]

\* Where a recovery goes after a file.
Restored(p) ==
  IF job[p].at = "events" THEN [job[p] EXCEPT !.step = "unlock"]
  ELSE [job[p] EXCEPT !.step = "restore", !.at = After(@)]

\* Mutant: a file is restored whether or not the snapshot has it.
Restore_Absent(p) ==
  /\ job[p].step = "restore"
  /\ file' = [file EXCEPT ![job[p].at] = <<>>]
  /\ Goto(p, [job[p] EXCEPT !.step = "refill"])
  /\ UNCHANGED <<locked, snaps, archive, now, acked, seen, faults>>

\* A file that the snapshot lacks is left as it is.
Restore(p) ==
  LET f == job[p].at
  IN /\ job[p].step = "restore"
     /\ IF f \notin snaps[job[p].snap].present
        THEN /\ Goto(p, Restored(p))
             /\ UNCHANGED file
        ELSE /\ file' = [file EXCEPT ![f] = <<>>]
             /\ Goto(p, [job[p] EXCEPT !.step = "refill"])
     /\ UNCHANGED <<locked, snaps, archive, now, acked, seen, faults>>

Refill(p) ==
  LET f == job[p].at
  IN /\ job[p].step = "refill"
     /\ \E s \in Over(snaps[job[p].snap].files[f], file[f]) : file' = [file EXCEPT ![f] = s]
     /\ Goto(p, Restored(p))
     /\ UNCHANGED <<locked, snaps, archive, now, acked, seen, faults>>

\* The copy fails half way: the error is returned and the lock stays.
RefillFails(p) ==
  LET f == job[p].at
  IN /\ job[p].step = "refill"
     /\ \E c \in Cuts(snaps[job[p].snap].files[f]) :
          \E s \in Over(c, file[f]) : file' = [file EXCEPT ![f] = s]
     /\ Goto(p, Idle)
     /\ Fault
     /\ UNCHANGED <<locked, snaps, archive, now, acked, seen>>

-----------------------------------------------------------------------------
\* The process dies; files, lock and directories stay as they are.
Crash(p) ==
  /\ Busy(p)
  /\ Goto(p, Idle)
  /\ Note(IF job[p].step = "copy" THEN {"partial"} ELSE {})
  /\ Fault
  /\ UNCHANGED <<file, locked, snaps, archive, now, acked>>

Step(p) ==
  \/ Snapshot(p) \/ CopyFile(p) \/ CopyFails(p)
  \/ Compact(p) \/ Archive(p) \/ ArchiveFails(p) \/ Load(p)
  \/ Truncate(p) \/ Write(p) \/ WriteFails(p) \/ Unlock(p)
  \/ RecoverBare(p) \/ Recover(p) \/ Restore(p) \/ Refill(p) \/ RefillFails(p)
  \/ Crash(p)

Next ==
  \/ \E o \in Offered : AppendLine(o)
  \/ \E p \in Proc : Step(p)

Spec == Init /\ [][Next]_vars

-----------------------------------------------------------------------------
Content == Seq(Text)

Snap == [present : SUBSET File, files : [File -> Content],
         mtime : Nat, mark : [File -> Nat]]

Job == [step : {"idle", "copy", "archive", "load", "truncate", "write",
                "unlock", "restore", "refill"},
        at : File, lines : Seq(Line), snap : Nat, second : Nat]

Irregular == {"raced", "overlap", "clash", "partial", "cut", "recovering", "recovered"}

TypeOK ==
  /\ file \in [File -> Content]
  /\ locked \in BOOLEAN
  /\ snaps \in Seq(Snap)
  /\ archive \subseteq [file : File, second : Nat, line : Text]
  /\ now \in Nat
  /\ job \in [Proc -> Job]
  /\ acked \in [File -> Seq(Line)]
  /\ seen \subseteq Irregular
  /\ faults \in Nat
  /\ \A p \in Proc :
       /\ job[p].step \in {"copy", "restore", "refill"} => job[p].snap \in DOMAIN snaps
       /\ job[p].step = "refill" => job[p].at \in snaps[job[p].snap].present

\* Readers of an unlocked directory see what was written: as long as no two
\* operations overlap, no append falls into a rewrite and no rewrite fails, a
\* crash at any point leaves the damage under the lock, where the next recovery
\* finds it.
DamageIsMarked ==
  /\ seen \subseteq {"clash", "partial", "recovering"}
  /\ ~ locked
  => \A f \in File : View(f, file[f]) = View(f, acked[f])

\* Compaction forgets nothing: each line ever acknowledged is still in its file
\* or in the history, through crashes, failed rewrites and compactions that
\* overlap, unless an append fell into a rewrite or two archives into a second.
OldLinesArchived ==
  seen \subseteq {"overlap", "partial", "cut"}
  => \A f \in File : \A i \in DOMAIN acked[f] :
       \/ acked[f][i] \in Elems(file[f])
       \/ \E a \in archive : a.file = f /\ a.line = acked[f][i]

\* A recovery, itself crashed and repeated any number of times, takes every file
\* back to what readers saw at one moment since the snapshot began, if no
\* snapshot was left unfinished.
RecoveryRestores ==
  [][\A p \in Proc :
       /\ Unlock(p)
       /\ job[p].snap # 0
       /\ seen \subseteq {"recovering"}
       => \A f \in File :
            \E m \in snaps[job[p].snap].mark[f] .. Len(acked[f]) :
              View(f, file'[f]) = View(f, SubSeq(acked[f], 1, m))]_vars

-----------------------------------------------------------------------------
\* README.md: "Restores from latest snapshot if .lock file is stale".  A lock
\* whose compaction is alive and well is taken for a stale one.
OnlyStaleLocks ==
  [][\A p \in Proc :
       Recover(p) => ~ \E q \in Proc \ {p} : job[q].step \in {"archive", "load", "truncate", "write"}]_vars
=============================================================================
