# A TLA+ verification project for orbs

`orbs` keeps small units of work ("orbs": tasks, epics, features, ...), the
dependencies between them and their audit trail in JSONL files, behind a Rust
library (`src/src/`) and a command line (`src/cli/`). There is no server: every
command is a process that reads a file, decides, and appends a line. Two
commands run at once share nothing but the file system, and nothing locks the
orb and dependency files.

This directory holds TLA+ models of the parts of that program where order,
interleaving and failure matter, TLC configurations that check them on small
instances, and theorems proved with TLAPS for every value of the constants.
Paths such as `src/orb.rs` below are relative to the repository.

To run it: `tlc -config <cfg> <Module>` for the runs, `tlapm <Module>_proofs.tla`
for the proofs. `PROJECT.json` lists components, runs, mutants (one wrong
version of a definition per checked property, written just before the
definition it varies and marked "Mutant"), the map from definitions to source
lines, the findings, the hazards and the theorems.

## 1. Inventory

| Part | State | Operations | Module |
|---|---|---|---|
| Orb record and lifecycle rules (`src/orb.rs`, types of `src/task.rs`) | the fields of one orb: `status` or `phase`, `closed_at`, `deleted_at`, `revision_count`, ... | `new`, `with_type`, `with_parent`, `set_status`, `set_phase`, `defer`, `undefer`, `tombstone`, `try_begin_revision`, the two transition tables, `effective_status`, `is_terminal` | `OrbRecord`, `OrbLifecycle` |
| Orb store (`src/orb_store.rs`) | a JSONL file, one line per version of an orb, the last line of an id counts | `append`, `update`, `load_all`, `load_by_id`, the filters | `OrbStore` |
| Dependency edges and store (`src/dep.rs`, `src/dep_store.rs`) | a JSONL file, one line per version of an edge | `add_edge`, `remove_edge`, `all_edges`, `edges_from`, `edges_to` | `DepGraph`, `DepStore`, `DepPromise` |
| Cycle detection (`src/dep_store.rs`) | queue, visited set, map of parents of one search | `detect_cycle_with_new_edge` | `CycleScan` |
| Scheduling queries (`src/dep_store.rs`) | none; read orbs and edges | `ready`, `waiting`, `pipeline`, `compute_effective_priorities` | `Schedule` |
| Command line (`cli/src/main.rs`) | none; each command is one process | `create`, `update`, `delete`, `dep add`, `dep rm`, `ready`, `waiting`, `pipeline`, `tree` and commands that print what they read | `OrbStore`, `DepStore`, `Planning` |
| Pipeline directories (`src/pipeline.rs`) | a directory per root orb: orb, dep, event and comment files, snapshots, archives, `.lock` | `create_pipeline`, `snapshot`, `compact`, `recover_pipeline`, `resolve_store` | `PipelineDir` |
| Sessions (`src/session.rs`, `src/session_store.rs`) | one event log per session, an archive by month | `create`, `append_event`, `close`, `load`, `list`, `rotate` | `Session`, `SessionStore` |
| Audit events and comments (`src/audit.rs`, `src/audit_store.rs`) | two JSONL files | append, filter, one helper per kind of event | `AuditStore` |
| Tree (`src/tree.rs`) | none | `build_orb_tree`, `build_full_timeline`, `leaves`, `depth`, `flatten`, `critical_path` | `OrbTree` |
| Ids (`src/id.rs`) | none | `OrbId::generate`, growth on collision | see section 7 |
| Traces (`src/trace.rs`), reviews (`src/review.rs`), legacy tasks (`src/task.rs`, `src/store.rs`) | none, none, a JSONL file like the orb store's | read-only report, plain types, append and latest-wins read | see section 7 |

How the parts meet. A command loads an orb through the store, applies mutators
of the record to its own copy, and appends the copy whole. `dep add` goes
through `DepStore::add_edge`, which reads the edge file, runs the cycle search
on the blocking edges and appends. The scheduling queries read both files. A
pipeline directory is another pair of the same two stores, with snapshots and
a compaction that rewrites them, next to an audit trail of two more files.
Sessions stand apart: a transcript per session, which any process may append to,
close or move to the archive. Nothing calls back; all interaction is through
files.

What is hard. (1) Read, decide, append without a lock: two commands may decide
on the same file. (2) A write cut short leaves a line without a newline, and the
next append runs into it. (3) The lifecycle has two tables and two fields, and
five mutators that must agree on which one is in use. (4) The two blocking edge
types run in opposite directions and one search must see both. (5) The deciding
line is the last of its kind, through any sequence of additions, removals and
re-additions. (6) Snapshot, compaction and recovery take many file operations each, may crash
between any two, and are raced by appends that know nothing of the lock. (7) An
append to a session checks status and size by name and then writes to an open
file, while others close, rotate or re-create the session. (8) A comment and its
event go to two files, of which snapshots hold one. (9) The scheduling loops
iterate over `HashMap`s, count doubled edges, meet ids of no orb and cycles that
a race has left; the tree follows parent links that nobody checks.

What makes each part correct.

- Lifecycle: an orb has exactly the lifecycle field of its type; deletion is
  final; giving up is final; a finished orb is stamped; no plan is executed
  without review; revisions end.
- Orb store: the file only grows; each version is a legal step from the one
  before unless a stale copy was written; a deleted orb is not revived; a failed
  write has a bounded cost.
- Dependency store: live blocking edges form no cycle; a finished call has taken
  effect; the file implements a set of edges changed one call at a time.
- Cycle search: refuses exactly the arcs that close a cycle, reports a real
  cycle, always ends.
- Scheduling: on an acyclic graph some unfinished orb is ready, unless it waits
  for one that was given up; `pipeline` returns every orb once, in topological
  order and level by level; an orb becomes as urgent as the most urgent of those
  that wait for it, directly or not.
- Tree: the root's descendants once each, below their parents, and a failure only
  under a cycle of parents.
- Pipeline directories: a crash leaves its damage under the lock; a recovery
  takes the files back to a moment since the snapshot; compaction forgets
  nothing that is not in the history.
- Sessions: a closed session takes no more events but from a writer that had
  read it before; the cap is passed by one line per writer at most; only closed
  sessions are archived, and nothing is lost in rotation.
- Audit trail: events are in order of their times but for those a slower process
  appended late; no event tells of a comment that is not there.

## 2. The modules

### OrbRecord, OrbLifecycle

`OrbRecord` has no variables. An orb is a record of the fields the rules read or
write (`usesPhase`, `hasParent`, `status`, `phase`, `closed`, `deleted`,
`revisions`); a time stamp is kept as "is it set". Each mutator of `impl Orb` is
an operator from the orb before to the orb after, and a guard (`CanDefer`,
`CanBeginRevision`, the two `...TransitionAllowed` tables) says when the call
does not return an error. A refused call leaves the orb as it was, so it is no
action. `OrbStore` uses the same operators.

`OrbLifecycle` puts one orb in a variable and lets a caller make every public
call in any order. The library does not stop a caller from using the wrong
setter on an orb (`apply_lifecycle` in the command line picks the right one), so
the model allows it, and the ghost `disciplined` says that it has not
happened. The ghosts `reviewed` and `postponed` remember whether the orb has
been in Review and whether it has been Deferred. The initial orb is any result
of a constructor, or a task read from a record older than the lifecycle fields.

### DepGraph, CycleScan

`DepGraph` gives edges, the arcs they stand for (`blocks` runs from `from` to
`to`, `depends_on` the other way), reachability and acyclicity. Both are stated
through closed sets, not through paths, which is what makes the proofs short:
`y` is reachable from `x` if every successor-closed set with `x` has `y`, and a
graph is acyclic if every nonempty set of orbs has one with no arc into the
set. `MCDepStore` asserts that this agrees with "no orb reaches itself" on every
graph of three orbs, and `AcyclicNoCycle` proves one direction for every graph.

`CycleScan` is `detect_cycle_with_new_edge`, one step of its loops per action:
`Pop`, `Found`, `Look` (one successor), `Expanded`, `Exhausted`, then `Trace` (one
step back along the parents) and `Report`. Successors come in any order, since
in the code they come out of a `HashMap`.

### DepStore, DepPromise

`DepStore` has the lines of the file in `log`, and for each process what it is
between (`pc`) and the edge it was asked for (`arg`). A call is two steps: the
read with its decision (`BeginAdd`, `BeginRemove`), then the append (`EndAdd`,
`EndRemove`). An edge of a type that does not block is appended without a read
(`AddUnchecked`). A refused call writes nothing and is no action. `Live` is
`all_edges`: the edges whose last line does not say removed. The outcome of the
search is `CycleFree`, the specification that `CycleScan` is shown to
compute (`VerdictCorrect`, for every graph). The ghost `raced` is set when a
checked addition begins while another is under way.

A write may fail, by an error or the end of the process (`AddFails`, `RemoveFails`,
`AddUncheckedFails`): nothing is written, a part of a line (`Bad`), or a line
without its newline, which `open` records and which swallows the next append
(`Extended`). One bad line fails every read (`Readable`); what need not read goes
on: the calls that have read already, and additions of edges that do not block.
The ghost `fails` counts the failed writes.

`DepPromise` is what the documentation promises: a set of edges, one call at a
time, never a blocking cycle. `KeepsPromise` is the refinement, with
`edges <- ReadBack`, the live edges of a file that can be read: it holds step by
step, a failed call having taken effect or not, until two checked additions
overlap or the file cannot be read. The finding `NeverCycle` is what happens
after an overlap.

### OrbStore

`lines` is the file, a line being a version of an orb or `Bad`, text that does
not parse; `open` says that the last line has no newline. `held` is the line
that a process is about to append and `base` the line it read it from (0 for a
new orb). `Create`, `Update` and `Delete` are the commands up to their append:
`Updates` is everything `cmd_update` can make of an orb (a lifecycle change
through its type's setter, then a deferral or its end). `EndAppend` is a write
that returns Ok. `FailAppend` is one that does not, by an error or a crash:
nothing written, a torn line, or a whole line without its newline. On an open
end the next append, of any process, runs into the line before and returns
Ok (`Extended`). One line that does not parse fails every later read, as in the
code, and creation goes on, because it does not read. The ghosts `acked`,
`fails` and `stale` count the outcomes and name the ids written from something
else than their latest line.

### PipelineDir

`file` holds the three JSONL files, `snaps` the snapshot directories with the files
each has got so far (`present`), `archive` the lines in `history/`, `locked` whether
`.lock` exists. `job` says what each process
is doing: its step, the file it is at, the content it is about to write. The
code's file operations are steps of their own:

| Code | Actions |
|---|---|
| `snapshot` | `Snapshot` (find a name, make the directory), `CopyFile` for each file |
| `compact` | `Compact` (`write_lock`), then per file `Archive`, `Load`, `Truncate` and `Write` (the two halves of `fs::write`), then `Unlock` |
| `recover_pipeline` | `Recover` or `RecoverBare`, then per file `Restore` (which truncates) and `Refill`, then `Unlock` |
| a store's append | `AppendLine`, at any moment |
| failures | `CopyFails`, `ArchiveFails`, `WriteFails`, `RefillFails`, `Crash` |

`fs::write` and `fs::copy` write at the start of a file that others may have
appended to since the truncation, so `Over` gives the contents that can result.
`compact` releases the lock "regardless of outcome", so `WriteFails` goes to
`Unlock`; a failing refill does not, so `RefillFails` leaves the lock. An archive
is named by the second, so a second one within it replaces the first. Copies into
`history/` and into a snapshot are one step each, since only a recovery could
read a half of one, and it sees the same when the copy is cut short. Finding a
free snapshot name and making the directory are one step too. What compaction
writes, each line that counts once, may come in any order (`Compacted`): the edges
come out of a `HashMap`, and of the orbs no reader asks for the order.

Nothing protects the directory against everything at once, so the properties
say which irregular events they except, and the ghost `seen` collects those: an
append that falls into a rewrite (`raced`), operations that overlap or begin on a
directory left locked (`overlap`), archives or snapshots of one tick (`clash`),
an unfinished snapshot (`partial`), a failed rewrite (`cut`), a recovery begun
(`recovering`) or finished (`recovered`). Crashes are never excepted. A view of
what readers make of a file (`View`) is compared with what they would make of
all the lines ever acknowledged (`acked`).

`compact` works on orbs and edges and leaves `events.jsonl` alone, and so does the
model (its doc comment says otherwise, see section 5).

### Session, SessionStore

`Session` has no variables: usages and how they add up, events and how `apply`
folds one into a snapshot. Its `SaturatingAdd` stands for the three widths of
counters in the code, with `MaxCount` for the largest value, any natural number.

In `SessionStore` a transcript is a file of its own in `files`, and `live` and
`archive` say which names it has: `rename` moves the name, and a process that
has the file open goes on writing to it.

| Code | Actions |
|---|---|
| `create` | `Create` (`create_new`), then `WriteHeader` or `HeaderFails` |
| `append_event`, `close` | `Load` (status), `Measure` (size), `Open`, then `Write` or `WriteFails` |
| `rotate` | `List` (all transcripts), then one `Rename` per session that is due |

Each step of `append_event` goes by the name again, as in the code, and so may find
another file than the one before. `create` writes its header at the start of the
file and not at the end, so `Over` gives what results if another process has
appended in between. `load` fails on a line that does not parse and `read_meta`,
which `rotate` uses, skips it: `Loadable` and `Listed` differ in that. Sizes are
counted in lines. The listing of `rotate` is one step although it reads one file
after another, since no two transcripts are compared; the renames come in any
order. The ghost `base` of a line says how much of its file the writer had read.

### Schedule, OrbTree, Planning

`Schedule` works on an `input`, what a query has read. `Ready` and `Waiting` are
sets. `pipeline` is stepped through: `Propagate` is one orb's turn in
`compute_effective_priorities`, in any order, `Start` fills the queue, `Take` is
one turn of Kahn's loop, `Finish` adds what the loop has not reached. `Sorted`
gives the ways a sort by priority may come out. In-degrees are counted by edge,
not by arc, as in the code. The inner search of
`compute_effective_priorities` is `Dependents`, a function of the number of its
rounds, of which it needs no more than there are arcs. The reference definitions are `Level`, the round in
which an orb is free when all rounds before it are done, and `Reaches` of
`DepGraph`.

`OrbTree` is `build_orb_tree` with its call stack: `Descend` is a call of
`build_node`, `Return` its end, `Overflow` the end of the program when
`StackLimit` calls are not enough. Children come in some fixed order, and the
run takes every assignment of parents. The readers of a tree are recursive
functions of the number of calls that may still follow; as many as there are orbs
(`Calls`) are enough on a tree that was built, because it has no orb twice. `Flatten`
calls itself for the first of a set of siblings and for the others, so that one
call stands for a turn of the code's loop.

`Planning` composes the two as the commands `orbs pipeline` and `orbs tree`. Each
reads the orb file and then the edge file, between which others may write, so
its input is any combination, with edges of ids that are no orb's. It assumes that
the stack has room for a call per orb (`StackAssumption`): a deep tree without a
cycle is then no reason to fail.

### AuditStore

`events` and `comments` are the two files, with `open` as in `OrbStore`, and
`job` the text that a process is about to append. The helpers `log_...` are
`Log` followed by `EventAppended`; `add_comment` is `AddComment`, then
`CommentAppended`, which makes the event with a time of its own, then
`EventAppended`. `AppendFails` ends a call at either of its writes. A caller may
pass a comment again after an error (`call`). The clock does not go back. The
ghost `late` marks an event that another one overtook.

In a pipeline directory the events are snapshotted and recovered, the comments are
not. `Recover` is the part of `recover_pipeline` that finds the lock and the latest
snapshot, `Restore` and `Refill` are the two halves of its `fs::copy`: the file is
truncated, then the snapshot is written at its start, and others may append in
between (`Over`, as in `PipelineDir`, and with the open ends that only matter here).
The ghost `seen` notes an append that falls into a recovery (`raced`) and recoveries
that overlap (`overlap`). `Snapshot` is one step, as it reads one file and nothing
is told of the moment; unfinished snapshots and recoveries that fail are left to
`PipelineDir`. Since there is always a snapshot, at first an empty one, and any
number of recoveries may follow, every moment may be the one restored.

### MC modules

`MCDepStore`, `MCOrbStore`, `MCPipelineDir` and `MCSessionStore` give the sets
`Offered` and `NewOrbs` their values and `MCPlanning` the inputs. `MCPipelineDir` and `MCAuditStore` have the symmetry of the
processes, the latter that of the comments too, and constraints (section 3).
`OrbLifecycle` and `CycleScan` need no MC module.

## 3. The runs

| Run | Asks | Instance | Why it is enough |
|---|---|---|---|
| `lifecycle` | do the two tables, the setters, deferral, deletion and revision keep the rules together | one orb, `MaxRevisions = 3` | the state space is the whole one: the cap is the code's |
| `cycle_scan` | is the verdict right, the report a cycle, the end certain | 3 orbs, all 512 graphs, all 9 new arcs | self-loops, cycles of two and three, diamonds, unreachable parts; the theorems cover the other sizes |
| `dep_store` | does the file keep the promise under interleaving and failed writes | 2 processes, 3 orbs, 6 edges, calls begin on up to 3 lines, 1 failed write | both blocking types close cycles of one, two and three orbs; add, remove, re-add and one more call fit; a torn or open line meets the append of a call that had read before it |
| `orb_store` | what can lost updates and torn lines do | 2 processes, 2 ids, a task and an epic, calls begin on up to 2 lines, 2 failures | one orb can be made, changed and changed from a stale copy; a torn line can meet the next append and a second failure |
| `pipeline_dir` | what lock, history and snapshots are good for | 2 processes, 1 orb and 1 edge (added or removed), 2 lines, 1 snapshot, 2 seconds, 2 crashes or failed writes, the second only once a recovery has begun or where it leaves a lock beside an unfinished snapshot | an update, or an edge and its removal, to compact; two compactions overlap, or one crashes and is recovered while lines are appended |
| `session_store` | what cap, close and archive are good for without a lock | 2 processes, 2 transcripts of at most 2 ids, 3 lines of cap, 2 currencies, a clock of 3 ticks, 1 failed write | two writers at the cap; a close against an append; two rotations; a session created anew after its rotation and archived over the first |
| `planning` | are readiness, order, urgency and tree right on all small inputs | 3 orbs with up to 4 of 10 edges and all priorities of two values; 4 orbs with every subset of 7 edges; 3 orbs in all of 4 states with up to 2 edges; all parents of 3 and 4 orbs | cycles and what is behind them, doubled edges, edges of unknown ids and of types that do not block, four levels, trees of every shape and cycles of parents; the theorems cover the other sizes |
| `audit_store` | how far can events, comments and snapshots drift apart | 2 processes, 2 comments, calls begin on fewer than 2 lines of events, 2 times, failed writes and recoveries 2 together, one of each with one comment only | an event overtaken by another; a comment added, failed and added again; a torn line met by the next append or covered by a refill; a snapshot between comment and event; two appends between truncation and refilling; two recoveries that overlap |
| `level_order`, `cycle_race`, `create_collides`, `stale_lock` | statements of the documentation that the code does not keep | as above | section 5 |

Bounds: `MaxLog` and `MaxLines` stop commands from beginning on a longer file
(commands under way still finish, so two processes can leave one line more than
the bound), and `MaxFails` caps the failed writes; `PipelineDir` bounds the lines, the
snapshots, the clock and the faults. Two constraints of `MCPipelineDir` trim its
search: `Regular` drops the states in which irregular events have taken every
property its premise, and `LateFaults` those in which the second fault comes before
any recovery, unless it leaves a lock beside an unfinished snapshot and nothing else
irregular has happened. `Irregular` of `MCAuditStore` lets failed writes and recoveries
be two together, and with one of each only one comment be added. `Small` of `MCSessionStore` keeps two transcripts short: four lines
together, changes of status only and no failed write; one transcript alone has
all events and a failure. In the theorems the bounds are any natural numbers. Deadlock is not checked where such a bound, or the end of the
search, stops the system. `OrbLifecycle` needs no such exemption: a tombstone call
is always possible.

What the properties say:

- `LifecycleMatchesType`: one lifecycle, its type's, through every call, and a
  deleted orb reads as Cancelled. `tombstone`, `defer` and `undefer` look at which
  field is set, the setters are chosen by type; this is where they must agree.
- `TombstoneFinal`: a deleted orb is never revived, even by callers that mix the
  setters.
- `GivenUpIsFinal`: Failed and Cancelled are left by deletion only. The phase
  table has universal moves and a way out of Deferred that could combine.
- `FinishedIsStamped`: Done, Failed and Cancelled have `closed_at`, revisions
  (which clear it) notwithstanding.
- `ReviewedBeforeWork`: an epic or feature that was never deferred is not
  Waiting, executing, re-evaluating or done before it has been in Review. The
  exception is real: Deferred may go straight to Waiting.
- `RevisionsStop`: from some point on no revision begins, whatever else is
  called.
- `VerdictIsRight`, `ReportIsCycle`, `Terminates`: as named.
- `NoCycle`, `CallsTakeEffect`, `KeepsPromise`: as in the inventory, of a file that
  can be read. A call may return Ok on a file that cannot, but only after a failed
  write; a line that a failed call leaves whole counts like any other, so the
  edges stay acyclic with it.
- `AppendOnly`: no step changes a line that ends in a newline.
- `HistoryIsLegal`: an orb that each command wrote from its latest line has a
  history in which each version is one legal command from the one before.
- `DeletedStaysDeleted`: only a command that had read the orb before its
  deletion, or made its id anew, writes over it.
- `OneLossPerFailure`: a failed write costs at most one unparsable line and at
  most one acknowledged line, possibly of another process.

- `CapOvershoot`: `max_file_bytes` is passed by at most one line for each further
  process, whatever is rotated and created anew between measuring and writing.
- `ClosedIsFinal`: a line after a closing one is by a writer that had read the
  transcript before it was closed.
- `ArchivedWasClosed`: an archived transcript has a closing line, unless its id was
  created anew after it was listed, or another write ran into that line.
- `TranscriptsKept`: a transcript is live or archived, or a later one of its id was
  archived over it.
- `SnapshotAgrees`: `load` and `read_meta` tell the same status, and the fold of
  `apply` the turns, the saturated sum, the one currency and the last close.
- `SomeReady`: `ready` and `waiting` divide the unfinished orbs, and without a cycle
  one is ready unless one waits for an orb that failed or was cancelled.
- `PipelineOrder`, `LevelsInOrder`, `UrgencyPasses`, `TreeIsRight`: as in the inventory.
  Behind the first level the order inside a level is another than documented
  (section 5).
- `CommandEnds`: `pipeline` and `tree` end, on cyclic graphs too.
- `Chronological`: an event is behind one with a later time only if that was
  appended between its making and its own append. Two recoveries that overlap are
  excepted: what the first restored may stick out behind what the second restores.
- `CommentsAnnounced`: an event without its comment costs a failed write each, a
  comment without its event half of one; a recovery only adds the latter kind.
  Without failures the comments can be read, and the events too unless an append or
  another recovery fell into a recovery, of which half a line may stay.

- `DamageIsMarked`: when the directory is not locked, readers see what was
  written, whenever an operation crashed; so recovery will find all damage.
- `OldLinesArchived`: an acknowledged line is in its file or in the history, even
  after crashes, failed rewrites and overlapping compactions.
- `RecoveryRestores`: a recovery, crashed and repeated if need be, takes every file
  back to what readers saw at a moment since the snapshot began.

## 4. Fairness

Only `CycleScan`, `Schedule` and `Planning` assume fairness, `WF_vars(Next)`: a
sequential function that is called runs on. The stores and the lifecycle assume none: a process may stop
between its read and its append for ever, and a caller need not call.
`RevisionsStop` needs no fairness, because each revision uses up one of a bounded
number and nothing gives one back.

## 5. Where the code and its documentation disagree

- `LevelsByPriority`. `pipeline` is documented to sort the orbs of a level by
  effective priority. It sorts what one orb has freed; orbs that different ones
  have freed come in the order of those.
- `NeverCycle`. `add_edge` is documented to reject cycles on blocking edges. Two
  processes that check before either appends both pass.
- `CreateIsFresh`. `existing_ids` is documented as the collision check of id
  generation. `Orb::new` passes an empty set, so a new orb may take the id of
  another and replace it.

- `OnlyStaleLocks`. The README of the repository says that recovery restores from the
  latest snapshot "if .lock file is stale". The code looks only at whether the
  file exists, so it restores over a compaction that is running.

More, which no run shows because each follows from a single line or two:

- `try_begin_revision` is documented to fail on an orb that is not Done
  (`src/orb.rs:581-582`) and only asks the table for its target, so an orb that has
  left Done may use up another revision.
- Its comment (`src/orb.rs:602-603`) says that a reopened orb carries no completion
  stamp, while reopening through a setter keeps it.
- `compact` is documented to append deps and events to the history and then to rewrite
  both (`src/pipeline.rs:171-172`). It does so with `orbs.jsonl` and `deps.jsonl`, and
  `events.jsonl` is neither archived nor rewritten; and it copies each file to one
  named by the second, which replaces an earlier one instead of adding to it.
- `events_for_orb` and `all_events` are documented to return events in chronological
  order (`src/audit_store.rs:52`, `src/audit_store.rs:62`). They return them in the
  order of the file; `Chronological` says how far that is the same.

## 6. What is proved

The proofs assume only the named assumptions of the modules: bounds and caps are
natural numbers, where counters saturate included; `Offered` is a set of edges
(`DepStore`), events (`SessionStore`) or lines of the three files (`PipelineDir`),
`NewOrbs` holds results of the constructor and each `Input` orbs, their parents and
edges, finitely many; `Bad` and `Header` are not lines, `NoOrb` is not an orb,
`NoParent` not an id, `NoComment` not a comment and "Commented" not among the types of
`Logged`; the stack has room for a call of `build_node` per orb (`StackAssumption`).
The processes of `SessionStore` and the comments of `AuditStore` are finite in number,
because they are counted. All other sets of orbs, ids and processes are arbitrary,
finite or not. Each component's theorems are in its `_proofs` module.

**Lifecycle** (`OrbLifecycle_proofs`): `TypeCorrect`, `LifecycleMatches`,
`FinishedStamped`, `WorkIsReviewed`, `DeletionIsFinal`, `GivingUpIsFinal`. The
inductive invariant adds three facts to the properties. `OneLifecycle`: a
disciplined orb uses the field of its type, without which `tombstone` and
`defer` could touch the other. `DeletedIsTombstone`: `deleted_at` is set only on
an orb whose state is Tombstone, without which a revision might move a deleted
orb. `GhostsCurrent`: the ghosts cover the present state, which `ReviewedBeforeWork`
needs when an orb leaves Review. Every step is a lemma per kind of call.

**Cycle search** (`CycleScan_proofs`): `ScanTypeCorrect`, `VerdictCorrect`,
`ReportCorrect`. `Frontier` says that a visited orb is queued, being expanded
or has all its successors visited or still to be looked at; at the end the
visited set is closed and without the tail, so by the definition of reachability
the tail is not reachable; and all that is visited is reachable from the head. `ParentTree` says that the parent of a visited orb is visited, leads
to it by an arc and is missing for the head of the new arc only; `Walk` says
that the path rebuilt so far follows arcs, from a visited orb to the tail.

**Dependency graph and store** (`DepStore_proofs`):
`AddArcKeepsAcyclic` is the reason the check is enough: if the head of an arc
does not lead to its tail, the set of orbs it leads to separates them, and any
set of orbs has a minimal one on one side or the other. The invariant of the
store adds `Pending` to `NoCycle`: while no additions have overlapped, at most one
checked addition is under way and its check still holds on the file as it is
now, since the lines that others append meanwhile only remove arcs or add edges
that do not block. That covers the lines of failed calls too: a file that can be
read after a write has got that line whole and no other was touched
(`WriteKeepsFile`), and without a failed write there is neither a bad line nor an
open end (`EndOK`). From these follow `NoCycleWithoutRace`, `CallsEffective` and
`ImplementsPromise`, the refinement of `DepPromise`.

**Orb store** (`OrbStore_proofs`): `TypeCorrect`, `HistoryLegal`, `DeletionHolds`,
`LossIsBounded`, `FileIsAppendOnly`. `HeldIsEdit` says that what a process holds
is what one command makes of the line it read, which stays where it was or has
been spoilt. `Slack` strengthens the count: an open end that still parses leaves
one bad line to spare, so the append that spoils it stays within the bound. The
relation `Grown` describes a file after one write on either kind of end, and
each part of the invariant is carried over it once.

**Pipeline directories** (`PipelineDir_proofs`): `TypeCorrect`, `DamageMarked`,
`HistoryKept`, `RecoveryIsExact`. Each of the three properties excepts other
irregular events, and each has a part of the invariant under the same exception.
`DamageInv` says that all work but a snapshot is done under the lock (`LockedWork`)
and that readers see all of every file, but for the one a compaction is just
writing, for which it has lines in hand that say the same (`RewriteAgrees`): without
that the property is not inductive, as a truncated file says nothing of what is to
be written. `HistoryInv` adds to the property that between the archiving and the
rewriting of a file all its lines are in the history, whoever else compacts: this
is why overlapping compactions need no exception. `RestoreInv` says that what
a snapshot has of a file is what readers saw at a moment since its mark
(`CopiesAgree`), that it lacks only what is still being copied (`CopiesComplete`),
and that the files a recovery has gone past are those of its snapshot
(`RestoredSoFar`); the marks lie in the past (`MarksInPast`).

**Planning** (`Planning_proofs`). The proofs start with what the installed provers
have to be told: an induction principle stated with sets (`Induction`) and the
existence of the function that a recursive definition chooses (`Iterates`).

- `OneIsReady` is about two operators: if no unfinished orb were ready, the unfinished
  orbs would be a set without a minimal one, which an acyclic graph does not have.
- `TypeCorrect`, `OrderCorrect` need of the loop that a degree counts the edges from
  orbs not taken yet (`DegreesCount`), that exactly the orbs of degree zero that are
  not taken are queued (`QueueIsFree`, `FreeIsQueued`), that an orb taken has its
  blockers before it (`BlockersFirst`) and that none is queued or taken twice
  (`Once`). `CountingDown` is the lemma about doubled edges: taking an orb lowers the
  degree of another by the number of its edges to it.
- `UrgencyCorrect`: `DependentsAreReached` says that the rounds of the inner search end
  with all that is reachable, and `UrgencyInv` that a priority is always that of some
  dependent, so that it does not matter which of them were propagated before.
- `LevelsCorrect`: `LevelInv` says that the order so far, followed by the queue, goes
  level by level, and that the queue reaches at most one level beyond it. The level of
  an orb is the round after that of its last blocker (`LevelOfBlocked`,
  `LevelOfFreed`).
- `TreeCorrect`: `BuildInv` describes a half-built tree. The calls under way are a path
  down from the root (`CallsFit`), each node is one level below an earlier one that is
  its parent (`NodesFit`), a child that has no node yet is still to be built
  (`NothingForgotten`). Under a cycle of parents some call has always an orb of
  the cycle left to build (`LoopGoesOn`), so the building does not finish; without
  one no orb is met twice (`NoneTwice`), so the calls never outnumber the orbs and
  the stack is enough. What is read off the tree follows by `TreeInduction`, from
  the last node back to the first: a node's children come after it and have one
  round less. `Preorder` carries `Flatten` along with the building: the orbs listed
  so far, then the trees of what is still to be built, are at every moment what
  `Flatten` gives.
- `CommandTypeCorrect`, `PipelineCorrect` and `TreeCorrect` are about `CommandSpec`, the
  composition; `CommandInv` keeps the two commands apart.

**Session store** (`SessionStore_proofs`): `TypeCorrect`, `OvershootBounded`,
`CloseHolds`, `OnlyClosedArchived`, `NoneLost`, `SnapshotsRight`. `PendingFits` is why the cap is passed
by so little: the size of a file and the number of writers that have measured it
and not written yet are together at most the cap plus one for each process but
one. For `CloseHolds`, no process is about to append that had read a closing line at
the end of the file (`NobodyPast`), and until the header is written nobody has read
anything of the file (`HeaderIsFirst`), so that a header written over what others
have appended hides no close from them; `AllCloseLast` is the property for
every file, those that have lost their name included. `DueWereClosed` says of the
sessions that a rotation has listed, and `ArchiveWasClosed` of those it has moved,
that they, or an earlier one of their id, had a closing line. `LiveIsLatest` is what
`NoneLost` needs: the live transcript of an id is later than all archived ones.
`SnapshotsRight` is an induction along the events of a transcript: the fold of
`apply` and the counts of the property are both taken one event further (`Folding`),
and a sum that has saturated stays so.

**Audit store** (`AuditStore_proofs`): `TypeCorrect`, `ChronologyKept`,
`AnnouncementsBounded`. The invariant speaks of `Sources`: the events as they are, as
they are in the snapshot, and as each recovery under way will restore them.
`Chronology` adds to their order that nothing is from the future, that an event to be
appended, unless marked late, is as late as all in `Sources` (`NothingAhead`), and that
what a refill may leave sticking out is later than what it restores (`Behind`). The
last holds because a recovery that overlaps with no other has truncated the file
(`OneAtATime`), so what is in it then was appended since. `OverFacts` says what a refill
can make of a file. `Charged` counts what a later append can no longer spoil:
`Doubtful` are the comments announced in `Sources`, or about to be, that are in no safe
line, and `Unheard` those that no safe line announces, nor one to come; before the
first recovery none is under way (`Counted`). A line without a newline is charged to
its failed write in advance, so that the append that runs into it costs nothing more.
`Clean` says that without failures no such line is among the comments and, if nothing
fell into a recovery, none in `Sources`: a refill then finds the file as truncated
(`Truncated`).

Each of these components has `InitIInv`, `NextIInv` (one step per action, or one lemma
per action) and the temporal theorem that combines them.

## 7. What is only model-checked, and what is not modelled

Every invariant and every property of steps that a run checks is also a theorem.
Only model-checked are `Terminates`, `CommandEnds` and `RevisionsStop`, which are
liveness properties (no prover at hand does liveness), and the four disagreements,
which are counterexamples. Of the models no operator is declared RECURSIVE, and the
library's induction theorems, which take an operator, are not used: recursion is
written as functions over `0 .. n`, and induction is over sets of numbers.

Left out of the models: titles, descriptions, labels, results and hashes of
orbs (no rule reads them); the values of time stamps; formatting and argument
parsing; the data inside a torn line (it does not parse, which is all its
readers see). A torn line that happens to parse is excluded:
a proper prefix of a JSON object never does, and two objects on a line neither.

In `PipelineDir`: the phase names of snapshots, and
whole lines that lack only their newline (in `OrbStore`).

Not modelled: the routing of `resolve_store`, which reads one store after the
other and only tells a library caller which one to use (no command does, and
what a caller then does is outside this repository); the growth of ids in
`OrbId::generate`, which never happens because its only caller passes an empty
set (`CreateIsFresh` is about that); `trace.rs`, a read-only report;
`review.rs`, which is types only (what a Revise verdict does is
`BeginRevision`); the legacy task store, whose append and read are the orb
store's; the serialisation formats.

## 8. Plan

In order:

1. Variants for the three liveness properties: that every step of the cycle search,
   of `pipeline` and of the tree lowers a measure in the natural numbers, and every
   revision the number of those left. Fairness and ENABLED would still be TLC's.
2. The crash-recovery hazards without a property (an unfinished snapshot, two archives
   of one second), as statements of what is lost at most.
3. `resolve_store` over several directories, should a command come to use it.
