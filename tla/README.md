# A verification development for Claude Usage Tracker

The program is a tray application (Rust and Vue, `src-tauri/` and `src/`), a set
of command-line tools that share its data files (`scripts/cli/`), and a small
mailbox service (`resolver/`). This directory models its own core logic: the
protocols by which processes and threads share a file, the rules of the task
board, the headless runner, the poll loop with its alerts, and the reading of
other programs' logs. TLC checks the models on small instances, TLAPS proves
the central properties for every value of the constants.

- [Inventory](#inventory)
- [Plan](#plan)
- [Modules](#modules)
- [Runs](#runs)
- [Fairness](#fairness)
- [Proofs](#proofs)
- [What the models show of the code](#what-the-models-show-of-the-code)
- [Assumptions and what is left out](#assumptions-and-what-is-left-out)
- [Not modelled](#not-modelled)

## Inventory

Paths are relative to the repository.

| Part | State | Operations | Meets others through | Module |
|---|---|---|---|---|
| Board lock: `src-tauri/src/kernel/board_lock.rs`, `scripts/cli/kernel/board-lock.mjs` | `todos.json.lock`, `todos.json.lock.stale-<pid>`, a registry of held locks in each process | acquire, steal a stale lock, nest, reaffirm, release | the file system; every writer of the board | `BoardLock` |
| Board transaction: `board/todos.rs`, `kernel/board-io.mjs` | `todos.json`, `todos.json.<n>.tmp`, backups | load, mutate, stage, fence, rename, sweep of orphans, recovery of a damaged board | the lock; the watcher | `BoardLock`, `BoardStore` |
| Data directory: `kernel/data_dir.rs`, `kernel/appdata.mjs`, `withDataDir` | the old and the new directory, `.migrating`, the `migrated-from` marker | migrate at start, select, select again under the lock | the lock of either directory | `DataDirMigration` |
| Watcher, cache, window: `lib.rs` (`spawn_todos_watch`, `write_todos_locked`), `board/cache.rs`, `src/board/boardStore.ts` | last stamp polled, status snapshot behind a mutex, cached board with revision and stamp, the window's rows, revision and stale mark | poll, compare, install, load, answer a command, reload | the board file, events, IPC answers | `TodoWatch` |
| Task graph: `board/todos.rs`, `board/todos.mjs`, `windows/TodoWindow.vue` | rows with number, status, history, dependencies, comments; the newest backup; the row a detail view shows | add, move, save, comment, link, remove, import, restore | the board transaction | `BoardRows`, `TaskGraph` |
| Headless runner: `process/run.mjs`, `checkpoint.mjs`, `outcome.mjs`, `apply.mjs` | a copy of the board taken at the start, attempts, gated and expired nodes, the wave under way | start, take a wave, begin, work, check, close, park, send back, stop | the board by CLI commands; workers and reviewers | `Runner` |
| Red gate: `process/red-gate.mjs` | the working tree, copies aside and their marker | copy, revert, run the test, restore, recover | the runner; the file system | `RedGate` |
| Poll loop and auto-start: `lib.rs` (`run_cycle`, `auto_start`) | shared settings and the copy of a cycle, phase, attempt, done-in-this-window | poll, judge, count down, resolve the project, start, retry, call off | network, settings edited meanwhile | `UsageLoop` |
| Alert engine: `analytics/alerts/engine.rs` | fired level and limit, previous percentage, forecast and budget marks, queue of suppressed alerts | evaluate, suppress, flush, reset | the poll loop | `AlertRules` |
| External mailbox: `resolver/src/`, `external/external.rs`, `poll_external_once` | mailbox with delivery marks, the mirror `external_tasks.json` | ingest, poll, apply | HTTP | `Mailbox` |
| Transcripts: `analytics/cc.rs`, `analytics/codex.rs`, `analytics/stats/cc_store.rs` | three tables of messages; per file the size, offset and context of the last reading; a second set of offsets for the limits | read on, insert, save the state, look for the newest limits | logs that other programs write; windows that ask at once | `Transcripts` |
| Task-session journal and task cost: `board/task_sessions.rs`, `task_cost/task_cost.rs`, `cc-hooks/` | an append-only file; the attribution file | append, fold into blocks, join with messages, judge | hooks of sessions, the statistics database, the keep-awake worker | `TaskUsage` |
| Changes: `board/change.mjs`, its migration and closing | change records tied to tasks | propose, adopt, close | the task graph | - |
| Hook configuration: `lib.rs` `update_hook_config_if` | another program's settings file and its stamp | read, compare, replace | the other program | - |
| The rest: statistics queries, forecast, keep-awake, service status, system monitor, memory view, guard, specification registry, agents and models, the interface, `tools/flowcheck` | files read, or one value behind one mutex | computations and presentation | - | - |

What makes them right:

- *Lock*: one writer at a time; a steal spares the lock of a live process; who leaves lets
  the lock go; a dead holder does not stop the others for ever.
- *Transaction*: every write is made to the board as it is at that moment.
- *Directory*: at every moment, whoever crashed where, all records are in the
  directory readers select.
- *Watcher*: an application's own edits are no news; others' edits are; what the
  cache serves is what the file holds; a window shows the revision it has. Foreign edits
  reach the window, but for five ways in which the code lets them pass it by.
- *Task graph*: commands keep an acyclic graph acyclic and numbers unique; a save of
  a detail view keeps others' comments, and others' declarations where it had none of its own
  (older declarations, history and texts of the view do overwrite); an import brings what its
  file says, once; while a task is open there is one to work on.
- *Runner*: a node is tried up to its limit, and once more at most for every refusal, crash
  or person's move; no worker's files are lost in a red gate whose restore succeeds; a run
  knows the status of what nobody else has moved, takes tasks out of
  people's hands only as the change says or in the steps under way, and closes nothing that a
  person has to close; it ends.
- *Poll loop*: one start in a window and a bounded number of tries, though an answer
  may be lost; a countdown ends; alerts of a window escalate; what was raised in quiet
  hours is shown after them, as far as the queue holds it.
- *Mailbox*: what was accepted is kept; a message reaches every device of its account, once
  (an answer that is lost loses it); events out of order do not take a task back.
- *Transcripts*: no offset passes a line whose row is missing; a row has the session
  and model of its line though they stand lines before; every line is counted in the end.
- *Journal and cost*: a message counts for the task its session was bound to at its
  time; no message is charged twice.

The hard behaviours are the interleavings at file-system calls, crashes between
any two of them, state read before a wait and used after it, the order of answers
and events, and retries of calls whose answer was lost. `PROJECT.json` lists each
with its line under `hazards`.

## Plan

In the order in which it was carried out, which is that of weight.

1. `BoardStore`, the promise; `BoardLock`, the lock and the transaction at
   file-system steps; `BoardLockProofs`.
2. `DataDirMigration`, over the lock as one step; `DataDirMigrationProofs`.
3. `TodoWatch`, over the transaction as one step; `TodoWatchProofs`.
4. `Mailbox`: resolver and application, lost answers, failed saves; `MailboxProofs`.
5. `BoardRows` and `TaskGraph`: rows, numbers, edges, as the window, the CLI and an
   import apply them, over the transaction as one step; `TaskGraphProofs`.
6. `RedGate` and, composed with it, `Runner`; `RunnerProofs`.
7. `AlertRules` and, composed with them, `UsageLoop`; `UsageLoopProofs`.
8. `Transcripts` and, composed with it, `TaskUsage`; `TranscriptsProofs`.

What is left, with the reason:

- Recovery of a damaged board and schema versions in the transaction: they decide on
  the contents of a file, of which `BoardLock` counts writes only.
- The order of board lock and snapshot mutex (`lib.rs:3305`), which the 15 s timeout
  of the lock resolves: the timeout would have to be timed for a property to say more
  than that it fires.
- Proofs of `MutualExclusion` and `NoLostUpdate` of `BoardLock` with a dead holder and few
  survivors; see the end of [Proofs](#proofs).
- Changes and the hook configuration, see [Not modelled](#not-modelled).

## Modules

### BoardStore and BoardLock

`BoardStore` is the promise: a write is one step on the board as it is at that
moment. A board is counted, not stored: `board[w]` is how many writes of `w` it
contains, `done[w]` how many were carried out, so that a lost write shows as a
difference and nothing else of the contents matters.

`BoardLock` is the protocol both programs follow, one action for each call on a
shared file. A thread `t` of process `ProcOf[t]` is at `pc[t]`:

| Phases | Code |
|---|---|
| `idle`, `create`, `fill`, `sweep` | `acquire_impl` / `acquireBoardLock`: the registry, `create_new`, the contents, the sweep of orphan temporaries |
| `inspect`, `claim`, `verify`, `relink`, `forget`, `discard` | `is_stale`, `remove_stale` / `stealStaleLock`: read, rename to `.stale-<pid>`, compare, link back or unlink |
| `held`, `loaded`, `staged`, `affirmed` | `transact_if`, `write_atomic`, `save`: load, mutate, temporary file, fence (`reaffirm`), rename |
| `release`, `unlink` | `release_file` / `releaseBoardLock`: compare, then remove by name |

State: `lock` and `claim[p]` are files (who created them, and whether they were
filled), `owner[p]` is the registry of a process, `depth[t]` the nesting, `seen[t]`
the contents judged stale, `tmp` the temporary board files, `dead` the dead
processes. A lock file's contents are compared as the code compares them: an
unfilled file reads as the empty text whoever created it (`Content`). A release may leave
the file (`LeaveFile`): it cannot be read, or the removal fails, which both programs ignore.
The ghost `stuck` remembers whose lock was left so.

### DataDirMigration

`migrate_with` step by step for each launch, and `withDataDir` for each CLI
command. A directory is the set of records in each of its files and the marker.
`Fail` and `Crash` may strike at every step, `Relaunch` starts the application
again; a lock whose holder died is there for the taking (`Ghost`), which is what
`BoardLock` shows of the lock (`DeadLockCleared`).

### TodoWatch

The main thread (`"main"`), the watcher (`"watch"`) and asynchronous commands
(`Reader`) over one cache and one mutex, the window behind them, and other programs
(`OtherWrites`). A file's stamp is its version. `held` is what a transaction
returned; `Install` puts it in the cache with the stamp the file has *by then*,
because `BoardCache::install` reads it after the board lock is released
(`cache.rs:66-69`). `want` is what the window is to do: nothing, reload, or reload
when it is shown again. A session (`Sessions`) says how many writes of each side
happen and whether commands load the board meanwhile, so that one run explores
several kinds of session. Ghosts: `mine` are the tasks the application itself moved to
review; `crossed` is the last version that another program wrote between a transaction and
its `Install`; `news` says whether what others wrote is known to the window, still to be
loaded, or has passed it by. The properties except what these two name, and nothing else.

### Mailbox

The resolver's store in memory and on disk, the source that repeats a message until
it is answered, and the devices that poll and fold. Every request of the resolver
runs under one mutex and is one step with the outcomes: saved and answered, saved
and the answer lost, not saved (500). A retry of what only the memory holds is answered
200 all the same (`"unsaved"`). The mirror keeps, for each task, the event whose state it
shows.

### BoardRows and TaskGraph

`BoardRows` holds the pure operators on a board, a function from tasks to rows or
`None`: numbering (`EnsureNumbers`, `MaxNumber`), the upsert of an edited row
(`Merged`), edges with the reachability that refuses a cycle (`DepReaches`), readiness
(`IsReadyNode`), and the merge of an import in its three passes: numbers (`Place` for one
row, `ImportNumbers` in the order of the file), rows under their final ids (`Placed`, with
`RefTarget` for what the texts cite), edges one by one (`Linked`). `ImportOrders` and
`EdgeOrders` are the orders the code may take; an import takes any of them. A task is
reached if it is in every set that holds the start and is closed under dependencies: the set
that the code's search with a stack and a seen-set computes. Texts are reduced to what the
rules read: the numbers they cite, and a stamp that tells which of two rows is newer
(`Undated` for a row of a file without one). What only the CLI declares of a task (outputs,
check, limit, outcome...) is one `Declaration`, which `Merged` carries over as the code does
each field: only where the row that was sent has none.

`TaskGraph` has one action for each operation of the window's commands, of the CLI,
of the import and of a restore. `detail` is the row that the detail view read and sends
back whole (`SaveDetail`), stale by then: an application's command on the task refreshes it,
the CLI's (`CliComment`, `CliDeclare`) does not. `report` is a ghost: what the last operation
imported and where each task of the file went, for `ImportFaithful`.

### RedGate and Runner

`RedGate` is the red gate of any number of nodes call by call: `RecordBase` (the tree before
a node was first tried), `Mark` (copies and marker of a node), `Revert` file by file,
`Tested`, `Restore` file by file, `Clear`; each may fail, the restore as a whole may be
refused (`RestoreRefused`), the process may die anywhere (`GateDies`) and the next run
restores every marker first (`RecoveryBegins`, `Recover`). A file is a version.

`Runner` EXTENDS it: the loop of `run.mjs` over `copy`, the clone of the board taken at
`LoadBoard`, while `board` is what the commands write and people move. A command
(`Moves`) is spared when the copy has the status already, is refused by the board, or
fails; each caller says what it does with the answer. `Round` stops, ends or takes a
wave (`BuildWave`); the steps of a wave interleave; results are applied in the order of
numbers when all have ended (`Applying`). A worker, a reviewer and a check may answer
anything. Ghosts: `tries` counts the attempts begun since ever, `refunds` those
recorded as mechanical, `slips` those whose start the board did not see, `touched`
the tasks people moved in this run. `moves` and `faults` count what people moved and the
refusals, deaths, interruptions and file errors.

### AlertRules and UsageLoop

`AlertRules` is one evaluation of the engine: `Dispatch`, the tier (level, limit,
reset), forecast, budget, the flush of what was suppressed. A percentage is one of
six classes, what the rules compare it with.

`UsageLoop` is the cycle around it, split where it awaits: `Wake` copies the settings
into `mine`, `Fetch` has the answer, `Judge` evaluates and decides on the start,
`Resolve` and `Start` are the requests of `auto_start`. `Configure` changes the shared
`cfg` at any moment, so `mine` may be old. `StartFails` covers a start that was carried
out and whose answer was lost. Ghosts: `told` and `news` are the alerts of this window
and of the last evaluation, `owed` those that were held back and not shown since, `tries`
and `served` count the starts tried and carried out.

### Transcripts and TaskUsage

`Transcripts`: other programs append lines to logs (`Grow`), of which a reader may see
half. A command `ingest_cc_usage` reads all saved states at its entry (`saw`), visits the
files, compares sizes (`Visit`), reads on from an offset in a saved context (`Read`),
inserts table by table, each in its own transaction (`Insert`), and saves the size it
saw *before* reading (`Save`). Two commands may do so at once. `lim` and `kept` are the
second reader, `latest_limits`. Ghosts: `short` (the last reading of the file failed),
`lim.must` and `lim.missed`. A day (`Days`) says which logs there will be and who reads.

`TaskUsage` EXTENDS it with the journal: `Bind` appends events whose times are not in
order; `EventsOf` enumerates a session's by time, then by place in the journal; `Blocks` is
their fold, `OpenStep` the fold that the keep-awake worker does on its own, `Judged` the
tiers of evidence, `Cost` the sums. A number may name several tasks: the code takes the first
row in the order of the file (`desk.order`, `FirstRow`). The reference definitions are not
folds: `WorkedOn` says with quantifiers over the journal when a session worked on a task.

### Instances and proofs

`MC...` modules hold the instances for TLC, `...Proofs` the theorems. Definitions whose
comment begins with "Mutant of" are not part of the model: each is a plausible mistake
in the code that a property must notice, and `PROJECT.json` names one for every
property of every passing run. `TypeOK` of each module states the types of its state;
the runs `BoardLock_nocrash` and `Runner` check it, where it says more than types (how
deep a thread nests; which steps run at once), the others leave it to the reader.

## Runs

| Run | Instance | Shows |
|---|---|---|
| `BoardLock_nocrash` | application with two threads and a command, nesting 2, one write each | `TypeOK`, `LockHasHolder`, `LockFreed`, and that the protocol implements `BoardStore` |
| `BoardLock_deadholder` | three processes, two of which may die at any step, torn lock files included | `MutualExclusion`, `NoLostUpdate`, `StealSparesLive`, `DeadLockCleared` |
| `BoardLock_lost_update` | a dead holder and three writers | violated: `NoLostUpdate` |
| `DataDirMigration` | two launches, two commands, two files, two faults | `NothingStranded`, `OneWriterPerDirectory`, `WritesSelected`, `SwitchedOnce`, `Settles` |
| `TodoWatch` | two tasks; the application writes twice from its start on, or once while another command loads, or once each with another program (with a window that hides, or at the start), or another program writes once under loads | `CacheCoherent`, `WindowAtRevision`, `WindowFollows`, `NoEcho` |
| `Mailbox_faults` | two messages of a task, two devices, three pollers, two faults | `AcceptedIsKept`, `MirrorNewest`, `OnceToADevice` |
| `Mailbox_lost_answer` | one message, one fault | violated: `EachDeviceGetsACopy` |
| `TaskGraph` | three tasks and two project boards; one task that depends on another, which may lack a number; three files to import, two declarations, four operations | `Frontier`, `DagKept`, `NumbersKept`, `WorkKept`, `ImportFaithful` |
| `UsageLoop` | two attempts, a queue of two, one failed request, one change of the settings, three turns of the account and the clock | `Escalates`, `StartsBounded`, `CountdownEnds`, `Delivered` |
| `Runner` | five changes of two nodes, two runs of each, two troubles | `TypeOK`, `AttemptLimit`, `WorkNeverLost`, `HandsOff`, `RunEnds` |
| `Runner_attempts` | one change, up to three runs, two troubles | violated: `NeverPastLimit` |
| `TaskUsage` | six days of logs, one or two faults, up to three events of the journal | `StoreTrue`, `LimitsNewest`, `BlocksFollowWork`, `CostsAgree`, `Counted` |

Why the bounds are enough to be of interest:

- `BoardLock`: the steal has three parts to play: who left the lock, who judged it
  stale first, and who took the board meanwhile; three processes play them all, and the
  fourth of `BoardLock_lost_update` is the writer that enters while a live lock is away. In
  `deadholder` two may die, so that who steals may leave a lock (or a claim) in its turn. One
  write of each thread is enough for a lost update (one write read before and carried out
  after another), and nesting 2 for an inner level that must not release. `nocrash` has two
  threads in a process, which share a registry. `LockHasHolder` and `LockFreed` are checked
  there only: with a dead holder a lock linked back may name a live process that has left.
- `DataDirMigration`: a second fault can strike the recovery from the first, a second
  launch meets the first one's migration, a second command the first one's lock.
- `TodoWatch`: two own writes are an installation under way and a second one after it; one of
  each side meets at every step of a command, of the watcher and of its start.
- `Mailbox`: two faults are a failed save and the restart that forgets it.
- `TaskGraph`: four operations are enough to open a detail view, have two others change
  the task and its neighbours, save, and go on; three tasks make a cycle longer than
  one edge and let an import fork one task next to two. One file meets the board's ids
  with an edge the other way and a citation, one is a list of which a row lacks a number,
  one has a number twice; there are rows with and without a time of update. Two declarations
  are an older and a newer one.
- `UsageLoop`: the fault is a lost answer or a failed try, which leaves one try of two; the
  queue overflows at two; three turns begin quiet hours, use the window and end it.
- `Runner`: `Fix` is a step and a gate that sends back to it, `Fixes` two red steps, each on
  files the other has written, `Pair` two steps at once, one with a budget and a flow and one
  without a limit, `Same` two nodes that declare one output, one of them for a person only,
  `Narrow` a gate with nothing to approve beside a red step, where one may run at a time. Two
  runs and two troubles are a crash in the middle and one more trouble in the run after it.
  `Runner_attempts` has one step that may be tried twice (`Twice`).
- `TaskUsage`: `Together` has two commands in one rollout, `Apart` failures between two
  tables and two files, `Twice` one id in two lines, `Limits` snapshots out of order,
  `Bound` a journal out of order, `Worked` every combination of evidence, also on a board
  where two tasks have one number, in either order.

`MaxDepth`, `MaxWrites`, `MaxFaults`, `MaxOps`, `MaxChanges`, `MaxTurns`, `MaxRuns`,
`MaxTrouble`, the numbers of a session, and `faults` and `binds` of a day are bounds of
the runs, not of the code. `MaxAttempts` and `MaxPending` are constants of the code
made smaller.

Deadlock is checked in the `BoardLock`, `Mailbox` and `UsageLoop` runs, whose threads
go round for ever. It is off in `DataDirMigration`, where every command has ended and
the application has migrated, in `TodoWatch`, where a session is over, in `TaskGraph`,
where the operations are used up, in `Runner`, where the runs are, and in `TaskUsage`,
where a day on which no command is given comes to its end.

## Fairness

- `BoardLock`: a thread that is scheduled goes on acquiring and stealing (the loops
  have a 15 s deadline and the callers come back), what it has begun under the lock
  ends (no call in a critical section waits for anything), and a body ends: strong
  fairness of `Leave`, because a body may begin another write instead each time.
  Nothing obliges a thread to load, to write or to nest.
- `DataDirMigration`: programs that were started run on; the user starts an
  application that failed again. Faults are bounded, as any finite run of them is.
- `TodoWatch`: the main thread and the watcher go on, a load that was begun ends, a
  hidden window is shown again some day. No command has to be given, no other
  program has to write, no reader has to run.
- `Mailbox`: the source repeats what was not answered
  (`docs/plans/external-integration-contract.md:172-175`) and the loops go on
  polling (`lib.rs:1651-1671`); no answer has to be lost.
- `UsageLoop`: the loop goes on (`Cycle`), a deadline passes, quiet hours end. Requests
  fail a bounded number of times; nobody has to change a setting or use the account.
- `Runner`: the process of a run takes its next step (`RunStep`): workers, reviewers
  and checks run under time limits and the loop awaits nothing else. Starting a run, a
  signal, a death, a person and a file error are not fair. The guard against a runaway
  loop (`run.mjs:2165`) is left out, so that `RunEnds` shows it is never needed.
- `TaskUsage`: windows are opened and refreshed again, so some command always takes
  another step (`Commands`, one weak fairness for all of them: which command runs is
  not promised). Nothing obliges a log to grow, the second reader to run or the journal
  to get an event; growth and faults are finite.

## Proofs

Eight modules. The theorems hold for any values of the constants that satisfy the named
assumptions of the modules, for any logs, changes, boards and bounds. The assumptions say
of what kind a constant is (`MarkerAssumption`, `RunnerAssumption`, `PendingAssumption`,
`UsagesAssumption` and others), that what stands for "nothing" is none of the things it
is told apart from (`DirAssumption`, `NothingAssumption`, `NoneAssumption`), and where
something is finite: the tasks (`RowAssumption`), the files (`TranscriptsAssumption`), the
pollers (`PollerAssumption`), the message ids (`UsageAssumption`). Where a theorem
needs more, it says so itself: `Crashable = {}` or `dead = {}`, one poller of a device.

`BoardLockProofs`:

- `TypeCorrect`: `Spec => []TypeOK`. `TypeOK` is not inductive alone, because
  `Leave` takes one from `depth[t]`: the invariant adds that a thread inside holds
  at least one level (`DepthOK`).
- `StealSafe`: no steal discards a live lock, for any processes, threads and deaths. Excepted
  are a stealer that judged an empty file (two empty files compare equal) and one whose
  process has another thread between its own rename and removal (they share a
  `.stale-<pid>`): TLC finds a live lock thrown away in either case. The inductive invariant
  says what a stealer knows: contents it has judged and that are not empty are those of a dead
  process (`SeenDead`), and the file it is about to throw away has them as long as no other
  thread of its process is at a claim (`ClaimSeen`).
- `LockExcludes`: until a process dies, at most one thread is in the
  read-modify-write, for any number of processes *and threads*. The invariant ties
  the three records of a tenure together: the lock file, the registry, the phase. A lock
  that could not be removed only keeps others out.
- `NothingLost`: from it, `NoLostUpdate`: a thread that has loaded sees the board as
  it is, because nobody else can write before it is done.
- `LockImplementsStore`: the refinement, initial states to initial states, `Commit`
  to `BoardStore!Write` and every other step to a stutter, where no process may die.
- `HolderBehindLock`: until a process dies, a lock that is there has its holder behind it, but
  for one that could not be removed.

`DataDirMigrationProofs`, for any numbers of launches, commands, files and faults. The
invariant `IInv` is `NothingStranded` with what makes it inductive: who is at a step under
the lock holds it (`HolderInv`), the legacy directory is the selected one until a launch
publishes (`LiveInv`), and what has been copied is still what the legacy directory holds
(`CopyInv`), which is so because the launch holds the lock that commands need to write there.

- `NoRecordStranded`: all records are in the directory that readers select.
- `OneWriter`, `CommandsWriteSelected`, `NeverSwitchedBack`: one writer in a directory,
  a command writes where readers look, a switch is never taken back.

`TodoWatchProofs`, for every session, with any number of own and foreign writes and readers.
`Dated` orders the versions a load has to do with: that of its stamp, of the contents, of the
file.

- `CacheMeansItsStamp`: from `Dated`, as nothing lies between equal versions. `Install` keeps it
  but for the version that crossed it (`crossed`): what was written is otherwise still in the
  file when its stamp is read.
- `WindowShowsItsRevision`: as long as nobody else has written what the window lacks, it has
  every row but the one that a command under way has moved (`Agreed`, `RowOnly`); after that,
  and as long as nothing has passed it by, it shows its revision (`Synced`).
- `NoEchoOfOneself`: what the application moved to review is in the file, in what is about to
  be installed and, when no command has yet to install it, in cache and snapshot (`Owned`);
  whoever compares holds the mutex.
- `WatchTyped`.

`MailboxProofs`. Memory may be ahead of the file after a failed save, never behind:

- `MailTyped`, `AcceptedStays`: what was answered is in the file (`Saved`), so a restart
  does not lose it.
- `NeverTwice`: a device gets no message twice, because what it got is marked in the file and a
  restart goes back to the file, not behind it (`Marked`).
- `MirrorStaysNewest`, for devices with one poller each: the mirror has the newest of all
  events it was given (`MirrorInv`). That the fold of one answer takes the last event
  in the order of time rests on `LastEvent`, which counts the events before each. Neither it
  nor the model needs recursion: an answer is *some* sequence of what is undelivered, in
  the order of arrival.

`TaskGraphProofs`:

- `FrontierNeverEmpty`: an acyclic board with an open task has one to work on,
  whatever deletions left in its edges. Among the open tasks there is one that reaches
  least (a well-founded minimum of cardinalities, so finiteness is needed); its
  prerequisites reach less, so none of them is open.
- `AddEdgeKeepsAcyclic`, `CliKeepsAcyclic`: an edge added after the code's search, and
  every command of the CLI that touches dependencies, keeps an acyclic board acyclic. That `on`
  does not reach `from` is witnessed by a closed set, and the proofs build such sets.
- `BoardAlwaysTyped`: every writer leaves a board of well-formed rows, an import included.
- `CyclesOnlyFromSaves`: the same for every step, by one lemma for each operation (`Keeps`).
  Only a row sent back by the detail view and a restored backup are excepted.
- `NumbersStayApart`: no operation but these two gives one number to two tasks, unless the
  imported file has a number twice. For an import, `NumberInv` says after each row: the
  numbers given are new to the board and differ, and one that is not below the next free
  number is the file's own. It needs the ascending order of the rows and `NumberedOnce`;
  without the latter the property is false: see [below](#what-the-models-show-of-the-code).
- `WorkAlwaysKept`: comments go only when they are removed; declarations and history change
  by their own commands, a restore, or a save of a view that had some of its own.
- `ImportsAlwaysFaithful`: an import leaves the rows of the board alone, brings every row of
  the file, redirects the references where numbers are unique, and plans nothing again but
  undated rows with dependencies, unless it forked one. `Reported` says it of the report and
  the board an import leaves, and `BoardInv` is `TypeOK` with `Reported` while there is a
  report; every other operation drops it. `LinkInv` says that the third pass touches only
  edges and times of the rows that arrived.

A fold in these proofs (and in `TranscriptsProofs`) is a recursive function of the library on
finite sets. `FoldExists` shows that such a function exists: of the sets on which none did,
one would be smallest. What it computes for a sequence follows from its trace, the values after
1, 2, ... rows: an invariant that holds before the first row and is kept by each holds after
the last, or there would be a least row where it fails. So no induction theorem is needed.

`RunnerProofs`, of the red gate and of the runner:

- `GateLosesNothing`, `GateLeavesTreeWhole`: what a step wrote is in its file or in a
  copy that a marker names; a gate that has ended has put everything back. Inductive:
  while nothing failed, the copies are what was left in the tree (`Copies`), a restore has
  done what it has crossed off (`Restored`), and nothing is left to do when the marker
  goes (`Finished`). Several nodes may be red.
- `RunnerKeepsGate`: the runner implements `GateSpec`: the gate's environment assumption
  (nobody produces while a marker stands, unless its restore failed) holds because a run
  recovers every marker before it loads the board and a gate ends before its node goes on
  (`RunInv`). With it `RunnerLosesNothing`, for any change and number of runs.
- `AttemptsLimited`: a node is tried no more often than the change allows, and once more for
  each refusal, cut-off run, file error or person's move. The guard compares what the copy or
  the run's own count says, so the invariant says how far these are from the truth: the board
  has counted every attempt that it saw begin and no more refunds than there were
  (`Counted`), what the run will count from is not below that (`Known`), and every attempt
  that the board did not see begin, or will not see, was paid for by a trouble of its own
  (`SlipInv`).
- `RunHandsOff`: the run knows what nobody else has moved, closes only what may be closed and
  takes out of people's hands only what the change says, or what is under way. The property
  speaks of the board and the run looks at its copy: `Sees` says that the two agree but for
  touched tasks, `Open` that a node under way was in nobody's hands when it was taken,
  `Standing` which results a step can have.
- `RunnerTyped`, `GateTyped`. `TypeOK` of the runner says that steps at once stay within the
  parallel limit and write different files. `WaveTogether` shows it of every wave,
  `WaveUnique` that the code's choice of a wave leaves none open.

`UsageLoopProofs`:

- `StartsAreBounded`. The loop has two memories of its starts, and the invariant says
  how far each is from the truth: a start that was carried out is a window on the server
  which the cycle sees before it may try again (`Seen`), and the attempt of the phase
  counts the tries, the one under way included (`Counted`).
- `AlertsEscalate`: every alert of the tier is more severe than all before it in its window. The
  engine remembers a level and a mark, the property speaks of the alerts: `Accounted` says that no
  alert of this window is more severe than what is remembered, through suppression and flush.
- `TypeCorrect`, which needs both invariants.

`TranscriptsProofs`:

- `StoreStaysTrue`: no saved offset passes a line whose row is missing, and every row is
  that of a reading from the beginning, for any logs, commands and failures. `StoreTrue`
  is not inductive, because commands hold offsets that were saved long before (`saw`,
  `job`) and save theirs much later: `Inv` says the same of these (`Saws`, `Readings`)
  and that an offset comes with the context of the lines before it (`States`).
- `LimitsStayNewest`: an answer of `latest_limits` is as new as any snapshot that was in a log
  when it was asked for, unless a file could not be read. `LimInv` says it of an answer under
  way: the snapshot asked for is in the answer so far or in a file still to be visited
  (`Asked`), and what is kept of a file stands for the lines up to its offset (`Kept`).
- `AfterTwice`: reading on from an offset in the context saved there gives the context of
  a reading from the beginning.
- `BlocksAlwaysFollowWork`: a message lies in a block of a task exactly if its session was
  bound to the task at its time, and the keep-awake worker sees the open blocks. `SortExists`
  and `SortedIsOnto` say that the events of a session have an order and that it leaves none
  out. `FoldInv` says after each event which events are open and which are shut, with the
  quantifiers of the reference definition: an event is shut by the first later one that starts a
  task or is about its own.
- `CostsAlwaysAgree`: every message of a judged session is in exactly one sum, that of one
  task or of what is ambiguous; what blocks say of a task is charged to it unless its session
  is ambiguous; a session that neither the journal nor an id binds pays for no task of another
  project. The sums are folds over sets of sessions and tasks; `SumIsSize` says that such a
  sum is the size of a union when the parts are disjoint, so that sums are compared as sets of
  messages.

Model-checked only:

- liveness, all of it (the prover has no fairness and no `ENABLED`): `LockFreed`,
  `DeadLockCleared`, `Settles`, `WindowFollows`, `CountdownEnds`, `Delivered`, `RunEnds` and
  `Counted`;
- once a process has died, everything of the lock but `StealSafe`: with three processes
  `MutualExclusion` and `NoLostUpdate` hold in the run, with four `NoLostUpdate` does not,
  so that the proof would have to count the survivors;
- of `Delivered`, also that the queue is what is owed.

## What the models show of the code

Three runs end in a violation; `PROJECT.json` quotes the lines.

1. `BoardLock_lost_update`. A steal moves a lock aside before it looks at it. A has loaded the
   board when a late stealer, which had judged the lock of a dead process, moves A's live lock
   aside; the board looks free, and C creates a lock, writes and releases; A's lock is linked
   back; A's fence finds it and passes, and A's rename puts a board without C's write in
   place. The fence does not help, because the lock is A's again by then. The window is a
   few file-system calls wide and needs a dead holder, a late stealer and two writers.
2. `Runner_attempts`. Attempts are counted from the entries into `in_progress` on the board. The
   move of a first attempt is refused, and the run goes on; in the second the process dies;
   the next run counts one attempt of two and begins a third.
3. `Mailbox_lost_answer`. Messages are marked as delivered before the answer is.

Some properties hold because their statement excepts, by name, what the code does otherwise;
these are losses of the code too, and the exception is the place to look at when it changes:

- `LockHasHolder` and `LockFreed` except a lock whose removal failed: the failure is ignored
  (`board_lock.rs:405`, `board-lock.mjs:184-186`), and the others wait until that process ends.
- `StealSparesLive`, `MutualExclusion` and `NoLostUpdate` except empty lock files of a dead
  creator, which compare equal to those of a live one.
- `CacheCoherent` excepts a foreign write between a transaction and its installation
  (`cache.rs:66-69`): ours is kept under its stamp until the next write. `WindowFollows` and
  `WindowAtRevision` except news that passed the window by: any load of the cache before the
  watcher's poll makes the poll match (`lib.rs:3487`), so no `todos-file-changed` is sent
  though the comment at `lib.rs:3428` promises one on a change; a write before the watcher's
  first stamp is taken for old; the answer of a request sent before the change comes after the
  watcher's event and clears the stale mark of a hidden window; the row of an own move brings
  the revision of a board that others had changed too; and the case of `CacheCoherent`.
- `AcceptedIsKept` excepts a retry after a failed save, which is answered 200 from the memory
  alone and lost in a restart, though `routes.rs:22-23` and
  `docs/plans/external-integration-contract.md:171-176` promise otherwise.
- `WorkKept` excepts declarations and history of which the detail view had some of its own when
  it was read: the older ones overwrite the newer (`todos.rs:1166-1205`). Description, plan,
  priority and status are sent in any case (`TodoWindow.vue:681-691`).
- `ImportFaithful` excepts rows without a time of update that have dependencies: their stamp
  is not restored (`todos.rs:1964`), they keep the time of the import, and a second import
  would fork them.
- `Delivered` excepts alerts that overflow the queue of suppressed ones (`engine.rs:500-505`)
  and those in it when notifications are switched off.
- `AttemptLimit` allows one more attempt for every trouble; see above.
- `HandsOff` excepts a task that a person touches while its step is under way: the result is
  applied over the person's move, though `run.mjs:1939-1940` says that the runner never takes
  a node back out of the human's column.
- `WorkNeverLost` excepts a file that could not be put back: the copy is removed all the same
  (`red-gate.mjs:413-414`); and a restore that was refused because the directory of the
  copies could not be had (`board-lock.mjs:251-262`).

With other instances of the same modules TLC also shows, and no run records:

- `BoardLock`: `LockHasHolder` fails once a lock has been linked back after its holder
  left (three processes, one dead at the start). With a dead holder and three others a
  release, which compares the lock and then removes it by name, removes another's
  (`docs/specs/tasks/spec.md:124` says that only its creator does).
- `TodoWatch`: a write of the application takes another program's move to review into its
  snapshot (`lib.rs:3147`) before the watcher has compared it, and no alert is raised. A board
  that cannot be read is answered with revision 0, which the window drops
  (`boardStore.ts:119`).
- `Mailbox`: `MirrorNewest` fails for a device with two pollers at once: both load, both
  save.
- `TaskGraph`: a number is used again after the task with the greatest number was deleted,
  though `todos.rs:41` and `todos.rs:1098` say never. The CLI's `set project` leaves edges
  between boards, which `dep add` refuses. A stale row that the detail view sends back
  may close a cycle or bring a number back, which is why `DagKept` and `NumbersKept`
  except `Save`, and two saves of one window drop entries of `status_history`. A second
  import of a file whose task was forked forks it again. A file with two tasks of one number,
  the next one of the board, leaves both with it, though a number is said to be assigned
  once: a row whose number is taken gets the counter `next_number`, which is not compared with
  what earlier rows of the file brought along (`todos.rs:1838-1846`). The file `Twins` of the
  instance shows it, `NumbersKept` excepts such files (`NumberedOnce`), and without the
  exception the run `TaskGraph` fails. The export of a board on which a stale save has
  brought a number back is such a file.
- `Runner`: the run never reads the board again. A node handed to a person at a gate is sent
  to the backlog in the next round if it was created more than a day ago, because a row in the
  copy has no entry into review to count from. The record that an attempt was mechanical goes
  when its number is recorded again. The recovery overwrites edits made since, and a second
  `--go` in the same tree restores in the middle of the first one's gate. A stop by the
  group's budget leaves the node outside `review`, though `run.mjs:36-41` says that all stops
  look the same.
- `UsageLoop`: a cycle that began before notifications were switched off evaluates after
  the engine was reset and primes it again, and `resolve_project` writes the id it found
  for the old account into the newer settings (`lib.rs:553`).
- `Transcripts`: a reading that fails is saved as a reading of the whole size, so its
  lines wait until the file grows (`Counted` excepts them by `short`). The first line of a
  message id wins, though a later one may hold more.
- `TaskUsage`: the sums of blocks are inclusive at both ends, so a message at the moment of a
  hand-over is in two blocks. When one of two bound tasks has been deleted, the whole session
  is charged to the other.

Read in the code while modelling, outside the models: the closing verdict of a task is
computed before the lock is taken and applied under it (`todos.mjs:1186-1212`); the
migration of the statistics schema runs its steps and sets its version one after another,
without a transaction around both (`stats/mod.rs:214`); the read of a damaged
board waits for the lock up to its whole timeout (`board-recover.mjs:97`); a failed write of
the lock's contents leaves an empty lock behind (`board_lock.rs:187`); the verify log is
written under a directory selected without the lock (`run.mjs:653`); the hook configuration
is compared with its stamp and then replaced (`lib.rs:2519`); the startup migration of
references takes the board lock and then the snapshot mutex, the other writers the reverse,
which the lock's timeout resolves (`lib.rs:3305`).

## Assumptions and what is left out

Assumed in the models:

- `BoardLock`: a process that is alive fills the lock it created within 30 s, and sets no
  lock file's time back: an unfilled lock is stale exactly when its creator is dead. A pid
  is not used again while a lock or a claim still names it. The `at` field of a lock is
  not compared with anything and is left out. The sweep of orphan temporaries is one
  step. Polling and the 15 s refusal are "idle": a refused thread and a waiting one do
  the same next. The retries of the Node writer's rename are one step, `Commit`. Giving
  back an inner level changes nothing but the depth. Of the lock's own file operations the
  read and the removal at a release may fail; the write of its contents, and the rename,
  read, link and removal of a steal, do what they are asked to (a process may die between any
  two of them).
- `TodoWatch`: two writes of the board leave different stamps (nanoseconds and length),
  the board file exists, and a write of the board is one step. Answers of commands reach
  the window in the order of the loads they rest on within the main thread.
- `DataDirMigration`: a quarantined directory plays no further part, and copying one file
  (or the database, by `VACUUM INTO`) is one step.
- `Mailbox`: devices are enrolled; requests of several accounts do not meet.
- `TaskGraph`: creation times are left out (rows without a number are numbered in any
  order), so are links and `on_issue`, which block nothing, and the texts of a task but
  for the numbers they cite. `new_id` never meets an id in use. The declarations of a task
  are one value, where the code carries over each field by itself. The rows of a file may lack
  a time of update; those that have one have another than the board gives at that moment.
- `Runner`: left out are snapshots and rollbacks of attempts, a base that is red before the
  step (and the stop for it), an attempt record that cannot be saved, the run log, the
  measurement of cost (a step costs 1), budgets inferred from earlier runs, and the driven
  mode, in which a person takes each step. Any number of nodes may be red. A group budget of
  `None` stands for one that is not used up. How long a node has been parked is not measured.
- `UsageLoop`: one tier (the others repeat its rules), no insights about a session, no HTTP
  layer. Time is not counted: a deadline passes, quiet hours begin and end at any moment.
- `Transcripts`: logs only grow, and the time of a file adds nothing to its size.
  Message ids are given (those of Codex contain the session). Backfilled columns and
  the manifests of subagents are left out, and the privacy switch is on.
- `TaskUsage`: every message counts one; no line of the journal is torn.
  The counters of explicit and automatic bindings are left out.

## Not modelled

For each component `PROJECT.json` has the reason; in short. Changes group tasks: their
gates read the rows that `TaskGraph` models and their proposals are texts checked for
form. The hook configuration is one compare and one rename in one process. Statistics
queries, corrections and the forecast are SQL aggregation and floating-point arithmetic:
the data is the whole of them. The graph caches are a memo behind a mutex whose key holds
the revision modelled in `TodoWatch`. Service status, the system monitor and the memory
view poll one external call each. The guard, the specification registry, agents and
engines interpret text and configuration; the interface, but for the task window's store
and its moves, is presentation; the repository's tooling does not run in the program.
