----------------------------- MODULE BoardLock -----------------------------
(***************************************************************************)
(* The inter-process lock of the task board and the read-modify-write it   *)
(* protects: src-tauri/src/kernel/board_lock.rs with transact_if of        *)
(* src-tauri/src/board/todos.rs (the tray app, many threads in a process)  *)
(* and scripts/cli/kernel/board-lock.mjs with board-io.mjs (the CLI, one   *)
(* thread in a process).  Both follow the same protocol on the same files, *)
(* so one module models both; ProcOf tells which threads share a process.  *)
(*                                                                         *)
(* The files are todos.json (board), todos.json.lock (lock), the           *)
(* todos.json.lock.stale-<pid> a stealer renames a lock to (claim), and    *)
(* the todos.json.<digits>.tmp of each writer (tmp).                       *)
(***************************************************************************)
EXTENDS Naturals

CONSTANTS
  Thread,      \* the writers
  Proc,        \* operating-system processes (pids; a pid is never reused)
  ProcOf,      \* the process of each thread
  Crashable,   \* the processes that may die at any step
  TornCrash,   \* may a process die between creating the lock and filling it
  MaxDepth,    \* bound: how deep one thread nests withBoardLock / acquire
  MaxWrites,   \* bound: how many writes each thread commits
  NoLock       \* not a lock file

ASSUME ProcAssumption == ProcOf \in [Thread -> Proc]
ASSUME CrashAssumption == Crashable \subseteq Proc /\ TornCrash \in BOOLEAN
ASSUME BoundAssumption == MaxDepth \in Nat \ {0} /\ MaxWrites \in Nat
ASSUME NoLockAssumption == NoLock \notin [by : Thread, filled : BOOLEAN]

VARIABLES
  lock,    \* the file at todos.json.lock, or NoLock
  claim,   \* claim[p]: the file at todos.json.lock.stale-<p>, or NoLock
  dead,    \* the processes that died
  owner,   \* owner[p]: the threads the registry of process p lists (at most one)
  pc,      \* pc[t]: where thread t is
  depth,   \* depth[t]: how many nested acquisitions thread t holds
  seen,    \* seen[t]: the lock content t judged stale
  tmp,     \* the threads whose temporary board file exists
  view,    \* view[t]: the board as t last read it
  board,   \* todos.json: how many writes of each thread it contains
  done,    \* done[t]: how many writes of t were carried out
  stuck    \* history: the threads whose lock file could not be removed

lockVars == <<lock, claim, dead, owner, pc, depth, seen, stuck>>
fileVars == <<tmp, view, board, done>>
vars == <<lock, claim, dead, owner, pc, depth, seen, tmp, view, board, done, stuck>>

LockFile == [by : Thread, filled : BOOLEAN]
Board == [Thread -> Nat]
Phase == {"idle", "create", "fill", "inspect", "claim", "verify", "relink",
          "discard", "forget", "sweep", "held", "loaded", "staged", "affirmed",
          "release", "unlink"}

\* What a reader gets from a lock file.  An unfilled file reads as "" whoever
\* created it; a filled one names its creator.
Content(f) == IF f.filled THEN {f.by} ELSE {}

Alive(t) == ProcOf[t] \notin dead

At(t, phase) == pc[t] = phase /\ Alive(t)
Goto(t, phase) == pc' = [pc EXCEPT ![t] = phase]

\* What t read of the board, or of a stale lock, goes out of scope.
NothingRead == [u \in Thread |-> 0]
Forget(t) == view' = [view EXCEPT ![t] = NothingRead]

\* parse_holder succeeds and names the process of t.
NamesProcOf(t) == lock # NoLock /\ lock.filled /\ ProcOf[lock.by] = ProcOf[t]

\* Mutant of StaleLock: a lock nobody could fill is never stale.
StaleOnlyFilled == lock # NoLock /\ lock.filled /\ ProcOf[lock.by] \in dead

\* A parsed lock is stale when its pid is dead.  An unparsable one is stale
\* 30 s after its last write: a live creator fills it long before that.
StaleLock == lock # NoLock /\ ProcOf[lock.by] \in dead

\* t writes its content to the file it created, wherever that file is now.
FillOf(t, f) == IF f = [by |-> t, filled |-> FALSE]
                THEN [by |-> t, filled |-> TRUE] ELSE f

Init ==
  /\ lock = NoLock
  /\ claim = [p \in Proc |-> NoLock]
  /\ dead = {}
  /\ owner = [p \in Proc |-> {}]
  /\ pc = [t \in Thread |-> "idle"]
  /\ depth = [t \in Thread |-> 0]
  /\ seen = [t \in Thread |-> {}]
  /\ tmp = {}
  /\ view = [t \in Thread |-> NothingRead]
  /\ board = [t \in Thread |-> 0]
  /\ done = [t \in Thread |-> 0]
  /\ stuck = {}

-----------------------------------------------------------------------------
(* Taking the lock.  A thread is "idle" outside the protocol, between two  *)
(* polls, and after a refusal: the three differ by nothing it will do.     *)

\* One turn of the acquire loop begins; another thread of the process that
\* holds the registry entry keeps this one polling.
Attempt(t) ==
  /\ At(t, "idle")
  /\ owner[ProcOf[t]] = {}
  /\ Goto(t, "create")
  /\ UNCHANGED <<lock, claim, dead, owner, depth, seen, stuck>>
  /\ UNCHANGED fileVars

\* open(lock, "wx") / create_new: one creator wins, the rest see EEXIST.
Create(t) ==
  /\ At(t, "create")
  /\ \/ /\ lock = NoLock
        /\ lock' = [by |-> t, filled |-> FALSE]
        /\ Goto(t, "fill")
     \/ /\ lock # NoLock
        /\ Goto(t, "inspect")
        /\ UNCHANGED lock
  /\ UNCHANGED <<claim, dead, owner, depth, seen, stuck>>
  /\ UNCHANGED fileVars

\* The content goes to the open file, and the holder registers itself.
Fill(t) ==
  /\ At(t, "fill")
  /\ lock' = FillOf(t, lock)
  /\ claim' = [p \in Proc |-> FillOf(t, claim[p])]
  /\ owner' = [owner EXCEPT ![ProcOf[t]] = {t}]
  /\ depth' = [depth EXCEPT ![t] = 1]
  /\ Goto(t, "sweep")
  /\ UNCHANGED <<dead, seen, stuck>>
  /\ UNCHANGED fileVars

\* Every temporary board file is an orphan to a fresh holder.
Sweep(t) ==
  /\ At(t, "sweep")
  /\ tmp' = {}
  /\ Goto(t, "held")
  /\ UNCHANGED <<lock, claim, dead, owner, depth, seen, stuck>>
  /\ UNCHANGED <<view, board, done>>

\* The loser reads the lock: gone or held by a live process, it polls again
\* (or gives up at its deadline); stale, it goes on to steal it.
Inspect(t) ==
  /\ At(t, "inspect")
  /\ \/ /\ ~StaleLock
        /\ Goto(t, "idle")
        /\ UNCHANGED seen
     \/ /\ StaleLock
        /\ seen' = [seen EXCEPT ![t] = Content(lock)]
        /\ Goto(t, "claim")
  /\ UNCHANGED <<lock, claim, dead, owner, depth, stuck>>
  /\ UNCHANGED fileVars

-----------------------------------------------------------------------------
(* Stealing a stale lock: stealStaleLock / remove_stale.                   *)

\* rename(lock, lock.stale-<pid>): whatever file has the name by now.
Claim(t) ==
  /\ At(t, "claim")
  /\ \/ /\ lock = NoLock
        /\ Goto(t, "idle")
        /\ seen' = [seen EXCEPT ![t] = {}]
        /\ UNCHANGED <<lock, claim>>
     \/ /\ lock # NoLock
        /\ claim' = [claim EXCEPT ![ProcOf[t]] = lock]
        /\ lock' = NoLock
        /\ Goto(t, "verify")
        /\ UNCHANGED seen
  /\ UNCHANGED <<dead, owner, depth, stuck>>
  /\ UNCHANGED fileVars

\* Mutant of Verify: what was renamed is not compared with what was judged.
VerifyNothing(t) ==
  /\ At(t, "verify")
  /\ Goto(t, "discard")
  /\ UNCHANGED <<lock, claim, dead, owner, depth, seen, stuck>>
  /\ UNCHANGED fileVars

\* The claimed file is read back: the content judged stale, or another's.
Verify(t) ==
  LET claimed == claim[ProcOf[t]]
  IN  /\ At(t, "verify")
      /\ IF claimed # NoLock /\ Content(claimed) = seen[t]
         THEN Goto(t, "discard") ELSE Goto(t, "relink")
      /\ UNCHANGED <<lock, claim, dead, owner, depth, seen, stuck>>
      /\ UNCHANGED fileVars

\* link(lock.stale-<pid>, lock): the failure is ignored.
Relink(t) ==
  /\ At(t, "relink")
  /\ lock' = IF lock = NoLock THEN claim[ProcOf[t]] ELSE lock
  /\ Goto(t, "forget")
  /\ UNCHANGED <<claim, dead, owner, depth, seen, stuck>>
  /\ UNCHANGED fileVars

\* unlink(lock.stale-<pid>), stolen or linked back, and another turn of the
\* acquire loop.
Discard(t) ==
  /\ At(t, "discard") \/ At(t, "forget")
  /\ claim' = [claim EXCEPT ![ProcOf[t]] = NoLock]
  /\ seen' = [seen EXCEPT ![t] = {}]
  /\ Goto(t, "idle")
  /\ UNCHANGED <<lock, dead, owner, depth, stuck>>
  /\ UNCHANGED fileVars

-----------------------------------------------------------------------------
(* Under the lock: nested acquisitions and transactions.                   *)

Nest(t) ==
  /\ At(t, "held")
  /\ depth[t] < MaxDepth
  /\ depth' = [depth EXCEPT ![t] = @ + 1]
  /\ UNCHANGED <<lock, claim, dead, owner, pc, seen, stuck>>
  /\ UNCHANGED fileVars

\* Mutant of Leave: an off-by-one in the level that gives the lock back.
LeaveOneTooMany(t) ==
  /\ At(t, "held")
  /\ depth' = [depth EXCEPT ![t] = @ - 1]
  /\ IF depth[t] = 0 THEN Goto(t, "release") ELSE UNCHANGED pc
  /\ UNCHANGED <<lock, claim, dead, owner, seen, stuck>>
  /\ UNCHANGED fileVars

\* The body ends, with a result or with an exception: only the outermost
\* level goes on to the lock file.
Leave(t) ==
  /\ At(t, "held")
  /\ depth' = [depth EXCEPT ![t] = @ - 1]
  /\ IF depth[t] = 1 THEN Goto(t, "release") ELSE UNCHANGED pc
  /\ UNCHANGED <<lock, claim, dead, owner, seen, stuck>>
  /\ UNCHANGED fileVars

\* Mutant of Load: a writer goes on from the board it wrote last.
LoadCached(t) ==
  /\ At(t, "held")
  /\ view' = [view EXCEPT ![t][t] = done[t]]
  /\ Goto(t, "loaded")
  /\ UNCHANGED <<lock, claim, dead, owner, depth, seen, stuck>>
  /\ UNCHANGED <<tmp, board, done>>

\* load_for_write: a transaction starts from the board on disk.
Load(t) ==
  /\ At(t, "held")
  /\ view' = [view EXCEPT ![t] = board]
  /\ Goto(t, "loaded")
  /\ UNCHANGED <<lock, claim, dead, owner, depth, seen, stuck>>
  /\ UNCHANGED <<tmp, board, done>>

\* mutate fails, or changes nothing: transact_if writes nothing.
Skip(t) ==
  /\ At(t, "loaded")
  /\ Goto(t, "held")
  /\ Forget(t)
  /\ UNCHANGED <<lock, claim, dead, owner, depth, seen, stuck>>
  /\ UNCHANGED <<tmp, board, done>>

\* The changed board goes to the writer's temporary file.
Stage(t) ==
  /\ At(t, "loaded")
  /\ done[t] < MaxWrites
  /\ tmp' = tmp \cup {t}
  /\ Goto(t, "staged")
  /\ UNCHANGED <<lock, claim, dead, owner, depth, seen, stuck>>
  /\ UNCHANGED <<view, board, done>>

\* The fence before the rename: the lock still names this process, or the
\* write is refused.
Reaffirm(t) ==
  /\ At(t, "staged")
  /\ \/ NamesProcOf(t) /\ Goto(t, "affirmed") /\ UNCHANGED view
     \/ ~NamesProcOf(t) /\ Goto(t, "held") /\ Forget(t)
  /\ UNCHANGED <<lock, claim, dead, owner, depth, seen, stuck>>
  /\ UNCHANGED <<tmp, board, done>>

\* rename(tmp, board), which fails when the temporary file was swept.
Commit(t) ==
  /\ At(t, "affirmed")
  /\ Goto(t, "held")
  /\ Forget(t)
  /\ \/ /\ t \in tmp
        /\ tmp' = tmp \ {t}
        /\ board' = [view[t] EXCEPT ![t] = @ + 1]
        /\ done' = [done EXCEPT ![t] = @ + 1]
     \/ /\ t \notin tmp
        /\ UNCHANGED <<tmp, board, done>>
  /\ UNCHANGED <<lock, claim, dead, owner, depth, seen, stuck>>

-----------------------------------------------------------------------------
(* Giving the lock back: release_file / releaseBoardLock.                  *)

\* Mutant of Release: the registry entry goes, the file stays.
ReleaseRegistry(t) ==
  /\ At(t, "release")
  /\ Goto(t, "idle")
  /\ owner' = [owner EXCEPT ![ProcOf[t]] = {}]
  /\ UNCHANGED <<lock, claim, dead, depth, seen, stuck>>
  /\ UNCHANGED fileVars

\* The registry entry goes and the lock file stays.
LeaveFile(t) ==
  /\ Goto(t, "idle")
  /\ owner' = [owner EXCEPT ![ProcOf[t]] = {}]
  /\ UNCHANGED <<lock, claim, dead, depth, seen>>
  /\ UNCHANGED fileVars

\* The lock is read, and left alone unless it names this process: also when
\* it does and cannot be read.
Release(t) ==
  /\ At(t, "release")
  /\ \/ /\ NamesProcOf(t)
        /\ Goto(t, "unlink")
        /\ UNCHANGED <<owner, stuck>>
        /\ UNCHANGED <<lock, claim, dead, depth, seen>>
        /\ UNCHANGED fileVars
     \/ /\ LeaveFile(t)
        /\ stuck' = IF NamesProcOf(t) THEN stuck \cup {lock.by} ELSE stuck

\* unlink(lock): whatever file has the name by now.  A failure is ignored.
Unlink(t) ==
  /\ At(t, "unlink")
  /\ \/ /\ lock' = NoLock
        /\ owner' = [owner EXCEPT ![ProcOf[t]] = {}]
        /\ Goto(t, "idle")
        /\ UNCHANGED <<claim, dead, depth, seen, stuck>>
        /\ UNCHANGED fileVars
     \/ /\ LeaveFile(t)
        /\ stuck' = IF lock = NoLock THEN stuck ELSE stuck \cup {lock.by}

\* A process dies: its files stay as they are, what it had in memory is gone.
\* A thread that died before filling its lock keeps its phase, as a mark.
Crash(p) ==
  LET Lost(t) == ProcOf[t] = p
  IN  /\ p \in Crashable \ dead
      /\ TornCrash \/ \A t \in Thread : Lost(t) => pc[t] # "fill"
      /\ dead' = dead \cup {p}
      /\ owner' = [owner EXCEPT ![p] = {}]
      /\ pc' = [t \in Thread |-> IF Lost(t) /\ pc[t] # "fill" THEN "idle" ELSE pc[t]]
      /\ depth' = [t \in Thread |-> IF Lost(t) THEN 0 ELSE depth[t]]
      /\ seen' = [t \in Thread |-> IF Lost(t) THEN {} ELSE seen[t]]
      /\ view' = [t \in Thread |-> IF Lost(t) THEN NothingRead ELSE view[t]]
      /\ UNCHANGED <<lock, claim, tmp, board, done, stuck>>

Acquiring(t) == Attempt(t) \/ Create(t) \/ Fill(t) \/ Sweep(t) \/ Inspect(t)
Stealing(t) == Claim(t) \/ Verify(t) \/ Relink(t) \/ Discard(t)
Writing(t) == Load(t) \/ Skip(t) \/ Stage(t) \/ Reaffirm(t) \/ Commit(t)
Leaving(t) == Leave(t) \/ Release(t) \/ Unlink(t)

Step(t) == Acquiring(t) \/ Stealing(t) \/ Nest(t) \/ Writing(t) \/ Leaving(t)

Next == \/ \E t \in Thread : Step(t)
        \/ \E p \in Proc : Crash(p)

Spec == Init /\ [][Next]_vars

(***************************************************************************)
(* A live thread is scheduled, and a body under the lock ends: both        *)
(* programs run their critical sections to the end and keep coming back    *)
(* for the board.  Nothing obliges a thread to write.                      *)
(***************************************************************************)
Fairness == \A t \in Thread :
              /\ WF_vars(Acquiring(t) \/ Stealing(t))
              /\ WF_vars(Skip(t) \/ Reaffirm(t) \/ Commit(t))
              /\ WF_vars(Release(t) \/ Unlink(t))
              /\ SF_vars(Leave(t)) /\ SF_vars(depth[t] = 1 /\ Leave(t))

FairSpec == Spec /\ Fairness

-----------------------------------------------------------------------------
(* Properties.                                                             *)

\* Threads that believe they hold the lock.
Believers == {t \in Thread : Alive(t) /\ pc[t] \in
               {"sweep", "held", "loaded", "staged", "affirmed"}}

TypeOK ==
  /\ lock \in LockFile \cup {NoLock}
  /\ claim \in [Proc -> LockFile \cup {NoLock}]
  /\ dead \in SUBSET Proc
  /\ owner \in [Proc -> SUBSET Thread]
  /\ pc \in [Thread -> Phase]
  /\ depth \in [Thread -> 0..MaxDepth]
  /\ seen \in [Thread -> SUBSET Thread]
  /\ tmp \in SUBSET Thread
  /\ view \in [Thread -> Board]
  /\ board \in Board
  /\ done \in Board
  /\ stuck \in SUBSET Thread

\* A process died between creating its lock and filling it.
TornDeath == \E t \in Thread : ~Alive(t) /\ pc[t] = "fill"

\* At most one live thread is inside the read-modify-write of the board,
\* unless a death left an empty lock file: two empty files compare equal.
MutualExclusion == TornDeath \/ \A t, u \in Believers : t = u

\* Every write that was carried out is still in the board: no other writer
\* replaced the board by one it had read before that write.  Excepted is the
\* empty lock file of a dead process, as above.
NoLostUpdate == TornDeath \/ board = done

\* A thread between the rename of a lock and the removal of the renamed file.
Clearing(t) == pc[t] \in {"verify", "relink", "discard", "forget"}

\* The file a stealer throws away without having put it back is no lock of a
\* live process: two stealers do not remove each other's fresh lock.  Two
\* cases are excepted: what the stealer had judged was an empty file, and
\* another thread of its process uses the same name for its own steal.
SparesLive(t) ==
  /\ Discard(t) /\ pc[t] = "discard" /\ claim[ProcOf[t]] # NoLock
  /\ seen[t] # {}
  /\ \A u \in Thread \ {t} : ProcOf[u] = ProcOf[t] => ~Clearing(u)
  => ProcOf[claim[ProcOf[t]].by] \in dead

StealSparesLive == [][\A t \in Thread : SparesLive(t)]_vars

\* A lock that names a live process has a thread of that process behind it:
\* nobody waits for a holder that has already left.  Excepted is the lock
\* that could not be removed: it stays until its process ends.
LockHasHolder ==
  lock # NoLock /\ lock.filled /\ Alive(lock.by) /\ lock.by \notin stuck
    => \E t \in Thread : /\ ProcOf[t] = ProcOf[lock.by]
                         /\ pc[t] \notin {"idle", "create", "inspect", "claim",
                                          "verify", "relink", "discard", "forget"}

Store == INSTANCE BoardStore WITH Writer <- Thread

\* Every write is one atomic step on the board as it is at that moment: the
\* lock, the fence and the rename implement BoardStore.
ImplementsStore == Store!Spec

\* The lock of a dead process does not stay: some waiter steals it.
DeadLockCleared ==
  (lock # NoLock /\ ~Alive(lock.by)) ~> (lock = NoLock \/ Alive(lock.by))

\* No holder keeps the lock for ever, except one that failed to remove it.
LockFreed == lock # NoLock ~> (lock = NoLock \/ lock.by \in stuck)
=============================================================================
