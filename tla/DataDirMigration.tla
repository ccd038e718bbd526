-------------------------- MODULE DataDirMigration --------------------------
(***************************************************************************)
(* The move of the data directory to its new name at the start of the app  *)
(* (src-tauri/src/kernel/data_dir.rs) against CLI writers that select the  *)
(* directory again under its board lock (withDataDir of board-lock.mjs,    *)
(* appDataDir of appdata.mjs).                                             *)
(*                                                                         *)
(* The board lock is taken here in one step that succeeds when the lock is *)
(* free or its holder is dead; module BoardLock models how.                *)
(***************************************************************************)
EXTENDS Naturals, FiniteSets

CONSTANTS
  App,        \* launches of the app
  Cli,        \* CLI commands, each writing one record
  File,       \* the files of a data directory
  MaxFaults,  \* bound: crashes, failed copies and refused locks
  NoDir,      \* a directory that does not exist
  Nobody,     \* the holder of a free lock
  Ghost       \* the holder of a lock whose process died

ASSUME NamesAssumption ==
  /\ App \cap Cli = {}
  /\ {Nobody, Ghost} \cap (App \cup Cli) = {} /\ Nobody # Ghost
ASSUME FaultAssumption == MaxFaults \in Nat

VARIABLES
  src,      \* the legacy directory
  dst,      \* the new directory
  staging,  \* <new>.migrating
  lock,     \* lock[d]: the holder of todos.json.lock in directory d
  pc,       \* pc[x]: where process x is
  sel,      \* sel[c]: the directory a command selected last
  copied,   \* copied[a]: the files launch a has copied
  written,  \* the processes whose record was written
  faults    \* how many faults happened

vars == <<src, dst, staging, lock, pc, sel, copied, written, faults>>

Process == App \cup Cli
Slot == {"src", "dst"}

\* A directory: the records in each of its files, and the migrated-from file.
\* A record is named after the process that wrote it.
Dir == [files : [File -> SUBSET Process], marker : BOOLEAN]
EmptyDir == [files |-> [f \in File |-> {}], marker |-> FALSE]

ASSUME DirAssumption == NoDir \notin Dir

HasMarker == dst # NoDir /\ dst.marker

\* marker exists in new || old directory does not exist ? new : old
Selected == IF HasMarker \/ src = NoDir THEN "dst" ELSE "src"

Records(dir) == IF dir = NoDir THEN {} ELSE UNION {dir.files[f] : f \in File}

Goto(x, phase) == pc' = [pc EXCEPT ![x] = phase]

\* Mutant of Take: the lock of a dead process is never free.
TakeFree(x, d) == lock[d] = Nobody /\ lock' = [lock EXCEPT ![d] = x]

Take(x, d) == /\ lock[d] \in {Nobody, Ghost}
              /\ lock' = [lock EXCEPT ![d] = x]
DropAll(x) == lock' = [d \in Slot |-> IF lock[d] = x THEN Nobody ELSE lock[d]]

\* Adding a record to a file of a directory makes the directory.
Add(x, f, dir) ==
  [(IF dir = NoDir THEN EmptyDir ELSE dir) EXCEPT !.files[f] = @ \cup {x}]

Fault == /\ faults < MaxFaults
         /\ faults' = faults + 1

Init ==
  /\ src \in {NoDir, EmptyDir}
  /\ dst \in {NoDir, EmptyDir}
  /\ staging = NoDir
  /\ lock = [d \in Slot |-> Nobody]
  /\ pc = [x \in Process |-> IF x \in App THEN "boot" ELSE "select"]
  /\ sel = [c \in Cli |-> "src"]
  /\ copied = [a \in App |-> {}]
  /\ written = {}
  /\ faults = 0

-----------------------------------------------------------------------------
(* migrate_with, run by every launch before anything else.                 *)

\* The checks before the lock: already migrated, nothing to migrate (then a
\* left-over staging directory is quarantined), or on to the lock.
Probe(a) ==
  /\ pc[a] = "boot"
  /\ \/ /\ HasMarker
        /\ Goto(a, "running")
        /\ UNCHANGED staging
     \/ /\ ~HasMarker /\ src = NoDir
        /\ staging' = NoDir
        /\ Goto(a, "running")
     \/ /\ ~HasMarker /\ src # NoDir
        /\ Goto(a, "lock")
        /\ UNCHANGED staging
  /\ UNCHANGED <<src, dst, lock, sel, copied, written, faults>>

\* Mutant of LockSource: the migration does not ask for the lock.
LockNothing(a) ==
  /\ pc[a] = "lock"
  /\ Goto(a, "recheck")
  /\ UNCHANGED <<src, dst, staging, lock, sel, copied, written, faults>>

LockSource(a) ==
  /\ pc[a] = "lock"
  /\ Take(a, "src")
  /\ Goto(a, "recheck")
  /\ UNCHANGED <<src, dst, staging, sel, copied, written, faults>>

\* Mutant of Recheck: the checks before the lock are enough.
RecheckNothing(a) ==
  /\ pc[a] = "recheck"
  /\ Goto(a, "clear")
  /\ UNCHANGED <<src, dst, staging, lock, sel, copied, written, faults>>

\* The checks again under the lock: another launch may have migrated.
Recheck(a) ==
  /\ pc[a] = "recheck"
  /\ IF HasMarker \/ src = NoDir THEN Goto(a, "unlock") ELSE Goto(a, "clear")
  /\ UNCHANGED <<src, dst, staging, lock, sel, copied, written, faults>>

\* quarantine(migrating), then quarantine(destination): each is renamed to
\* <name>.failed-<stamp>, out of the way of every selection.
ClearStaging(a) ==
  /\ pc[a] = "clear"
  /\ staging' = NoDir
  /\ Goto(a, "clear_dst")
  /\ UNCHANGED <<src, dst, lock, sel, copied, written, faults>>

ClearDestination(a) ==
  /\ pc[a] = "clear_dst"
  /\ dst' = NoDir
  /\ Goto(a, "stage")
  /\ UNCHANGED <<src, staging, lock, sel, copied, written, faults>>

CreateStaging(a) ==
  /\ pc[a] = "stage"
  /\ staging' = IF staging = NoDir THEN EmptyDir ELSE staging
  /\ copied' = [copied EXCEPT ![a] = {}]
  /\ Goto(a, "copy")
  /\ UNCHANGED <<src, dst, lock, sel, written, faults>>

\* copy_tree and VACUUM INTO, one file at a time.
CopyFile(a) ==
  /\ pc[a] = "copy"
  /\ \E f \in File \ copied[a] :
       /\ staging' = [staging EXCEPT !.files[f] = src.files[f]]
       /\ copied' = [copied EXCEPT ![a] = @ \cup {f}]
  /\ UNCHANGED <<src, dst, lock, pc, sel, written, faults>>

WriteMarker(a) ==
  /\ pc[a] = "copy"
  /\ copied[a] = File
  /\ staging' = [staging EXCEPT !.marker = TRUE]
  /\ Goto(a, "publish")
  /\ UNCHANGED <<src, dst, lock, sel, copied, written, faults>>

\* rename(migrating, destination) makes the whole directory appear at once.
Publish(a) ==
  /\ pc[a] = "publish"
  /\ dst' = staging
  /\ staging' = NoDir
  /\ Goto(a, "unlock")
  /\ UNCHANGED <<src, lock, sel, copied, written, faults>>

Unlock(a) ==
  /\ pc[a] = "unlock"
  /\ DropAll(a)
  /\ Goto(a, "running")
  /\ UNCHANGED <<src, dst, staging, sel, copied, written, faults>>

\* Any call of the migration may fail, or the lock may be refused: the lock
\* is dropped, the app shows the error and ends.
Fail(a) ==
  /\ pc[a] \in {"lock", "clear", "clear_dst", "stage", "copy", "publish"}
  /\ Fault
  /\ DropAll(a)
  /\ Goto(a, "failed")
  /\ UNCHANGED <<src, dst, staging, sel, copied, written>>

\* The user starts the app again.
Relaunch(a) ==
  /\ pc[a] = "failed"
  /\ Goto(a, "boot")
  /\ UNCHANGED <<src, dst, staging, lock, sel, copied, written, faults>>

\* A running app writes to the new directory, under that directory's lock.
AppWrite(a) ==
  /\ pc[a] = "running"
  /\ a \notin written
  /\ lock["dst"] \in {Nobody, Ghost}
  /\ \E f \in File : dst' = Add(a, f, dst)
  /\ lock' = [lock EXCEPT !["dst"] = Nobody]
  /\ written' = written \cup {a}
  /\ UNCHANGED <<src, staging, pc, sel, copied, faults>>

-----------------------------------------------------------------------------
(* withDataDir.                                                            *)

\* The directory is selected; taking its lock starts with making it.  A
\* selected legacy directory is there already.
Select(c) ==
  /\ pc[c] = "select"
  /\ sel' = [sel EXCEPT ![c] = Selected]
  /\ dst' = IF Selected = "dst" /\ dst = NoDir THEN EmptyDir ELSE dst
  /\ Goto(c, "lock")
  /\ UNCHANGED <<src, staging, lock, copied, written, faults>>

LockSelected(c) ==
  /\ pc[c] = "lock"
  /\ Take(c, sel[c])
  /\ Goto(c, "reselect")
  /\ UNCHANGED <<src, dst, staging, sel, copied, written, faults>>

\* Mutant of Reselect: the directory selected before the wait is used.
ReselectNothing(c) ==
  /\ pc[c] = "reselect"
  /\ Goto(c, "write")
  /\ UNCHANGED <<src, dst, staging, lock, sel, copied, written, faults>>

\* Under the lock: the same directory, and the body runs in it, or another
\* one, and withDataDir calls itself with the first lock still held.
Reselect(c) ==
  /\ pc[c] = "reselect"
  /\ IF Selected = sel[c] THEN Goto(c, "write") ELSE Goto(c, "select")
  /\ UNCHANGED <<src, dst, staging, lock, sel, copied, written, faults>>

\* The body: one record into one file of the directory it was given.
Write(c) ==
  /\ pc[c] = "write"
  /\ \E f \in File :
       \/ sel[c] = "src" /\ src' = Add(c, f, src) /\ UNCHANGED dst
       \/ sel[c] = "dst" /\ dst' = Add(c, f, dst) /\ UNCHANGED src
  /\ written' = written \cup {c}
  /\ Goto(c, "release")
  /\ UNCHANGED <<staging, lock, sel, copied, faults>>

\* Both levels give their locks back.
Release(c) ==
  /\ pc[c] = "release"
  /\ DropAll(c)
  /\ Goto(c, "ended")
  /\ UNCHANGED <<src, dst, staging, sel, copied, written, faults>>

\* The lock stays busy until the deadline: the command is refused, and gives
\* back the outer lock it may hold.
Refuse(c) ==
  /\ pc[c] = "lock"
  /\ lock[sel[c]] \notin {Nobody, Ghost}
  /\ Fault
  /\ DropAll(c)
  /\ Goto(c, "ended")
  /\ UNCHANGED <<src, dst, staging, sel, copied, written>>

-----------------------------------------------------------------------------

\* A process dies; its locks name a dead pid from now on.  The app may be
\* started again, a command is not.
Crash(x) ==
  /\ pc[x] \notin {"failed", "ended"}
  /\ Fault
  /\ lock' = [d \in Slot |-> IF lock[d] = x THEN Ghost ELSE lock[d]]
  /\ Goto(x, IF x \in App THEN "failed" ELSE "ended")
  /\ UNCHANGED <<src, dst, staging, sel, copied, written>>

Migrate(a) == \/ Probe(a) \/ LockSource(a) \/ Recheck(a) \/ ClearStaging(a)
              \/ ClearDestination(a) \/ CreateStaging(a) \/ CopyFile(a)
              \/ WriteMarker(a) \/ Publish(a) \/ Unlock(a)
Command(c) == \/ Select(c) \/ LockSelected(c) \/ Reselect(c) \/ Write(c)
              \/ Release(c)

Next == \/ \E a \in App : Migrate(a) \/ Fail(a) \/ Relaunch(a) \/ AppWrite(a)
        \/ \E c \in Cli : Command(c) \/ Refuse(c)
        \/ \E x \in Process : Crash(x)

Spec == Init /\ [][Next]_vars

\* Programs that were started run on; the user starts a failed app again.
FairSpec == /\ Spec
            /\ \A a \in App : WF_vars(Migrate(a)) /\ WF_vars(Relaunch(a))
            /\ \A c \in Cli : WF_vars(Command(c))

-----------------------------------------------------------------------------
(* Properties.                                                             *)

TypeOK ==
  /\ src \in Dir \cup {NoDir} /\ dst \in Dir \cup {NoDir}
  /\ staging \in Dir \cup {NoDir}
  /\ lock \in [Slot -> Process \cup {Nobody, Ghost}]
  /\ pc \in [Process -> {"boot", "lock", "recheck", "clear", "clear_dst", "stage",
                         "copy", "publish", "unlock", "failed", "running",
                         "select", "reselect", "write", "release", "ended"}]
  /\ sel \in [Cli -> Slot]
  /\ copied \in [App -> SUBSET File]
  /\ written \in SUBSET Process
  /\ faults \in 0..MaxFaults

\* Every record that was written is in the directory that readers select, at
\* every moment of the migration, whoever crashed where: writers do not split
\* the data across the two directories (README.md:148-151).
NothingStranded ==
  written \subseteq Records(IF Selected = "src" THEN src ELSE dst)

\* A command writes where readers look at that moment, not where it looked
\* before it waited for the lock.
WritesSelected ==
  [][\A c \in Cli : Write(c) => sel[c] = Selected]_vars

\* Two commands, or a command and the migration, are never at the same
\* directory at once, also when a command holds both locks.
OneWriterPerDirectory ==
  \A x, y \in Process :
    /\ pc[x] = "write" /\ pc[y] \in {"write", "copy", "publish"}
    /\ y \in Cli => sel[x] = sel[y]
    /\ y \in App => sel[x] = "src"
    => x = y

\* The directory is never switched back once the new one is live.
SwitchedOnce == [][HasMarker => HasMarker']_vars

\* Whatever fails, as long as failures end, the app comes up on a live
\* directory and every command ends.
Settles ==
  <>[](/\ \A a \in App : pc[a] = "running"
       /\ \A c \in Cli : pc[c] = "ended"
       /\ Selected = "dst")
=============================================================================
