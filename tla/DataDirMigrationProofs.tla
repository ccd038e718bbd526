------------------------ MODULE DataDirMigrationProofs ------------------------
(***************************************************************************)
(* Theorems about DataDirMigration, for any set of launches, of commands   *)
(* and of files, and any number of faults.                                 *)
(***************************************************************************)
EXTENDS DataDirMigration, TLAPS

AppPhase == {"boot", "lock", "recheck", "clear", "clear_dst", "stage", "copy",
             "publish", "unlock", "failed", "running"}
CliPhase == {"select", "lock", "reselect", "write", "release", "ended"}

\* The phases of a launch under the source lock, and those in which it has
\* found work to do and not yet published.
Locked == {"recheck", "clear", "clear_dst", "stage", "copy", "publish", "unlock"}
Moving == {"clear", "clear_dst", "stage", "copy", "publish"}

\* The type invariant, with the phases of launches and commands told apart.
TypeInv ==
  /\ src \in Dir \cup {NoDir} /\ dst \in Dir \cup {NoDir}
  /\ staging \in Dir \cup {NoDir}
  /\ lock \in [Slot -> Process \cup {Nobody, Ghost}]
  /\ pc \in [Process -> AppPhase \cup CliPhase]
  /\ \A a \in App : pc[a] \in AppPhase
  /\ \A c \in Cli : pc[c] \in CliPhase
  /\ sel \in [Cli -> Slot]
  /\ copied \in [App -> SUBSET File]
  /\ written \in SUBSET Process
  /\ faults \in 0..MaxFaults

\* A process at work in a directory is the holder of that directory's lock.
HolderInv ==
  /\ \A a \in App : pc[a] \in Locked => lock["src"] = a
  /\ \A c \in Cli : pc[c] \in {"reselect", "write", "release"} => lock[sel[c]] = c

\* The legacy directory is live until a launch publishes; a launch leaves the
\* migration only onto a live new directory.
LiveInv ==
  /\ \A a \in App : pc[a] \in Moving => Selected = "src"
  /\ \A a \in App : pc[a] \in {"unlock", "running"} => Selected = "dst"
  /\ \A c \in Cli : pc[c] = "write" => sel[c] = Selected

\* What a launch has copied is what the legacy directory still holds.
CopyInv ==
  \A a \in App :
    /\ pc[a] \in {"copy", "publish"} =>
         /\ staging # NoDir
         /\ \A f \in copied[a] : staging.files[f] = src.files[f]
    /\ pc[a] = "publish" => copied[a] = File /\ staging.marker

IInv == TypeInv /\ HolderInv /\ LiveInv /\ CopyInv /\ NothingStranded

LEMMA EmptyDirOfType == EmptyDir \in Dir /\ Records(EmptyDir) = {}
<1>1. EmptyDir \in Dir
  BY DEF EmptyDir, Dir
<1>2. EmptyDir # NoDir
  BY <1>1, DirAssumption
<1> QED BY <1>1, <1>2 DEF EmptyDir, Records

\* A record is added to what a directory holds, and nothing else changes.
LEMMA AddKeeps ==
  ASSUME NEW x \in Process, NEW f \in File, NEW dir \in Dir \cup {NoDir}
  PROVE  /\ Add(x, f, dir) \in Dir /\ Add(x, f, dir) # NoDir
         /\ Add(x, f, dir).marker <=> dir # NoDir /\ dir.marker
         /\ Records(dir) \cup {x} \subseteq Records(Add(x, f, dir))
<1> DEFINE base == IF dir = NoDir THEN EmptyDir ELSE dir
<1>1. base \in Dir /\ base # NoDir
  BY EmptyDirOfType, DirAssumption
<1>2. /\ Records(base) = Records(dir)
      /\ base.marker <=> dir # NoDir /\ dir.marker
  BY EmptyDirOfType DEF Records, EmptyDir
<1> HIDE DEF base
<1>3. base.files \in [File -> SUBSET Process] /\ base.marker \in BOOLEAN
  BY <1>1 DEF Dir
<1>4. Add(x, f, dir) = [base EXCEPT !.files[f] = @ \cup {x}]
  BY DEF Add, base
<1>5. /\ Add(x, f, dir).files = [base.files EXCEPT ![f] = @ \cup {x}]
      /\ Add(x, f, dir).marker = base.marker
      /\ Add(x, f, dir) \in Dir
  BY <1>1, <1>3, <1>4 DEF Dir
<1>6. Add(x, f, dir) # NoDir
  BY <1>5, DirAssumption
<1>7. \A g \in File : base.files[g] \subseteq Add(x, f, dir).files[g]
  BY <1>3, <1>5
<1>8. x \in Add(x, f, dir).files[f]
  BY <1>3, <1>5
<1> QED BY <1>1, <1>2, <1>5, <1>6, <1>7, <1>8 DEF Records

LEMMA IInvInit == Init => IInv
<1> SUFFICES ASSUME Init PROVE IInv
  OBVIOUS
<1> USE DEF Init
<1>1. TypeInv
  BY EmptyDirOfType, NamesAssumption, FaultAssumption
     DEF TypeInv, Slot, Process, AppPhase, CliPhase
<1>2. HolderInv /\ CopyInv
  BY NamesAssumption DEF HolderInv, CopyInv, Locked, Process
<1>3. LiveInv
  BY NamesAssumption DEF LiveInv, Moving, Process
<1>4. NothingStranded
  BY DEF NothingStranded
<1> QED BY <1>1, <1>2, <1>3, <1>4 DEF IInv

\* The selection depends on the two directories only.
LEMMA SelectedFrame ==
  ASSUME UNCHANGED <<src, dst>>
  PROVE  Selected' = Selected /\ HasMarker' = HasMarker
  BY DEF Selected, HasMarker

\* Steps of phases and locks alone.  The invariant is kept if locks are lost
\* only by who gives them back, and the new phase of the process is earned.
LEMMA ControlStep ==
  ASSUME IInv, NEW x \in Process, NEW phase,
         x \in App => phase \in AppPhase, x \in Cli => phase \in CliPhase,
         Goto(x, phase),
         UNCHANGED <<src, dst, staging, copied, written>>,
         sel' \in [Cli -> Slot], faults' \in 0..MaxFaults,
         \A c \in Cli : c # x => sel'[c] = sel[c],
         lock' \in [Slot -> Process \cup {Nobody, Ghost}],
         \A d \in Slot : lock[d] \in Process \ {x} => lock'[d] = lock[d],
         x \in App /\ phase \in Locked => lock'["src"] = x,
         x \in App /\ phase \in Moving => Selected = "src",
         x \in App /\ phase \in {"unlock", "running"} => Selected = "dst",
         x \in App => phase \notin {"copy", "publish"},
         x \in Cli /\ phase \in {"reselect", "write", "release"} => lock'[sel'[x]] = x,
         x \in Cli /\ phase = "write" => sel'[x] = Selected
  PROVE  IInv'
<1> USE NamesAssumption DEF IInv, Process, Goto
<1>1. /\ pc' \in [Process -> AppPhase \cup CliPhase]
      /\ pc'[x] = phase
      /\ \A y \in Process : y # x => pc'[y] = pc[y]
  BY DEF TypeInv
<1>2. TypeInv'
  BY <1>1 DEF TypeInv
<1>3. HolderInv'
  BY <1>1 DEF TypeInv, HolderInv, Slot
<1>4. LiveInv'
  BY <1>1, SelectedFrame DEF LiveInv
<1>5. CopyInv'
  BY <1>1 DEF CopyInv
<1>6. NothingStranded'
  BY SelectedFrame DEF NothingStranded
<1> QED BY <1>2, <1>3, <1>4, <1>5, <1>6

\* Giving back and taking locks, as ControlStep wants it.
LEMMA LockSteps ==
  ASSUME TypeInv, NEW x \in Process, NEW d \in Slot
  PROVE  /\ Take(x, d) => /\ lock' \in [Slot -> Process \cup {Nobody, Ghost}]
                          /\ lock'[d] = x
                          /\ \A e \in Slot : lock[e] \in Process => lock'[e] = lock[e]
         /\ DropAll(x) => /\ lock' \in [Slot -> Process \cup {Nobody, Ghost}]
                          /\ \A e \in Slot : lock[e] # x => lock'[e] = lock[e]
  BY NamesAssumption DEF TypeInv, Take, DropAll, Process

LEMMA FaultOfType ==
  ASSUME TypeInv, Fault
  PROVE  faults' \in 0..MaxFaults
  BY FaultAssumption DEF TypeInv, Fault

\* The launches' steps that move no data.
LEMMA AppControl ==
  ASSUME IInv, NEW a \in App,
         LockSource(a) \/ Recheck(a) \/ Unlock(a) \/ Fail(a) \/ Relaunch(a)
  PROVE  IInv'
<1> USE NamesAssumption DEF Process, Slot
<1>0. TypeInv /\ HolderInv /\ a \notin Cli /\ a \in Process
  BY DEF IInv
<1>1. CASE LockSource(a)
  <2>1. /\ Goto(a, "recheck") /\ Take(a, "src")
        /\ UNCHANGED <<src, dst, staging, sel, copied, written, faults>>
    BY <1>1 DEF LockSource
  <2>2. sel' \in [Cli -> Slot] /\ faults' \in 0..MaxFaults
    BY <1>0, <2>1 DEF TypeInv
  <2> QED BY <1>0, <2>1, <2>2, LockSteps, ControlStep DEF AppPhase, Locked, Moving
<1>2. CASE Recheck(a)
  <2> DEFINE phase == IF HasMarker \/ src = NoDir THEN "unlock" ELSE "clear"
  <2>1. /\ Goto(a, phase)
        /\ UNCHANGED <<src, dst, staging, lock, sel, copied, written, faults>>
    BY <1>2 DEF Recheck
  <2>2. /\ sel' \in [Cli -> Slot] /\ faults' \in 0..MaxFaults
        /\ lock' \in [Slot -> Process \cup {Nobody, Ghost}]
    BY <1>0, <2>1 DEF TypeInv
  <2>3. lock'["src"] = a
    BY <1>0, <1>2, <2>1 DEF Recheck, HolderInv, Locked
  <2>4. /\ phase \in AppPhase /\ phase \notin {"copy", "publish"}
        /\ phase \in Moving => Selected = "src"
        /\ phase \in {"unlock", "running"} => Selected = "dst"
    BY DEF AppPhase, Moving, Selected
  <2> HIDE DEF phase
  <2> QED BY <1>0, <2>1, <2>2, <2>3, <2>4, ControlStep
<1>3. CASE Unlock(a)
  <2>1. /\ Goto(a, "running") /\ DropAll(a)
        /\ UNCHANGED <<src, dst, staging, sel, copied, written, faults>>
    BY <1>3 DEF Unlock
  <2>2. sel' \in [Cli -> Slot] /\ faults' \in 0..MaxFaults
    BY <1>0, <2>1 DEF TypeInv
  <2>3. Selected = "dst"
    BY <1>3 DEF IInv, LiveInv, Unlock
  <2> QED BY <1>0, <2>1, <2>2, <2>3, LockSteps, ControlStep DEF AppPhase, Locked, Moving
<1>4. CASE Fail(a)
  <2>1. /\ Goto(a, "failed") /\ DropAll(a) /\ Fault
        /\ UNCHANGED <<src, dst, staging, sel, copied, written>>
    BY <1>4 DEF Fail
  <2>2. sel' \in [Cli -> Slot] /\ faults' \in 0..MaxFaults
    BY <1>0, <2>1, FaultOfType DEF TypeInv
  <2> QED BY <1>0, <2>1, <2>2, LockSteps, ControlStep DEF AppPhase, Locked, Moving
<1>5. CASE Relaunch(a)
  <2>1. /\ Goto(a, "boot")
        /\ UNCHANGED <<src, dst, staging, lock, sel, copied, written, faults>>
    BY <1>5 DEF Relaunch
  <2>2. /\ sel' \in [Cli -> Slot] /\ faults' \in 0..MaxFaults
        /\ lock' \in [Slot -> Process \cup {Nobody, Ghost}]
    BY <1>0, <2>1 DEF TypeInv
  <2> QED BY <1>0, <2>1, <2>2, ControlStep DEF AppPhase, Locked, Moving
<1> QED BY <1>1, <1>2, <1>3, <1>4, <1>5

\* The commands' steps that move no data.
LEMMA CliControl ==
  ASSUME IInv, NEW c \in Cli,
         LockSelected(c) \/ Reselect(c) \/ Release(c) \/ Refuse(c)
  PROVE  IInv'
<1> USE NamesAssumption DEF Process, Slot
<1>0. TypeInv /\ HolderInv /\ c \notin App /\ c \in Process /\ sel[c] \in Slot
  BY DEF IInv, TypeInv
<1>1. CASE LockSelected(c)
  <2>1. /\ Goto(c, "reselect") /\ Take(c, sel[c])
        /\ UNCHANGED <<src, dst, staging, sel, copied, written, faults>>
    BY <1>1 DEF LockSelected
  <2>2. sel' \in [Cli -> Slot] /\ faults' \in 0..MaxFaults
    BY <1>0, <2>1 DEF TypeInv
  <2> QED BY <1>0, <2>1, <2>2, LockSteps, ControlStep DEF CliPhase
<1>2. CASE Reselect(c)
  <2> DEFINE phase == IF Selected = sel[c] THEN "write" ELSE "select"
  <2>1. /\ Goto(c, phase)
        /\ UNCHANGED <<src, dst, staging, lock, sel, copied, written, faults>>
    BY <1>2 DEF Reselect
  <2>2. /\ sel' \in [Cli -> Slot] /\ faults' \in 0..MaxFaults
        /\ lock' \in [Slot -> Process \cup {Nobody, Ghost}]
    BY <1>0, <2>1 DEF TypeInv
  <2>3. lock'[sel'[c]] = c
    BY <1>0, <1>2, <2>1 DEF Reselect, HolderInv
  <2>4. phase \in CliPhase /\ (phase = "write" => sel'[c] = Selected)
    BY <2>1 DEF CliPhase
  <2> HIDE DEF phase
  <2> QED BY <1>0, <2>1, <2>2, <2>3, <2>4, ControlStep
<1>3. CASE Release(c)
  <2>1. /\ Goto(c, "ended") /\ DropAll(c)
        /\ UNCHANGED <<src, dst, staging, sel, copied, written, faults>>
    BY <1>3 DEF Release
  <2>2. sel' \in [Cli -> Slot] /\ faults' \in 0..MaxFaults
    BY <1>0, <2>1 DEF TypeInv
  <2> QED BY <1>0, <2>1, <2>2, LockSteps, ControlStep DEF CliPhase
<1>4. CASE Refuse(c)
  <2>1. /\ Goto(c, "ended") /\ DropAll(c) /\ Fault
        /\ UNCHANGED <<src, dst, staging, sel, copied, written>>
    BY <1>4 DEF Refuse
  <2>2. sel' \in [Cli -> Slot] /\ faults' \in 0..MaxFaults
    BY <1>0, <2>1, FaultOfType DEF TypeInv
  <2> QED BY <1>0, <2>1, <2>2, LockSteps, ControlStep DEF CliPhase
<1> QED BY <1>1, <1>2, <1>3, <1>4

\* A process that dies leaves its locks to a dead holder.
LEMMA CrashControl ==
  ASSUME IInv, NEW x \in Process, Crash(x)
  PROVE  IInv'
<1> USE NamesAssumption DEF Process, Slot
<1> DEFINE phase == IF x \in App THEN "failed" ELSE "ended"
<1>1. /\ Goto(x, phase) /\ Fault
      /\ lock' = [d \in Slot |-> IF lock[d] = x THEN Ghost ELSE lock[d]]
      /\ UNCHANGED <<src, dst, staging, sel, copied, written>>
  BY DEF Crash
<1>2. /\ sel' \in [Cli -> Slot] /\ faults' \in 0..MaxFaults
      /\ lock' \in [Slot -> Process \cup {Nobody, Ghost}]
      /\ \A d \in Slot : lock[d] \in Process \ {x} => lock'[d] = lock[d]
  BY <1>1, FaultOfType DEF IInv, TypeInv
<1>3. /\ x \in App => phase = "failed"
      /\ x \in Cli => phase = "ended"
  OBVIOUS
<1> HIDE DEF phase
<1> QED BY <1>1, <1>2, <1>3, ControlStep DEF AppPhase, CliPhase, Locked, Moving

\* While a launch is under the source lock no other launch is, and no command
\* is at work in the legacy directory.
LEMMA Alone ==
  ASSUME HolderInv, NEW a \in App, pc[a] \in Locked
  PROVE  /\ \A b \in App : pc[b] \in Locked => b = a
         /\ \A c \in Cli : pc[c] \in {"reselect", "write", "release"} => sel[c] # "src"
  BY NamesAssumption DEF HolderInv

\* The migration's own work on the staging directory.
LEMMA StagingStep ==
  ASSUME IInv, NEW a \in App,
         Probe(a) \/ ClearStaging(a) \/ CreateStaging(a) \/ CopyFile(a) \/ WriteMarker(a)
  PROVE  IInv'
<1> USE NamesAssumption DEF Process, Slot, Goto
<1>0. /\ TypeInv /\ HolderInv /\ LiveInv /\ CopyInv /\ NothingStranded
      /\ a \notin Cli /\ a \in Process
  BY DEF IInv
<1>1. CASE Probe(a)
  <2>1. PICK phase \in {"running", "lock"} :
           /\ pc' = [pc EXCEPT ![a] = phase]
           /\ phase = "running" => Selected = "dst"
           /\ staging' = staging \/ (src = NoDir /\ ~HasMarker /\ staging' = NoDir)
           /\ UNCHANGED <<src, dst, lock, sel, copied, written, faults>>
    BY <1>1 DEF Probe, Selected
  <2>2. /\ pc' \in [Process -> AppPhase \cup CliPhase] /\ pc'[a] = phase
        /\ \A y \in Process : y # a => pc'[y] = pc[y]
    BY <1>0, <2>1 DEF TypeInv, AppPhase
  <2>3. TypeInv'
    BY <1>0, <2>1, <2>2 DEF TypeInv, AppPhase
  <2>4. HolderInv'
    BY <1>0, <2>1, <2>2 DEF HolderInv, Locked
  <2>5. LiveInv'
    BY <1>0, <2>1, <2>2, SelectedFrame DEF LiveInv, Moving
  <2>6. CopyInv'
    <3>1. \A b \in App : pc'[b] \in {"copy", "publish"} =>
                           pc[b] = pc'[b] /\ staging' = staging
      BY <1>0, <2>1, <2>2 DEF LiveInv, Moving, Selected
    <3> QED BY <1>0, <2>1, <3>1 DEF CopyInv
  <2>7. NothingStranded'
    BY <1>0, <2>1, SelectedFrame DEF NothingStranded
  <2> QED BY <2>3, <2>4, <2>5, <2>6, <2>7 DEF IInv
<1>2. ASSUME pc[a] \in Moving, NEW phase \in Moving,
             pc' = [pc EXCEPT ![a] = phase],
             staging' \in Dir \cup {NoDir}, copied' \in [App -> SUBSET File],
             UNCHANGED <<src, dst, lock, sel, written, faults>>,
             phase \in {"copy", "publish"} =>
               /\ staging' # NoDir
               /\ \A f \in copied'[a] : staging'.files[f] = src.files[f],
             phase = "publish" => copied'[a] = File /\ staging'.marker
      PROVE  IInv'
  <2>1. /\ pc' \in [Process -> AppPhase \cup CliPhase] /\ pc'[a] = phase
        /\ \A y \in Process : y # a => pc'[y] = pc[y]
    BY <1>0, <1>2 DEF TypeInv, AppPhase, Moving
  <2>2. pc[a] \in Locked /\ phase \in Locked
    BY <1>2 DEF Locked, Moving
  <2>3. TypeInv'
    BY <1>0, <1>2, <2>1 DEF TypeInv, AppPhase, Moving
  <2>4. HolderInv'
    BY <1>0, <1>2, <2>1, <2>2 DEF HolderInv
  <2>5. LiveInv'
    <3>1. Selected = "src"
      BY <1>0, <1>2 DEF LiveInv
    <3> QED BY <1>0, <1>2, <2>1, <3>1, SelectedFrame DEF LiveInv, Moving
  <2>6. CopyInv'
    <3>1. \A b \in App : pc'[b] \in {"copy", "publish"} => b = a
      BY <1>0, <2>1, <2>2, Alone DEF Locked
    <3> QED BY <1>2, <2>1, <3>1 DEF CopyInv
  <2>7. NothingStranded'
    BY <1>0, <1>2, SelectedFrame DEF NothingStranded
  <2> QED BY <2>3, <2>4, <2>5, <2>6, <2>7 DEF IInv
<1>3. CASE ClearStaging(a)
  BY <1>0, <1>2, <1>3 DEF ClearStaging, Moving, TypeInv
<1>4. CASE CreateStaging(a)
  <2>1. /\ pc[a] = "stage" /\ pc' = [pc EXCEPT ![a] = "copy"]
        /\ staging' = IF staging = NoDir THEN EmptyDir ELSE staging
        /\ copied' = [copied EXCEPT ![a] = {}]
        /\ UNCHANGED <<src, dst, lock, sel, written, faults>>
    BY <1>4 DEF CreateStaging
  <2>2. staging' \in Dir /\ staging' # NoDir
    BY <1>0, <2>1, EmptyDirOfType, DirAssumption DEF TypeInv
  <2>3. copied' \in [App -> SUBSET File] /\ copied'[a] = {}
    BY <1>0, <2>1 DEF TypeInv
  <2> QED BY <1>2, <2>1, <2>2, <2>3 DEF Moving
<1>5. CASE CopyFile(a)
  <2>1. /\ pc[a] = "copy" /\ pc' = pc
        /\ UNCHANGED <<src, dst, lock, sel, written, faults>>
    BY <1>5 DEF CopyFile
  <2>2. PICK f \in File \ copied[a] :
           /\ staging' = [staging EXCEPT !.files[f] = src.files[f]]
           /\ copied' = [copied EXCEPT ![a] = @ \cup {f}]
    BY <1>5 DEF CopyFile
  <2>3. /\ src # NoDir /\ src \in Dir /\ staging \in Dir
        /\ \A g \in copied[a] : staging.files[g] = src.files[g]
    BY <1>0, <2>1 DEF TypeInv, LiveInv, CopyInv, Moving, Selected
  <2>4. /\ src.files[f] \in SUBSET Process
        /\ staging.files \in [File -> SUBSET Process] /\ staging.marker \in BOOLEAN
    BY <2>3 DEF Dir
  <2>5. /\ staging' \in Dir
        /\ staging'.files = [staging.files EXCEPT ![f] = src.files[f]]
    BY <2>2, <2>3, <2>4 DEF Dir
  <2>6. copied' \in [App -> SUBSET File] /\ copied'[a] = copied[a] \cup {f}
    BY <1>0, <2>2 DEF TypeInv
  <2>7. \A g \in copied'[a] : staging'.files[g] = src.files[g]
    BY <1>0, <2>3, <2>4, <2>5, <2>6 DEF TypeInv
  <2>8. pc' = [pc EXCEPT ![a] = "copy"]
    BY <1>0, <2>1 DEF TypeInv
  <2> QED BY <1>2, <2>1, <2>5, <2>6, <2>7, <2>8, DirAssumption DEF Moving
<1>6. CASE WriteMarker(a)
  <2>1. /\ pc[a] = "copy" /\ pc' = [pc EXCEPT ![a] = "publish"]
        /\ copied[a] = File
        /\ staging' = [staging EXCEPT !.marker = TRUE]
        /\ UNCHANGED <<src, dst, lock, sel, copied, written, faults>>
    BY <1>6 DEF WriteMarker
  <2>2. /\ staging \in Dir
        /\ \A g \in copied[a] : staging.files[g] = src.files[g]
    BY <1>0, <2>1 DEF TypeInv, CopyInv
  <2>3. staging' \in Dir /\ staging'.files = staging.files /\ staging'.marker
    BY <2>1, <2>2 DEF Dir
  <2> QED BY <1>0, <1>2, <2>1, <2>2, <2>3, DirAssumption DEF Moving, TypeInv
<1> QED BY <1>1, <1>3, <1>4, <1>5, <1>6

\* The rename that makes the new directory appear and the one that removes
\* the old leftovers.
LEMMA DestinationStep ==
  ASSUME IInv, NEW a \in App, ClearDestination(a) \/ Publish(a)
  PROVE  IInv'
<1> USE NamesAssumption DEF Process, Slot, Goto
<1>0. /\ TypeInv /\ HolderInv /\ LiveInv /\ CopyInv /\ NothingStranded
      /\ a \notin Cli /\ a \in Process
  BY DEF IInv
<1>1. CASE ClearDestination(a)
  <2>1. /\ pc[a] = "clear_dst" /\ pc' = [pc EXCEPT ![a] = "stage"]
        /\ dst' = NoDir
        /\ UNCHANGED <<src, staging, lock, sel, copied, written, faults>>
    BY <1>1 DEF ClearDestination
  <2>2. /\ pc' \in [Process -> AppPhase \cup CliPhase] /\ pc'[a] = "stage"
        /\ \A y \in Process : y # a => pc'[y] = pc[y]
    BY <1>0, <2>1 DEF TypeInv, AppPhase
  <2>3. Selected = "src" /\ Selected' = "src"
    BY <1>0, <2>1 DEF LiveInv, Moving, Selected, HasMarker
  <2>4. TypeInv'
    BY <1>0, <2>1, <2>2 DEF TypeInv, AppPhase
  <2>5. HolderInv'
    BY <1>0, <2>1, <2>2 DEF HolderInv, Locked
  <2>6. LiveInv'
    BY <1>0, <2>1, <2>2, <2>3 DEF LiveInv, Moving
  <2>7. CopyInv'
    BY <1>0, <2>1, <2>2 DEF CopyInv
  <2>8. NothingStranded'
    BY <1>0, <2>1, <2>3 DEF NothingStranded, Records
  <2> QED BY <2>4, <2>5, <2>6, <2>7, <2>8 DEF IInv
<1>2. CASE Publish(a)
  <2>1. /\ pc[a] = "publish" /\ pc' = [pc EXCEPT ![a] = "unlock"]
        /\ dst' = staging /\ staging' = NoDir
        /\ UNCHANGED <<src, lock, sel, copied, written, faults>>
    BY <1>2 DEF Publish
  <2>2. /\ pc' \in [Process -> AppPhase \cup CliPhase] /\ pc'[a] = "unlock"
        /\ \A y \in Process : y # a => pc'[y] = pc[y]
    BY <1>0, <2>1 DEF TypeInv, AppPhase
  <2>3. /\ staging \in Dir /\ staging # NoDir /\ staging.marker
        /\ \A f \in File : staging.files[f] = src.files[f]
    BY <1>0, <2>1 DEF TypeInv, CopyInv
  <2>4. Selected = "src" /\ Selected' = "dst" /\ src # NoDir
    BY <1>0, <2>1, <2>3 DEF LiveInv, Moving, Selected, HasMarker
  <2>5. TypeInv'
    BY <1>0, <2>1, <2>2 DEF TypeInv, AppPhase
  <2>6. HolderInv'
    BY <1>0, <2>1, <2>2 DEF HolderInv, Locked
  <2>7. /\ \A b \in App : pc[b] \in Locked => b = a
        /\ \A c \in Cli : pc[c] \in {"reselect", "write", "release"} => sel[c] # "src"
    BY <1>0, <2>1, Alone DEF Locked
  <2>8. LiveInv'
    <3>1. \A c \in Cli : pc[c] # "write"
      BY <1>0, <2>4, <2>7 DEF LiveInv
    <3>2. \A b \in App : pc'[b] \notin Moving
      BY <2>2, <2>7 DEF Moving, Locked
    <3> QED BY <2>1, <2>2, <2>4, <3>1, <3>2 DEF LiveInv
  <2>9. CopyInv'
    BY <2>2, <2>7 DEF CopyInv, Locked
  <2>10. NothingStranded'
    <3>1. Records(src) = Records(staging)
      BY <2>3, <2>4 DEF Records
    <3> QED BY <1>0, <2>1, <2>4, <3>1 DEF NothingStranded, Records
  <2> QED BY <2>5, <2>6, <2>8, <2>9, <2>10 DEF IInv
<1> QED BY <1>1, <1>2

\* A record added to the live directory.  In the legacy directory this needs
\* that no launch is copying.
LEMMA RecordStep ==
  ASSUME IInv, NEW x \in Process, NEW f \in File,
         \/ Selected = "dst" /\ dst' = Add(x, f, dst) /\ UNCHANGED src
         \/ /\ Selected = "src" /\ src' = Add(x, f, src) /\ UNCHANGED dst
            /\ \A a \in App : pc[a] \notin {"copy", "publish"},
         written' = written \cup {x}, staging' = staging, copied' = copied
  PROVE  /\ src' \in Dir \cup {NoDir} /\ dst' \in Dir \cup {NoDir}
         /\ Selected' = Selected /\ NothingStranded' /\ (HasMarker' <=> HasMarker)
         /\ \A a \in App : pc[a] \in {"copy", "publish"} => src' = src
<1>0. TypeInv /\ NothingStranded /\ LiveInv
  BY DEF IInv
<1>1. CASE Selected = "dst" /\ dst' = Add(x, f, dst) /\ UNCHANGED src
  <2>1. /\ dst' \in Dir /\ dst' # NoDir
        /\ dst'.marker <=> dst # NoDir /\ dst.marker
        /\ Records(dst) \cup {x} \subseteq Records(dst')
    BY <1>0, <1>1, AddKeeps DEF TypeInv
  <2>2. HasMarker' <=> HasMarker
    BY <2>1 DEF HasMarker
  <2>3. Selected' = Selected
    BY <1>1, <2>2 DEF Selected
  <2> QED BY <1>0, <1>1, <2>1, <2>2, <2>3 DEF TypeInv, NothingStranded
<1>2. CASE /\ Selected = "src" /\ src' = Add(x, f, src) /\ UNCHANGED dst
           /\ \A a \in App : pc[a] \notin {"copy", "publish"}
  <2>1. /\ src' \in Dir /\ src' # NoDir
        /\ Records(src) \cup {x} \subseteq Records(src')
    BY <1>0, <1>2, AddKeeps DEF TypeInv
  <2>2. HasMarker' <=> HasMarker
    BY <1>2 DEF HasMarker
  <2>3. Selected' = "src"
    BY <1>2, <2>1, <2>2 DEF Selected
  <2> QED BY <1>0, <1>2, <2>1, <2>2, <2>3 DEF TypeInv, NothingStranded
<1> QED BY <1>1, <1>2

LEMMA AppWriteStep ==
  ASSUME IInv, NEW a \in App, AppWrite(a)
  PROVE  IInv'
<1> USE NamesAssumption DEF Process, Slot
<1>0. /\ TypeInv /\ HolderInv /\ LiveInv /\ CopyInv /\ Selected = "dst"
      /\ a \in Process
  BY DEF IInv, LiveInv, AppWrite
<1>1. PICK f \in File : dst' = Add(a, f, dst)
  BY DEF AppWrite
<1>2. /\ lock["dst"] \in {Nobody, Ghost}
      /\ lock' = [lock EXCEPT !["dst"] = Nobody]
      /\ written' = written \cup {a}
      /\ UNCHANGED <<src, staging, pc, sel, copied, faults>>
  BY DEF AppWrite
<1>3. /\ dst' \in Dir \cup {NoDir} /\ Selected' = Selected /\ NothingStranded'
  BY <1>0, <1>1, <1>2, RecordStep
<1>4. TypeInv'
  BY <1>0, <1>2, <1>3 DEF TypeInv
<1>5. HolderInv'
  <2>1. \A d \in Slot : lock[d] \in Process => lock'[d] = lock[d]
    BY <1>0, <1>2 DEF TypeInv
  <2> QED BY <1>0, <1>2, <2>1 DEF HolderInv, TypeInv
<1>6. LiveInv'
  BY <1>0, <1>2, <1>3 DEF LiveInv
<1>7. CopyInv'
  BY <1>0, <1>2 DEF CopyInv
<1> QED BY <1>3, <1>4, <1>5, <1>6, <1>7 DEF IInv

\* Making the new directory where there was none does not make it live.
LEMMA SelectStep ==
  ASSUME IInv, NEW c \in Cli, Select(c)
  PROVE  IInv'
<1> USE NamesAssumption DEF Process, Slot, Goto
<1>0. /\ TypeInv /\ HolderInv /\ LiveInv /\ CopyInv /\ NothingStranded
      /\ c \notin App /\ c \in Process
  BY DEF IInv
<1>1. /\ pc[c] = "select" /\ pc' = [pc EXCEPT ![c] = "lock"]
      /\ sel' = [sel EXCEPT ![c] = Selected]
      /\ dst' = IF Selected = "dst" /\ dst = NoDir THEN EmptyDir ELSE dst
      /\ UNCHANGED <<src, staging, lock, copied, written, faults>>
  BY DEF Select
<1>2. /\ pc' \in [Process -> AppPhase \cup CliPhase] /\ pc'[c] = "lock"
      /\ \A y \in Process : y # c => pc'[y] = pc[y]
  BY <1>0, <1>1 DEF TypeInv, CliPhase
<1>3. /\ sel' \in [Cli -> Slot]
      /\ \A b \in Cli : b # c => sel'[b] = sel[b]
  BY <1>0, <1>1 DEF TypeInv, Selected
<1>4. /\ dst' \in Dir \cup {NoDir} /\ (HasMarker' <=> HasMarker)
      /\ dst' # dst => dst = NoDir /\ dst' = EmptyDir /\ Selected = "dst"
  BY <1>0, <1>1, EmptyDirOfType DEF TypeInv, HasMarker, EmptyDir
<1>5. Selected' = Selected
  BY <1>1, <1>4 DEF Selected
<1>6. TypeInv'
  BY <1>0, <1>1, <1>2, <1>3, <1>4 DEF TypeInv, CliPhase
<1>7. HolderInv'
  BY <1>0, <1>1, <1>2, <1>3 DEF HolderInv
<1>8. LiveInv'
  BY <1>0, <1>2, <1>3, <1>5 DEF LiveInv
<1>9. CopyInv'
  BY <1>0, <1>1, <1>2 DEF CopyInv
<1>10. NothingStranded'
  BY <1>0, <1>1, <1>4, <1>5, EmptyDirOfType DEF NothingStranded, Records
<1> QED BY <1>6, <1>7, <1>8, <1>9, <1>10 DEF IInv

LEMMA WriteStep ==
  ASSUME IInv, NEW c \in Cli, Write(c)
  PROVE  IInv'
<1> USE NamesAssumption DEF Process, Slot, Goto
<1>0. /\ TypeInv /\ HolderInv /\ LiveInv /\ CopyInv
      /\ c \notin App /\ c \in Process
  BY DEF IInv
<1>1. /\ pc[c] = "write" /\ pc' = [pc EXCEPT ![c] = "release"]
      /\ written' = written \cup {c}
      /\ UNCHANGED <<staging, lock, sel, copied, faults>>
  BY DEF Write
<1>2. PICK f \in File :
        \/ sel[c] = "src" /\ src' = Add(c, f, src) /\ UNCHANGED dst
        \/ sel[c] = "dst" /\ dst' = Add(c, f, dst) /\ UNCHANGED src
  BY DEF Write
<1>3. sel[c] = Selected
  BY <1>0, <1>1 DEF LiveInv
<1>4. sel[c] = "src" => \A a \in App : pc[a] \notin Locked
  BY <1>0, <1>1, Alone
<1>5. /\ src' \in Dir \cup {NoDir} /\ dst' \in Dir \cup {NoDir}
      /\ Selected' = Selected /\ NothingStranded'
      /\ \A a \in App : pc[a] \in {"copy", "publish"} => src' = src
  BY <1>0, <1>1, <1>2, <1>3, <1>4, RecordStep DEF Locked
<1>6. /\ pc' \in [Process -> AppPhase \cup CliPhase] /\ pc'[c] = "release"
      /\ \A y \in Process : y # c => pc'[y] = pc[y]
  BY <1>0, <1>1 DEF TypeInv, CliPhase
<1>7. TypeInv'
  BY <1>0, <1>1, <1>5, <1>6 DEF TypeInv, CliPhase
<1>8. HolderInv'
  BY <1>0, <1>1, <1>6 DEF HolderInv
<1>9. LiveInv'
  BY <1>0, <1>1, <1>5, <1>6 DEF LiveInv
<1>10. CopyInv'
  BY <1>0, <1>1, <1>5, <1>6 DEF CopyInv
<1> QED BY <1>5, <1>7, <1>8, <1>9, <1>10 DEF IInv

\* Every step of a launch, of a command and every death keeps the invariant.
LEMMA IInvNext == IInv /\ [Next]_vars => IInv'
<1> SUFFICES ASSUME IInv, [Next]_vars PROVE IInv'
  OBVIOUS
<1>1. ASSUME NEW a \in App, Migrate(a) \/ Fail(a) \/ Relaunch(a) \/ AppWrite(a)
      PROVE  IInv'
  BY <1>1, AppControl, StagingStep, DestinationStep, AppWriteStep DEF Migrate
<1>2. ASSUME NEW c \in Cli, Command(c) \/ Refuse(c)
      PROVE  IInv'
  BY <1>2, CliControl, SelectStep, WriteStep DEF Command
<1>3. ASSUME NEW x \in Process, Crash(x)
      PROVE  IInv'
  BY <1>3, CrashControl
<1>4. CASE UNCHANGED vars
  BY <1>4 DEF vars, IInv, TypeInv, HolderInv, LiveInv, CopyInv, NothingStranded,
              Selected, HasMarker
<1> QED BY <1>1, <1>2, <1>3, <1>4 DEF Next

LEMMA Invariance == Spec => []IInv
<1> QED BY IInvInit, IInvNext, PTL DEF Spec

\* Whatever crashes, fails or is refused, and wherever: no record that was
\* written is in a directory that readers do not select.
THEOREM NoRecordStranded == Spec => []NothingStranded
<1>1. IInv => NothingStranded
  BY DEF IInv
<1> QED BY <1>1, Invariance, PTL

\* The lock of a directory, taken before the directory is selected again,
\* keeps two writers, and a writer and the copy, apart.
THEOREM OneWriter == Spec => []OneWriterPerDirectory
<1>1. IInv => OneWriterPerDirectory
  <2> SUFFICES ASSUME IInv, NEW x \in Process, NEW y \in Process,
                      pc[x] = "write", pc[y] \in {"write", "copy", "publish"},
                      y \in Cli => sel[x] = sel[y], y \in App => sel[x] = "src"
               PROVE  x = y
    BY DEF OneWriterPerDirectory
  <2>1. x \in Cli /\ lock[sel[x]] = x
    BY DEF IInv, TypeInv, HolderInv, Process, AppPhase
  <2>2. CASE y \in Cli
    <3>1. lock[sel[y]] = y
      BY <2>2 DEF IInv, TypeInv, HolderInv, CliPhase
    <3> QED BY <2>1, <2>2, <3>1
  <2>3. CASE y \in App
    <3>1. lock["src"] = y
      BY <2>3 DEF IInv, TypeInv, HolderInv, AppPhase, Locked
    <3> QED BY <2>1, <2>3, <3>1
  <2> QED BY <2>2, <2>3 DEF Process
<1> QED BY <1>1, Invariance, PTL

\* A command that writes does so where readers look at that moment.
THEOREM CommandsWriteSelected == Spec => WritesSelected
<1>1. IInv /\ [Next]_vars => [\A c \in Cli : Write(c) => sel[c] = Selected]_vars
  BY DEF IInv, LiveInv, Write
<1> QED BY <1>1, Invariance, PTL DEF Spec, WritesSelected

\* No step takes the marker of a live new directory away: the only one that
\* removes that directory is a launch that found no marker under the lock.
THEOREM NeverSwitchedBack == Spec => SwitchedOnce
<1>1. IInv /\ [Next]_vars => [HasMarker => HasMarker']_vars
  <2> SUFFICES ASSUME IInv, Next, HasMarker PROVE HasMarker'
    OBVIOUS
  <2>0. TypeInv /\ LiveInv /\ CopyInv /\ Selected = "dst"
    BY DEF IInv, Selected
  <2>1. ASSUME NEW a \in App, ClearDestination(a) \/ Publish(a)
        PROVE  HasMarker'
    BY <2>0, <2>1 DEF LiveInv, Moving, ClearDestination, Publish
  <2>2. ASSUME NEW a \in App, AppWrite(a)
        PROVE  HasMarker'
    <3>1. PICK f \in File : dst' = Add(a, f, dst)
      BY <2>2 DEF AppWrite
    <3> QED BY <2>0, <3>1, AddKeeps DEF HasMarker, TypeInv, Process
  <2>3. ASSUME NEW c \in Cli, Write(c)
        PROVE  HasMarker'
    <3>1. dst' = dst \/ \E f \in File : dst' = Add(c, f, dst)
      BY <2>3 DEF Write
    <3> QED BY <2>0, <3>1, AddKeeps DEF HasMarker, TypeInv, Process
  <2>4. ASSUME NEW c \in Cli, Select(c)
        PROVE  HasMarker'
    BY <2>4 DEF Select, HasMarker
  <2>5. CASE dst' = dst
    BY <2>5 DEF HasMarker
  <2>6. \/ dst' = dst
        \/ \E a \in App : ClearDestination(a) \/ Publish(a) \/ AppWrite(a)
        \/ \E c \in Cli : Write(c) \/ Select(c)
    BY DEF Next, Migrate, Command, Probe, LockSource, Recheck, ClearStaging,
           CreateStaging, CopyFile, WriteMarker, Unlock, Fail, Relaunch,
           LockSelected, Reselect, Release, Refuse, Crash
  <2> QED BY <2>1, <2>2, <2>3, <2>4, <2>5, <2>6
<1> QED BY <1>1, Invariance, PTL DEF Spec, SwitchedOnce
=============================================================================
