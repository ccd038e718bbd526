------------------------------ MODULE RedGate ------------------------------
(***************************************************************************)
(* The red gate of a headless step (scripts/cli/process/red-gate.mjs).  A  *)
(* step that promises a regression test must show the test failing on the  *)
(* code before the step: the gate copies what the step produced aside,     *)
(* writes a marker, puts the old files in place, runs the test and puts    *)
(* the step's files back.  The process may die at any point; the next run  *)
(* in the same tree restores what a marker names.                          *)
(*                                                                         *)
(* A file is a version: 0 at first, else what somebody wrote later.  The   *)
(* copies without a marker, which nothing reads, are left out.             *)
(***************************************************************************)
EXTENDS Integers

CONSTANTS
  File,  \* the production files of the steps
  Node,  \* the steps
  None   \* no base, no marker

ASSUME MarkerAssumption == \A S \in SUBSET File : None \notin [S -> Nat]

VARIABLES
  tree,    \* the working tree
  latest,  \* what the workers left in it last
  base,    \* step_base: the tree before a step was first tried, or None
  marker,  \* the copies that a step's marker.json names, or None
  due,     \* the steps whose markers the recovery has still to see
  who,     \* whose gate it is or was last, or whose marker is recovered
  gate,    \* where the gate is
  left,    \* the files that the current phase has to do
  verdict, \* what the gate will answer
  failed   \* a file could not be put back, or a marker not be removed

phaseVars == <<due, who, gate, left, verdict>>
gateVars == <<tree, latest, base, marker, phaseVars, failed>>

Tree == [File -> Nat]
IsMarker(m) == \E S \in SUBSET File : m \in [S -> Nat]

GateTypeOK ==
  /\ tree \in Tree /\ latest \in Tree
  /\ base \in [Node -> Tree \cup {None}]
  /\ DOMAIN marker = Node /\ \A t \in Node : marker[t] = None \/ IsMarker(marker[t])
  /\ due \subseteq Node /\ who \in Node \cup {None} /\ (gate # "idle" => who \in Node)
  /\ gate \in {"idle", "revert", "red", "restore", "clear"}
  /\ left \subseteq File
  /\ verdict \in {"none", "ok", "issue"}
  /\ failed \in BOOLEAN

GateInit ==
  /\ tree = [f \in File |-> 0] /\ latest = tree
  /\ base = [t \in Node |-> None] /\ marker = base
  /\ due = {} /\ who = None
  /\ gate = "idle" /\ left = {}
  /\ verdict = "none"
  /\ failed = FALSE

Marked == {t \in Node : marker[t] # None}

\* recordStepBase: once for a step.
RecordBase(t) ==
  /\ gate = "idle" /\ base[t] = None
  /\ base' = [base EXCEPT ![t] = tree]
  /\ UNCHANGED <<tree, latest, marker, phaseVars, failed>>

\* A worker writes some of the files.
Produce(S, version) ==
  /\ gate = "idle"
  /\ tree' = [f \in File |-> IF f \in S THEN version ELSE tree[f]]
  /\ latest' = tree'
  /\ UNCHANGED <<base, marker, phaseVars, failed>>

\* computeRevertSet
Changed(t) == {f \in File : tree[f] # base[t][f]}

\* writeMarker, which is complete with marker.json: a step to run the test against.
Mark(t) ==
  /\ gate = "idle" /\ base[t] # None /\ Changed(t) # {}
  /\ marker' = [marker EXCEPT ![t] = [f \in Changed(t) |-> tree[f]]]
  /\ who' = t
  /\ gate' = "revert" /\ left' = Changed(t)
  /\ verdict' = "none"
  /\ UNCHANGED <<tree, latest, base, due, failed>>

\* applyBase, file by file
Revert(f) ==
  /\ gate = "revert" /\ f \in left
  /\ tree' = [tree EXCEPT ![f] = base[who][f]]
  /\ left' = left \ {f}
  /\ gate' = IF left' = {} THEN "red" ELSE "revert"
  /\ UNCHANGED <<latest, base, marker, due, who, verdict, failed>>

Restoring == gate' = "restore" /\ left' = DOMAIN marker[who]

\* applyBase or the command throws: the gate restores and is not passed.
RevertFails ==
  /\ gate \in {"revert", "red"}
  /\ Restoring
  /\ verdict' = "issue"
  /\ UNCHANGED <<tree, latest, base, marker, due, who, failed>>

\* The test has run on the old files: it must fail.
Tested ==
  /\ gate = "red"
  /\ Restoring
  /\ verdict' \in {"ok", "issue"}
  /\ UNCHANGED <<tree, latest, base, marker, due, who, failed>>

\* withDataDir throws where the gate would restore (the lock of the directory is not to be
\* had): nothing is put back, the marker stays for the next run.
RestoreRefused ==
  /\ gate \in {"revert", "red"}
  /\ gate' = "idle" /\ left' = {}
  /\ verdict' = "issue" /\ failed' = TRUE
  /\ UNCHANGED <<tree, latest, base, marker, due, who>>

\* Mutant of Restore: recovery takes the old files for the step's.
RestoreNothing(f) ==
  /\ gate = "restore" /\ f \in left
  /\ left' = left \ {f}
  /\ gate' = IF left' = {} THEN "clear" ELSE "restore"
  /\ UNCHANGED <<tree, latest, base, marker, due, who, verdict, failed>>

\* restoreWorker, file by file
Restore(f) ==
  /\ gate = "restore" /\ f \in left
  /\ tree' = [tree EXCEPT ![f] = marker[who][f]]
  /\ left' = left \ {f}
  /\ gate' = IF left' = {} THEN "clear" ELSE "restore"
  /\ UNCHANGED <<latest, base, marker, due, who, verdict, failed>>

\* A file cannot be written: the gate tells and goes on.
RestoreFails(f) ==
  /\ gate = "restore" /\ f \in left
  /\ left' = left \ {f}
  /\ gate' = IF left' = {} THEN "clear" ELSE "restore"
  /\ verdict' = "issue" /\ failed' = TRUE
  /\ UNCHANGED <<tree, latest, base, marker, due, who>>

\* removeMarkerDir
Clear ==
  /\ gate = "clear"
  /\ marker' = [marker EXCEPT ![who] = None]
  /\ gate' = "idle"
  /\ UNCHANGED <<tree, latest, base, due, who, left, verdict, failed>>

ClearFails ==
  /\ gate = "clear"
  /\ gate' = "idle"
  /\ verdict' = "issue" /\ failed' = TRUE
  /\ UNCHANGED <<tree, latest, base, marker, due, who, left>>

\* The process dies.
GateDies ==
  /\ gate' = "idle" /\ left' = {} /\ verdict' = "none" /\ due' = {}
  /\ UNCHANGED <<tree, latest, base, marker, who, failed>>

\* recoverMarkers, before anything else in a run: every marker in turn
RecoveryBegins ==
  /\ gate = "idle"
  /\ due' = Marked
  /\ UNCHANGED <<tree, latest, base, marker, who, gate, left, verdict, failed>>

Recover(t) ==
  /\ gate = "idle" /\ t \in due
  /\ due' = due \ {t} /\ who' = t
  /\ gate' = "restore" /\ left' = DOMAIN marker[t]
  /\ verdict' = "none"
  /\ UNCHANGED <<tree, latest, base, marker, failed>>

GateStep ==
  \/ Tested \/ RevertFails \/ RestoreRefused \/ Clear \/ ClearFails
  \/ \E f \in File : Revert(f) \/ Restore(f) \/ RestoreFails(f)

\* A worker waits for the gate, and for the recovery from a gate that was cut off.
GateNext ==
  \/ /\ due = {} /\ (Marked = {} \/ failed)
     /\ \/ \E S \in SUBSET File, version \in Nat : Produce(S, version)
        \/ \E t \in Node : RecordBase(t) \/ Mark(t)
  \/ GateStep \/ GateDies \/ RecoveryBegins \/ \E t \in Node : Recover(t)

GateSpec == GateInit /\ [][GateNext]_gateVars

\* What a step left in a file is in the file or in a copy that a marker names, at any
\* moment of a gate, after a crash in it and during the recovery.  Only a failure to put a
\* file back, which the gate tells, can lose it.
WorkNeverLost ==
  failed \/ \A f \in File :
    \/ tree[f] = latest[f]
    \/ \E t \in Marked : f \in DOMAIN marker[t] /\ marker[t][f] = latest[f]

\* A gate that has come to its end has put everything back.
TreeWhole == gate = "idle" /\ Marked = {} /\ ~failed => tree = latest
=============================================================================
