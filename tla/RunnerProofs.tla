---------------------------- MODULE RunnerProofs ----------------------------
(***************************************************************************)
(* The red gate loses no work; the runner uses it as RedGate says, so it   *)
(* loses none either; it tries no node more often than the change allows,  *)
(* leaves alone what people have moved, and keeps its state well-typed.    *)
(*                                                                         *)
(* One invariant is for the gate (Inv), the others for the runner: RunInv  *)
(* says that nothing is left to recover while a run works, LimitInv how    *)
(* many attempts the board and the copy know of, HandsInv what a run may   *)
(* still close.  The types need one thing more: the steps that run at once *)
(* belong to one wave (Together).                                          *)
(***************************************************************************)
EXTENDS Runner, FiniteSetTheorems, WellFoundedInduction, TLAPS

-----------------------------------------------------------------------------
(* The red gate.                                                           *)
(*                                                                         *)
(* The invariant says what the copies are worth in every phase.  Until     *)
(* something could not be put back, the copies named by the marker are     *)
(* what the workers left in their files, every other file is in the tree   *)
(* as it was left, and so is what the current restore has done already.    *)
(* Without the last part, the end of a restore could not remove the marker. *)

\* What the phase of the gate says of the marker and of what is left to do.
Phases ==
  gate # "idle" =>
    /\ who \in Node /\ IsMarker(marker[who])
    /\ base[who] # None \/ gate \in {"restore", "clear"}
    /\ left \subseteq DOMAIN marker[who]

\* What the recovery has still to see is there.
Awaited == due \subseteq Marked /\ (gate # "idle" => who \notin due)

\* There is one marker, that of the gate or the recovery under way.
OneMarker == \A t \in Node : marker[t] # None => t = who

\* The copies are true.
Copies ==
  \A f \in File :
    IF \E t \in Marked : f \in DOMAIN marker[t]
    THEN marker[who][f] = latest[f]
    ELSE tree[f] = latest[f]

\* What has been restored is as it was left.
Restored ==
  gate \in {"restore", "clear"} =>
    \A f \in File : f \in left \/ tree[f] = latest[f]

\* Nothing is left to do when the marker goes.
Finished == gate = "clear" => left = {}

Inv == GateTypeOK /\ Phases /\ Awaited /\ Finished /\ (failed \/ (OneMarker /\ Copies /\ Restored))

LEMMA GateInitInv == GateInit => Inv
<1> SUFFICES ASSUME GateInit PROVE Inv
  OBVIOUS
<1> USE DEF GateInit
<1>1. tree \in Tree /\ latest = tree
  BY DEF Tree
<1>2. GateTypeOK
  BY <1>1 DEF GateTypeOK
<1>3. Phases /\ Awaited /\ Finished /\ Restored /\ OneMarker
  BY DEF Phases, Awaited, Finished, Restored, OneMarker
<1>4. Copies
  BY <1>1 DEF Copies, Marked
<1> QED BY <1>2, <1>3, <1>4 DEF Inv

\* A marker is not the absence of one.
LEMMA MarkerIsNotNone == ASSUME NEW m, IsMarker(m) PROVE m # None
BY MarkerAssumption DEF IsMarker

\* A marker names files, and its copies are versions.
LEMMA MarkerNames ==
  ASSUME NEW m, IsMarker(m)
  PROVE  DOMAIN m \subseteq File /\ \A f \in DOMAIN m : m[f] \in Nat
BY DEF IsMarker

\* With one marker, the files it names are those that any marker names.
LEMMA NamedOnce ==
  ASSUME OneMarker, NEW f
  PROVE  (\E t \in Marked : f \in DOMAIN marker[t])
           <=> who \in Node /\ marker[who] # None /\ f \in DOMAIN marker[who]
BY DEF OneMarker, Marked

\* A step of a gate or of a recovery under way that leaves base and markers alone.
LEMMA UnderWay ==
  ASSUME Inv, gate # "idle"
  PROVE  /\ who \in Node /\ IsMarker(marker[who]) /\ marker[who] # None
         /\ DOMAIN marker[who] \subseteq File /\ left \subseteq DOMAIN marker[who]
         /\ who \in Marked
BY MarkerIsNotNone, MarkerNames DEF Inv, Phases, Marked

\* Every step keeps the invariant.
LEMMA GateStepInv == Inv /\ [GateNext]_gateVars => Inv'
<1> SUFFICES ASSUME Inv, [GateNext]_gateVars PROVE Inv'
  OBVIOUS
<1> USE DEF Inv, GateTypeOK, Tree, phaseVars, Awaited, Marked
<1>1. ASSUME NEW S \in SUBSET File, NEW version \in Nat,
             due = {}, Marked = {} \/ failed, Produce(S, version)
      PROVE  Inv'
  <2>1. Marked' = Marked /\ gate' = "idle" /\ tree' \in Tree /\ latest' = tree'
    BY <1>1 DEF Produce
  <2>2. GateTypeOK' /\ Phases' /\ Awaited' /\ Finished' /\ Restored'
    BY <1>1, <2>1 DEF Produce, Phases, Finished, Restored
  <2>3. failed' \/ (OneMarker' /\ Copies')
    BY <1>1, <2>1 DEF Produce, Copies, OneMarker
  <2> QED BY <2>2, <2>3
<1>2. ASSUME NEW t \in Node, RecordBase(t) PROVE Inv'
  <2>1. base' \in [Node -> Tree \cup {None}] /\ Marked' = Marked
    BY <1>2 DEF RecordBase
  <2>2. UNCHANGED <<tree, latest, marker, due, who, gate, left, verdict, failed>> /\ gate = "idle"
    BY <1>2 DEF RecordBase
  <2> QED BY <2>1, <2>2 DEF Phases, Copies, Restored, Finished, OneMarker
<1>3. ASSUME NEW t \in Node, Mark(t), due = {}, Marked = {} \/ failed PROVE Inv'
  <2> DEFINE m == [f \in Changed(t) |-> tree[f]]
  <2>1. Changed(t) \subseteq File /\ m \in [Changed(t) -> Nat]
    BY DEF Changed
  <2>2. IsMarker(m) /\ DOMAIN m = Changed(t) /\ m # None
    BY <2>1, MarkerIsNotNone DEF IsMarker
  <2>3. /\ marker' = [marker EXCEPT ![t] = m] /\ who' = t /\ gate' = "revert"
        /\ left' = Changed(t) /\ verdict' = "none" /\ base[t] # None
        /\ UNCHANGED <<tree, latest, base, due, failed>>
    BY <1>3 DEF Mark
  <2> HIDE DEF m
  <2>4. DOMAIN marker' = Node /\ marker'[t] = m /\ \A s \in Node : s # t => marker'[s] = marker[s]
    BY <2>3
  <2>5. \A s \in Node : marker'[s] = None \/ IsMarker(marker'[s])
    BY <2>2, <2>4 DEF IsMarker
  <2>6. GateTypeOK'
    BY <2>1, <2>3, <2>4, <2>5
  <2>7. Phases' /\ Awaited' /\ Finished' /\ Restored'
    BY <1>3, <2>2, <2>3, <2>4 DEF Phases, Finished, Restored
  <2>8. CASE ~failed
    <3>1. \A s \in Node : marker[s] = None
      BY <1>3, <2>8 DEF Marked
    <3>2. OneMarker'
      BY <2>3, <2>4, <3>1 DEF OneMarker
    <3>3. \A f \in File : tree[f] = latest[f]
      BY <2>8, <3>1 DEF Copies
    <3>4. Copies'
      BY <2>1, <2>2, <2>3, <2>4, <3>1, <3>3 DEF Copies, Marked, m
    <3> QED BY <2>6, <2>7, <3>2, <3>4
  <2> QED BY <2>3, <2>6, <2>7, <2>8
<1>4. ASSUME NEW f \in File, Revert(f) PROVE Inv'
  <2>1. /\ f \in DOMAIN marker[who] /\ who \in Marked /\ who \in Node
        /\ base[who] \in Tree
    BY <1>4, UnderWay DEF Revert, Phases
  <2>2. GateTypeOK' /\ Phases' /\ Awaited' /\ Finished' /\ Restored'
    BY <1>4, <2>1 DEF Revert, Phases, Finished, Restored
  <2>3. Marked' = Marked
    BY <1>4 DEF Revert
  <2>4. (failed \/ (OneMarker /\ Copies))'
    BY <1>4, <2>1, <2>3 DEF Revert, OneMarker, Copies
  <2> QED BY <2>2, <2>4
<1>5. ASSUME RevertFails \/ Tested PROVE Inv'
  <2>1. /\ gate # "idle" /\ gate' = "restore" /\ left' = DOMAIN marker[who] /\ verdict' \in {"ok", "issue"}
        /\ UNCHANGED <<tree, latest, base, marker, due, who, failed>>
    BY <1>5 DEF RevertFails, Tested, Restoring
  <2>2. /\ who \in Node /\ IsMarker(marker[who]) /\ DOMAIN marker[who] \subseteq File
        /\ who \in Marked
    BY <1>5, UnderWay DEF RevertFails, Tested
  <2>3. GateTypeOK' /\ Phases' /\ Awaited' /\ Finished'
    BY <2>1, <2>2 DEF Phases, Finished
  <2>4. Marked' = Marked
    BY <2>1
  <2>5. (failed \/ (OneMarker /\ Copies /\ Restored))'
    <3> SUFFICES ASSUME ~failed PROVE (OneMarker /\ Copies /\ Restored)'
      BY <2>1
    <3>1. \A f \in File : f \in DOMAIN marker[who] \/ tree[f] = latest[f]
      BY NamedOnce DEF Copies
    <3> QED BY <2>1, <2>2, <2>4, <3>1 DEF OneMarker, Copies, Restored
  <2> QED BY <2>3, <2>5
<1>6. CASE RestoreRefused
  BY <1>6 DEF RestoreRefused, Phases, Finished
<1>7. ASSUME NEW f \in File, Restore(f) PROVE Inv'
  <2>1. /\ f \in DOMAIN marker[who] /\ marker[who][f] \in Nat /\ who \in Marked
        /\ who \in Node
    BY <1>7, UnderWay, MarkerNames DEF Restore
  <2>2. GateTypeOK' /\ Phases' /\ Awaited' /\ Finished'
    BY <1>7, <2>1 DEF Restore, Phases, Finished
  <2>3. Marked' = Marked
    BY <1>7 DEF Restore
  <2>4. (failed \/ (OneMarker /\ Copies /\ Restored))'
    BY <1>7, <2>1, <2>3 DEF Restore, OneMarker, Copies, Restored
  <2> QED BY <2>2, <2>4
<1>8. ASSUME NEW f \in File, RestoreFails(f) PROVE Inv'
  BY <1>8 DEF RestoreFails, Phases, Finished
<1>9. CASE Clear
  <2>1. /\ marker' = [marker EXCEPT ![who] = None] /\ gate' = "idle" /\ left = {}
        /\ gate = "clear" /\ who \notin due
        /\ UNCHANGED <<tree, latest, base, due, who, left, verdict, failed>>
    BY <1>9 DEF Clear, Finished
  <2>2. DOMAIN marker' = Node /\ \A s \in Node : marker'[s] = None \/ marker'[s] = marker[s]
    BY <2>1
  <2>3. GateTypeOK' /\ Phases' /\ Awaited' /\ Finished' /\ Restored'
    BY <2>1, <2>2 DEF Phases, Finished, Restored
  <2>4. CASE ~failed
    <3>1. Marked' = {}
      BY <2>1, <2>4 DEF OneMarker
    <3>2. \A f \in File : tree[f] = latest[f]
      BY <1>9, <2>1, <2>4 DEF Restored, Clear
    <3> QED BY <2>1, <2>3, <3>1, <3>2 DEF Copies, OneMarker
  <2> QED BY <2>1, <2>3, <2>4
<1>10. CASE ClearFails
  BY <1>10 DEF ClearFails, Phases, Finished
<1>11. CASE GateDies
  <2>1. Marked' = Marked
    BY <1>11 DEF GateDies
  <2> QED BY <1>11, <2>1 DEF GateDies, Phases, Finished, OneMarker, Copies, Restored
<1>12. CASE RecoveryBegins
  <2>1. Marked' = Marked /\ Marked \subseteq Node
    BY <1>12 DEF RecoveryBegins
  <2> QED BY <1>12, <2>1
       DEF RecoveryBegins, Phases, Finished, OneMarker, Copies, Restored
<1>13. ASSUME NEW t \in Node, Recover(t) PROVE Inv'
  <2>0. marker[t] # None
    BY <1>13 DEF Recover
  <2>1. IsMarker(marker[t]) /\ DOMAIN marker[t] \subseteq File
    BY <2>0, MarkerNames
  <2>2. GateTypeOK' /\ Phases' /\ Awaited' /\ Finished'
    BY <1>13, <2>1 DEF Recover, Phases, Finished
  <2>3. CASE ~failed
    <3>1. t = who
      BY <2>0, <2>3 DEF OneMarker
    <3>2. \A f \in File : f \in DOMAIN marker[who] \/ tree[f] = latest[f]
      BY <2>3, NamedOnce DEF Copies
    <3>3. Marked' = Marked
      BY <1>13 DEF Recover
    <3> QED BY <1>13, <2>2, <2>3, <3>1, <3>2, <3>3 DEF Recover, OneMarker, Copies, Restored
  <2> QED BY <1>13, <2>2, <2>3 DEF Recover
<1>14. CASE UNCHANGED gateVars
  <2>1. Marked' = Marked
    BY <1>14 DEF gateVars
  <2> QED BY <1>14, <2>1 DEF gateVars, Phases, Finished, OneMarker, Copies, Restored
<1> QED
  BY <1>1, <1>2, <1>3, <1>4, <1>5, <1>6, <1>7, <1>8, <1>9, <1>10, <1>11, <1>12, <1>13, <1>14
  DEF GateNext, GateStep

\* What a step left in a file stays in the tree or in a copy that the next run will find
\* and put back (writeMarker before applyBase, removeMarkerDir after restoreWorker), for
\* any set of files, through any crash and any number of recoveries.
THEOREM GateLosesNothing == GateSpec => []WorkNeverLost
<1>1. Inv => WorkNeverLost
  <2> SUFFICES ASSUME Inv, ~failed, NEW f \in File
               PROVE  \/ tree[f] = latest[f]
                      \/ \E t \in Marked : f \in DOMAIN marker[t] /\ marker[t][f] = latest[f]
    BY DEF WorkNeverLost
  <2> QED BY DEF Inv, Copies, OneMarker, Marked
<1> QED BY <1>1, GateInitInv, GateStepInv, PTL DEF GateSpec

\* A gate that has ended leaves the tree as the step left it (red-gate.mjs, restoreWorker
\* and removeMarkerDir).
THEOREM GateLeavesTreeWhole == GateSpec => []TreeWhole
<1>1. Inv => TreeWhole
  BY DEF Inv, GateTypeOK, Tree, Copies, TreeWhole
<1> QED BY <1>1, GateInitInv, GateStepInv, PTL DEF GateSpec

\* The state of the gate stays well-typed: what is left to do is a part of what the marker
\* names, whatever dies or fails.
THEOREM GateTyped == GateSpec => []GateTypeOK
<1>1. Inv => GateTypeOK
  BY DEF Inv
<1> QED BY <1>1, GateInitInv, GateStepInv, PTL DEF GateSpec

-----------------------------------------------------------------------------
(* The runner uses the gate as its specification says.                     *)

\* A run that works has nothing to recover: what the markers of an earlier run named was
\* put back before the board was loaded, and the gate of a step ends before its node
\* goes on.
Recovered ==
  /\ pc # "off" => failed \/ \A t \in Marked : t \in due \/ (gate # "idle" /\ t = who)
  /\ pc = "on" => due = {}

RunInv == Recovered /\ tries \in [Node -> Nat]

LEMMA RunInitInv == Init => RunInv /\ GateInit
BY DEF Init, RunInv, Recovered, GateInit

\* What a step of the run that leaves the gate alone leaves alone.
Aside == UNCHANGED gateVars /\ (pc' = pc \/ pc' = "off") /\ UNCHANGED tries

LEMMA AsideInv == RunInv /\ Aside => RunInv'
BY DEF RunInv, Recovered, Aside, gateVars, phaseVars, Marked

USE DEF vars, ctx, steps, ghosts, bounds, stepRest, applyRest

LEMMA ApplyAside ==
  ASSUME NEW t, \/ ApplyGate(t) \/ ApplyPark(t) \/ ApplyDone(t) \/ ApplyIssueStop(t)
                \/ ApplyIssue(t) \/ Requeue(t)
  PROVE  Aside
<1>1. CASE ApplyGate(t)      BY <1>1 DEF ApplyGate, Aside
<1>2. CASE ApplyPark(t)      BY <1>2 DEF ApplyPark, Aside
<1>3. CASE ApplyDone(t)      BY <1>3 DEF ApplyDone, Aside
<1>4. CASE ApplyIssueStop(t) BY <1>4 DEF ApplyIssueStop, Aside
<1>5. CASE ApplyIssue(t)     BY <1>5 DEF ApplyIssue, Aside
<1>6. CASE Requeue(t)        BY <1>6 DEF Requeue, Aside
<1> QED BY <1>1, <1>2, <1>3, <1>4, <1>5, <1>6

LEMMA NodeAside ==
  ASSUME NEW t, \/ Skip(t) \/ Exhausted(t) \/ ToPerson(t) \/ RedRefused(t) \/ RedEnds(t)
                \/ Check(t) \/ CheckRepeats(t) \/ Close(t)
  PROVE  Aside
<1>1. CASE Skip(t)         BY <1>1 DEF Skip, Aside
<1>2. CASE Exhausted(t)    BY <1>2 DEF Exhausted, Aside
<1>3. CASE ToPerson(t)     BY <1>3 DEF ToPerson, Aside
<1>4. CASE RedRefused(t)   BY <1>4 DEF RedRefused, Aside
<1>5. CASE RedEnds(t)      BY <1>5 DEF RedEnds, Aside
<1>6. CASE Check(t)        BY <1>6 DEF Check, Aside
<1>7. CASE CheckRepeats(t) BY <1>7 DEF CheckRepeats, Aside
<1>8. CASE Close(t)        BY <1>8 DEF Close, Aside
<1> QED BY <1>1, <1>2, <1>3, <1>4, <1>5, <1>6, <1>7, <1>8

LEMMA LoopAside ==
  ASSUME \/ Round \/ Leave \/ Interrupt \/ PersonMoves \/ \E t \in Node : Expire(t)
  PROVE  Aside
<1>1. CASE Round       BY <1>1 DEF Round, Aside
<1>2. CASE Leave       BY <1>2 DEF Leave, Aside
<1>3. CASE Interrupt   BY <1>3 DEF Interrupt, Aside
<1>4. CASE PersonMoves BY <1>4 DEF PersonMoves, Aside
<1>5. CASE \E t \in Node : Expire(t)
  <2> PICK t \in Node : Expire(t)
    BY <1>5
  <2> QED BY DEF Expire, Aside
<1> QED BY <1>1, <1>2, <1>3, <1>4, <1>5

\* A step of the gate while a run works or recovers.
LEMMA GateAtWork ==
  ASSUME RunInv, Inv, pc # "off", pc' = pc, UNCHANGED tries, GateStep \/ \E t \in Node : Recover(t)
  PROVE  RunInv'
<1> USE DEF RunInv, Recovered, Marked
<1>1. CASE Tested \/ RevertFails \/ RestoreRefused
  BY <1>1 DEF Tested, RevertFails, RestoreRefused, Restoring
<1>2. CASE Clear
  <2>1. /\ marker' = [marker EXCEPT ![who] = None] /\ UNCHANGED <<due, who, failed>>
        /\ DOMAIN marker = Node
    BY <1>2 DEF Clear, Inv, GateTypeOK
  <2>2. \A t \in Node : marker'[t] # None => marker[t] # None /\ t # who
    BY <2>1
  <2> QED BY <2>1, <2>2
<1>3. CASE ClearFails
  BY <1>3 DEF ClearFails
<1>4. ASSUME NEW f \in File, Revert(f) \/ Restore(f) \/ RestoreFails(f) PROVE RunInv'
  BY <1>4 DEF Revert, Restore, RestoreFails
<1>5. ASSUME NEW t \in Node, Recover(t) PROVE RunInv'
  BY <1>5 DEF Recover
<1> QED BY <1>1, <1>2, <1>3, <1>4, <1>5 DEF GateStep

\* Every step of the run is a step of the gate, or leaves it alone.
LEMMA RunStepInv == RunInv /\ Inv /\ [Next]_vars => RunInv' /\ [GateNext]_gateVars
<1> SUFFICES ASSUME RunInv, Inv, [Next]_vars PROVE RunInv' /\ [GateNext]_gateVars
  OBVIOUS
<1>0. pc = "on" /\ gate = "idle" => due = {} /\ (Marked = {} \/ failed)
  BY DEF RunInv, Recovered, Marked
<1>1. ASSUME Aside PROVE RunInv' /\ [GateNext]_gateVars
  BY <1>1, AsideInv DEF Aside
<1>2. CASE StartRun
  BY <1>2 DEF StartRun, RecoveryBegins, GateNext, RunInv, Recovered, Marked
<1>3. CASE LoadBoard
  BY <1>3 DEF LoadBoard, RunInv, Recovered, gateVars, phaseVars, Marked
<1>4. CASE Die
  BY <1>4 DEF Die, GateNext, RunInv, Recovered
<1>5. CASE GateGoesOn
  <2>1. pc # "off" /\ pc' = pc /\ tries' = tries
    BY <1>5 DEF GateGoesOn
  <2>2. GateStep \/ \E t \in Node : Recover(t)
    BY <1>5 DEF GateGoesOn, GateStep
  <2> QED BY <2>1, <2>2, GateAtWork DEF GateNext
<1>6. CASE GateFails
  <2>1. pc # "off" /\ pc' = pc /\ tries' = tries
    BY <1>6 DEF GateFails
  <2>2. GateStep
    BY <1>6 DEF GateFails, GateStep
  <2> QED BY <2>1, <2>2, GateAtWork DEF GateNext
<1>7. ASSUME NEW t \in Node, Begin(t) PROVE RunInv' /\ [GateNext]_gateVars
  <2>1. pc = "on" /\ pc' = pc /\ tries' = [tries EXCEPT ![t] = @ + 1]
    BY <1>7 DEF Begin, In
  <2>2. CASE RecordBase(t)
    <3>1. gate = "idle" /\ UNCHANGED <<marker, due, failed>>
      BY <2>2 DEF RecordBase, phaseVars
    <3>2. due = {} /\ (Marked = {} \/ failed)
      BY <1>0, <2>1, <3>1
    <3>3. GateNext
      BY <2>2, <3>2 DEF GateNext
    <3>4. Recovered'
      BY <2>1, <3>1, <3>2 DEF Recovered, Marked
    <3>5. tries' \in [Node -> Nat]
      BY <2>1 DEF RunInv
    <3> QED BY <3>3, <3>4, <3>5 DEF RunInv
  <2>3. CASE UNCHANGED gateVars
    BY <2>1, <2>3 DEF RunInv, Recovered, gateVars, phaseVars, Marked
  <2> QED BY <1>7, <2>2, <2>3 DEF Begin
<1>8. ASSUME NEW t \in Node, Work(t) PROVE RunInv' /\ [GateNext]_gateVars
  <2>1. pc = "on" /\ pc' = pc /\ tries' = tries
    BY <1>8 DEF Work, In
  <2>2. CASE D(t).red
    <3>1. PICK S \in {{}, File} : Produce(S, tries[t])
      BY <1>8, <2>2 DEF Work
    <3>2. due = {} /\ (Marked = {} \/ failed)
      BY <1>0, <2>1, <3>1 DEF Produce
    <3>3. S \in SUBSET File /\ tries[t] \in Nat
      BY <3>1 DEF RunInv
    <3>4. GateNext
      BY <3>1, <3>2, <3>3 DEF GateNext
    <3>5. Recovered'
      BY <2>1, <3>1, <3>2 DEF Recovered, Produce, phaseVars, Marked
    <3> QED BY <2>1, <3>4, <3>5 DEF RunInv
  <2>3. CASE ~D(t).red
    BY <1>8, <2>1, <2>3 DEF Work, RunInv, Recovered, gateVars, phaseVars, Marked
  <2> QED BY <2>2, <2>3
<1>9. ASSUME NEW t \in Node, RedBegins(t) PROVE RunInv' /\ [GateNext]_gateVars
  <2>1. pc = "on" /\ pc' = pc /\ tries' = tries /\ Mark(t)
    BY <1>9 DEF RedBegins, In
  <2>2. due = {} /\ (Marked = {} \/ failed)
    BY <1>0, <2>1 DEF Mark
  <2>3. Recovered'
    BY <2>1, <2>2 DEF Recovered, Mark, Marked, Inv, GateTypeOK
  <2> QED BY <2>1, <2>2, <2>3 DEF RunInv, GateNext
<1>10. CASE UNCHANGED vars
  BY <1>10, <1>1 DEF Aside
<1>11. ASSUME NEW t \in Node, NodeStep(t) PROVE RunInv' /\ [GateNext]_gateVars
  BY <1>11, <1>1, <1>7, <1>8, <1>9, ApplyAside, NodeAside DEF NodeStep
<1> QED
  BY <1>1, <1>2, <1>3, <1>4, <1>5, <1>6, <1>10, <1>11, LoopAside DEF Next, RunStep

\* The runner implements the protocol of the red gate: it lets a worker write, and begins
\* a gate, only when no earlier gate is still to be put back (recoverRedGate before
\* runChange; redGate awaited by finishStep).
THEOREM RunnerKeepsGate == Spec => GateSpec
<1> QED BY RunInitInv, RunStepInv, GateInitInv, GateStepInv, PTL DEF Spec, GateSpec

\* So no run, and no crash of one, loses what a step produced (red-gate.mjs), for any
\* change and any number of runs.
THEOREM RunnerLosesNothing == Spec => []WorkNeverLost
BY RunnerKeepsGate, GateLosesNothing, PTL

(***************************************************************************)
(* The limit of attempts.                                                  *)
(***************************************************************************)
\* The phases of a step that has begun and not ended.
Busy == {"work", "gate", "red", "reverted", "check", "close"}

RowTypes ==
  /\ plan \in Plans
  /\ board \in [Node -> Row] /\ copy \in [Node -> Row]
  /\ att \in [Node -> Nat \cup {None}]
  /\ tries \in [Node -> Nat] /\ refunds \in [Node -> Nat] /\ slips \in [Node -> Nat]
  /\ step \in [Node -> Busy \cup {"begin", "ended", "requeue"}]

\* What the board has counted: every attempt that it saw begin, and no more mechanical
\* ones than there were.
Counted ==
  \A t \in Node :
    /\ IsFiniteSet(board[t].mech) /\ Cardinality(board[t].mech) <= refunds[t]
    /\ tries[t] - slips[t] <= board[t].entered

\* What the run will count from: its own count, once it has tried the node, else the
\* count of the copy.
Known ==
  /\ \A t \in Node : IsFiniteSet(copy[t].mech)
  /\ \A t \in Node : step[t] \in Busy => att[t] # None
  /\ pc = "on" => \A t \in Node : tries[t] - refunds[t] - slips[t] <= Before(t)

\* Of the attempts that the board saw begin and that were not recorded as mechanical, a
\* node has at most as many as its limit.
SeenLimit == \A t \in Node : D(t).limit # None => tries[t] - refunds[t] - slips[t] <= D(t).limit

\* SeenLimit alone is not inductive: the guard compares what the copy or the run's own
\* count says, not what was tried.
LimitInv == RowTypes /\ Counted /\ Known /\ SeenLimit

LEMMA MaxZero ==
  ASSUME NEW n \in Int
  PROVE  Max({0, n}) \in Nat /\ Max({0, n}) >= n
<1>1. \E x \in {0, n} : \A y \in {0, n} : x >= y
  OBVIOUS
<1>2. Max({0, n}) \in {0, n} /\ \A y \in {0, n} : Max({0, n}) >= y
  BY <1>1 DEF Max
<1> QED BY <1>2

LEMMA AttemptsType ==
  ASSUME NEW row \in Row, IsFiniteSet(row.mech)
  PROVE  /\ AttemptsSoFar(row) \in Nat
         /\ AttemptsSoFar(row) >= row.entered - Cardinality(row.mech)
<1>1. Cardinality(row.mech) \in Nat /\ row.entered \in Nat
  BY FS_CardinalityType DEF Row
<1> QED BY <1>1, MaxZero DEF AttemptsSoFar

\* Rows b that come of rows a by moves: the records of attempts are as before.
Moved(a, b) ==
  /\ b \in [Node -> Row]
  /\ \A t \in Node : b[t].mech = a[t].mech /\ b[t].entered >= a[t].entered

\* A move changes statuses; of the copy it changes nothing else.
Same(a, b) == Moved(a, b) /\ \A t \in Node : b[t].entered = a[t].entered

LEMMA SetRow ==
  ASSUME NEW rows \in [Node -> Row], NEW t \in Node, NEW row \in Row,
         NEW b, b = [rows EXCEPT ![t] = row]
  PROVE  b \in [Node -> Row] /\ b[t] = row /\ \A u \in Node : u # t => b[u] = rows[u]
  OBVIOUS

LEMMA WrittenMoved ==
  ASSUME NEW rows \in [Node -> Row], NEW t \in Node, NEW s \in Status
  PROVE  Moved(rows, Written(rows, t, s))
<1>1. CASE rows[t].status = s
  BY <1>1 DEF Written, Moved, Row
<1>2. CASE rows[t].status # s
  <2> DEFINE n == IF s = "in_progress" THEN rows[t].entered + 1 ELSE rows[t].entered
             row == [rows[t] EXCEPT !.status = s, !.entered = n]
             b == Written(rows, t, s)
  <2>1. n \in Nat /\ n >= rows[t].entered /\ \A u \in Node : rows[u].entered \in Nat
    BY DEF Row
  <2>2. b = [rows EXCEPT ![t] = row]
    BY <1>2, <2>1 DEF Written, Row
  <2> HIDE DEF n, b
  <2>3. row \in Row /\ row.mech = rows[t].mech /\ row.entered = n
    BY <2>1 DEF Row
  <2> HIDE DEF row
  <2>4. b \in [Node -> Row] /\ b[t] = row /\ \A u \in Node : u # t => b[u] = rows[u]
    BY <2>2, <2>3, SetRow
  <2>5. Moved(rows, b)
    BY <2>1, <2>3, <2>4 DEF Moved
  <2> QED BY <2>5 DEF b
<1> QED BY <1>1, <1>2

LEMMA CopyMoved ==
  ASSUME NEW rows \in [Node -> Row], NEW t \in Node, NEW s \in Status
  PROVE  Same(rows, [rows EXCEPT ![t].status = s])
<1> DEFINE row == [rows[t] EXCEPT !.status = s]
           b == [rows EXCEPT ![t].status = s]
<1>1. row \in Row /\ row.mech = rows[t].mech /\ row.entered = rows[t].entered
  BY DEF Row
<1>2. b = [rows EXCEPT ![t] = row]
  BY DEF Row
<1>3. \A u \in Node : rows[u].entered \in Nat
  BY DEF Row
<1> HIDE DEF row, b
<1>4. b \in [Node -> Row] /\ b[t] = row /\ \A u \in Node : u # t => b[u] = rows[u]
  BY <1>1, <1>2
<1>5. Same(rows, b)
  BY <1>1, <1>3, <1>4 DEF Same, Moved
<1> QED BY <1>5 DEF b

\* Whatever comes of a move, it is a move of the rows of the board and of the copy.
LEMMA MovesMoved ==
  ASSUME board \in [Node -> Row], copy \in [Node -> Row],
         NEW t \in Node, NEW s \in Status, NEW m \in Moves(t, s)
  PROVE  Moved(board, m.board) /\ Same(copy, m.copy)
<1>1. Moved(board, board) /\ Same(copy, copy)
  BY DEF Moved, Same, Row
<1>2. Moved(board, Written(board, t, s)) /\ Same(copy, [copy EXCEPT ![t].status = s])
  BY WrittenMoved, CopyMoved
<1> DEFINE b == Written(board, t, s)
           c == [copy EXCEPT ![t].status = s]
<1> HIDE DEF b, c
<1>3. \/ m.board = board /\ m.copy = copy
      \/ m.board = b /\ m.copy = c
  <2>1. \/ m = Answer(TRUE, board, copy, faults)
        \/ m = Answer(FALSE, board, copy, faults)
        \/ m = Answer(TRUE, b, c, faults)
        \/ \E f : m = Answer(FALSE, board, copy, f)
    BY DEF Moves, b, c
  <2> QED BY <2>1 DEF Answer
<1> QED BY <1>1, <1>2, <1>3 DEF b, c

LEMMA CardBoard ==
  ASSUME board \in [Node -> Row]
  PROVE  Moved(board, [t \in Node |-> IF t = stop.node THEN [board[t] EXCEPT !.card = TRUE]
                                      ELSE board[t]])
<1> DEFINE row(t) == IF t = stop.node THEN [board[t] EXCEPT !.card = TRUE] ELSE board[t]
<1>1. ASSUME NEW t \in Node
      PROVE  row(t) \in Row /\ row(t).mech = board[t].mech /\ row(t).entered = board[t].entered
  <2>1. board[t] \in Row /\ board[t].entered \in Nat
    BY DEF Row
  <2>2. CASE t = stop.node
    BY <2>1, <2>2 DEF Row
  <2>3. CASE t # stop.node
    BY <2>1, <2>3
  <2> QED BY <2>2, <2>3
<1>2. \A t \in Node : board[t].entered \in Nat
  BY DEF Row
<1> HIDE DEF row
<1>3. Moved(board, [t \in Node |-> row(t)])
  BY <1>1, <1>2 DEF Moved
<1> QED BY <1>3 DEF row

\* A step that only moves rows.
LEMMA MoveStep ==
  ASSUME LimitInv, UNCHANGED <<plan, att, tries, refunds, slips>>,
         pc' = pc \/ pc' # "on", Moved(board, board'), Same(copy, copy'),
         step' \in [Node -> Busy \cup {"begin", "ended", "requeue"}],
         \A t \in Node : step'[t] \in Busy => step[t] \in Busy
  PROVE  LimitInv'
<1> USE DEF LimitInv
<1>1. RowTypes'
  BY DEF RowTypes, Moved, Same
<1>2. Counted'
  <2> SUFFICES ASSUME NEW t \in Node
               PROVE  /\ IsFiniteSet(board'[t].mech) /\ Cardinality(board'[t].mech) <= refunds[t]
                      /\ tries[t] - slips[t] <= board'[t].entered
    BY DEF Counted
  <2>1. /\ board'[t].mech = board[t].mech /\ board'[t].entered >= board[t].entered
        /\ board[t].entered \in Nat /\ board'[t].entered \in Nat
        /\ tries[t] \in Nat /\ slips[t] \in Nat
    BY DEF Moved, RowTypes, Row
  <2> QED BY <2>1 DEF Counted
<1>3. \A t \in Node : Before(t)' = Before(t)
  BY DEF Before, AttemptsSoFar, Same, Moved
<1>4. Known'
  BY <1>3 DEF Known, Same, Moved
<1>5. SeenLimit'
  BY DEF SeenLimit, D
<1> QED BY <1>1, <1>2, <1>4, <1>5

\* The end of a step.  Only a mechanical one is recorded as such, and counted as one.
LEMMA EndStep ==
  ASSUME LimitInv, NEW t \in Node, step[t] \in Busy, NEW kind, NEW b, NEW c,
         NEW tail \in BOOLEAN,
         Moved(board, b), Same(copy, c), End(t, kind, b, c, tail),
         UNCHANGED <<plan, pc, tries, slips>>,
         \/ att' = att
         \/ kind = "mechanics" /\ att' = [att EXCEPT ![t] = Max({0, @ - 1})]
  PROVE  LimitInv'
<1> USE DEF LimitInv
<1> DEFINE mech(rows) == IF kind = "mechanics" THEN rows[t].mech \cup {att[t]}
                                               ELSE rows[t].mech \ {att[t]}
           cmech == IF kind = "mechanics" THEN c[t].mech \cup {att[t]} ELSE c[t].mech
           one == IF kind = "mechanics" THEN 1 ELSE 0
           brow == [b[t] EXCEPT !.mech = mech(b), !.tail = tail]
           crow == [c[t] EXCEPT !.mech = cmech, !.tail = tail]
<1>1. /\ att[t] \in Nat /\ tries[t] \in Nat /\ slips[t] \in Nat /\ refunds[t] \in Nat
      /\ b \in [Node -> Row] /\ c \in [Node -> Row]
      /\ b[t].mech = board[t].mech /\ b[t].entered >= board[t].entered
      /\ c[t].mech = copy[t].mech
  BY DEF RowTypes, Known, Moved, Same
<1>2. b[t].mech \in SUBSET Nat /\ c[t].mech \in SUBSET Nat
  BY <1>1 DEF Row
<1>3. mech(b) \in SUBSET Nat /\ cmech \in SUBSET Nat
  BY <1>1, <1>2
<1>4. /\ board' = [b EXCEPT ![t] = brow] /\ copy' = [c EXCEPT ![t] = crow]
      /\ refunds' = [refunds EXCEPT ![t] = refunds[t] + one]
      /\ step' = [step EXCEPT ![t] = "ended"]
  <2>1. board' = [b EXCEPT ![t] = brow]
    <3>1. CASE kind = "mechanics"
      BY <1>1, <3>1 DEF End, Recorded, Row
    <3>2. CASE kind # "mechanics"
      BY <1>1, <3>2 DEF End, Recorded, Row
    <3> QED BY <3>1, <3>2
  <2>2. copy' = [c EXCEPT ![t] = crow]
    BY <1>1 DEF End, Row
  <2>3. refunds' = [refunds EXCEPT ![t] = refunds[t] + one]
    <3>1. refunds \in [Node -> Nat] /\ refunds[t] + 0 = refunds[t]
      BY <1>1 DEF RowTypes
    <3>2. CASE kind = "mechanics"
      BY <3>1, <3>2 DEF End
    <3>3. CASE kind # "mechanics"
      BY <3>1, <3>3 DEF End
    <3> QED BY <3>2, <3>3
  <2>4. step' = [step EXCEPT ![t] = "ended"]
    BY DEF End
  <2> HIDE DEF mech, cmech, one, brow, crow
  <2> QED BY <2>1, <2>2, <2>3, <2>4
<1>5. one \in Nat
  OBVIOUS
<1>6. /\ IsFiniteSet(mech(b)) /\ Cardinality(mech(b)) <= refunds[t] + one
      /\ IsFiniteSet(cmech)
  <2>1. /\ IsFiniteSet(b[t].mech) /\ Cardinality(b[t].mech) <= refunds[t]
        /\ IsFiniteSet(c[t].mech)
    BY <1>1 DEF Counted, Known
  <2>2. Cardinality(b[t].mech) \in Nat
    BY <2>1, FS_CardinalityType
  <2>3. CASE kind = "mechanics"
    <3>1. /\ IsFiniteSet(b[t].mech \cup {att[t]}) /\ IsFiniteSet(c[t].mech \cup {att[t]})
          /\ Cardinality(b[t].mech \cup {att[t]}) \in
               {Cardinality(b[t].mech), Cardinality(b[t].mech) + 1}
      BY <2>1, FS_AddElement
    <3> QED BY <1>1, <2>1, <2>2, <2>3, <3>1
  <2>4. CASE kind # "mechanics"
    <3>1. /\ IsFiniteSet(b[t].mech \ {att[t]})
          /\ Cardinality(b[t].mech \ {att[t]}) \in
               {Cardinality(b[t].mech), Cardinality(b[t].mech) - 1}
      BY <2>1, FS_RemoveElement
    <3> QED BY <1>1, <2>1, <2>2, <2>4, <3>1
  <2> QED BY <2>3, <2>4
<1> HIDE DEF mech, cmech, one
<1>7. /\ brow \in Row /\ brow.mech = mech(b) /\ brow.entered = b[t].entered
      /\ crow \in Row /\ crow.mech = cmech /\ crow.entered = c[t].entered
  BY <1>1, <1>3 DEF Row
<1> HIDE DEF brow, crow
<1>8. /\ board' \in [Node -> Row]
      /\ board'[t].mech = mech(b) /\ board'[t].entered = b[t].entered
      /\ \A u \in Node : u # t => board'[u] = b[u]
  BY <1>1, <1>4, <1>7, SetRow
<1>9. /\ copy' \in [Node -> Row]
      /\ copy'[t].mech = cmech /\ copy'[t].entered = c[t].entered
      /\ \A u \in Node : u # t => copy'[u] = c[u]
  BY <1>1, <1>4, <1>7, SetRow
<1>10. /\ refunds' \in [Node -> Nat] /\ refunds'[t] = refunds[t] + one
       /\ \A u \in Node : u # t => refunds'[u] = refunds[u]
       /\ step'[t] = "ended" /\ \A u \in Node : u # t => step'[u] = step[u]
       /\ step' \in [Node -> Busy \cup {"begin", "ended", "requeue"}]
  BY <1>1, <1>4, <1>5 DEF RowTypes
<1>11. /\ att' \in [Node -> Nat \cup {None}] /\ att'[t] \in Nat /\ att'[t] >= att[t] - one
       /\ \A u \in Node : u # t => att'[u] = att[u]
  <2>1. CASE att' = att
    BY <1>1, <1>5, <2>1 DEF RowTypes
  <2>2. CASE kind = "mechanics" /\ att' = [att EXCEPT ![t] = Max({0, @ - 1})]
    <3>1. Max({0, att[t] - 1}) \in Nat /\ Max({0, att[t] - 1}) >= att[t] - 1
      BY <1>1, MaxZero
    <3>2. one = 1
      BY <2>2 DEF one
    <3> QED BY <1>1, <2>2, <3>1, <3>2 DEF RowTypes
  <2> QED BY <2>1, <2>2
<1>12. RowTypes'
  <2>1. plan' \in Plans /\ tries' \in [Node -> Nat] /\ slips' \in [Node -> Nat]
    BY DEF RowTypes
  <2> QED BY <1>8, <1>9, <1>10, <1>11, <2>1 DEF RowTypes
<1>13. Counted'
  <2>1. /\ tries[t] - slips[t] <= board[t].entered
        /\ board[t].entered \in Nat /\ b[t].entered \in Nat
    BY <1>1 DEF Counted, RowTypes, Row
  <2>2. tries[t] - slips[t] <= board'[t].entered
    BY <1>1, <1>8, <2>1
  <2>3. ASSUME NEW u \in Node, u # t
        PROVE  /\ IsFiniteSet(board'[u].mech) /\ Cardinality(board'[u].mech) <= refunds'[u]
               /\ tries[u] - slips[u] <= board'[u].entered
    <3>1. /\ board'[u].mech = board[u].mech /\ board'[u].entered >= board[u].entered
          /\ board[u].entered \in Nat /\ board'[u].entered \in Nat
          /\ tries[u] \in Nat /\ slips[u] \in Nat /\ refunds'[u] = refunds[u]
      BY <1>8, <1>10, <2>3 DEF Moved, RowTypes, Row
    <3> QED BY <3>1 DEF Counted
  <2> QED BY <1>6, <1>8, <1>10, <2>2, <2>3 DEF Counted
<1>14. Known'
  <2>1. \A u \in Node : IsFiniteSet(copy'[u].mech)
    BY <1>6, <1>9 DEF Known, Same, Moved
  <2>2. ASSUME NEW u \in Node, step'[u] \in Busy
        PROVE  att'[u] # None
    <3>1. u # t
      BY <1>10, <2>2 DEF Busy
    <3>2. step[u] \in Busy /\ att'[u] = att[u]
      BY <1>10, <1>11, <2>2, <3>1
    <3> QED BY <3>2 DEF Known
  <2>3. ASSUME pc = "on", NEW u \in Node
        PROVE  tries[u] - refunds'[u] - slips[u] <= Before(u)'
    <3>1. CASE u = t
      <4>1. Before(t) = att[t] /\ Before(t)' = att'[t]
        BY <1>1, <1>11, RunnerAssumption DEF Before
      <4>2. tries[t] - refunds[t] - slips[t] <= att[t]
        BY <2>3, <4>1 DEF Known
      <4> QED BY <1>1, <1>5, <1>10, <1>11, <3>1, <4>1, <4>2
    <3>2. CASE u # t
      <4>1. Before(u)' = Before(u) /\ refunds'[u] = refunds[u]
        BY <1>9, <1>10, <1>11, <3>2 DEF Before, AttemptsSoFar, Same, Moved
      <4> QED BY <2>3, <4>1 DEF Known
    <3> QED BY <3>1, <3>2
  <2> QED BY <2>1, <2>2, <2>3 DEF Known
<1>15. SeenLimit'
  <2> SUFFICES ASSUME NEW u \in Node, D(u).limit # None
               PROVE  tries[u] - refunds'[u] - slips[u] <= D(u).limit
    BY DEF SeenLimit, D
  <2>1. tries[u] - refunds[u] - slips[u] <= D(u).limit /\ D(u).limit \in Nat
    BY RunnerAssumption DEF SeenLimit, D, RowTypes, Change, Declared, Limit
  <2>2. refunds'[u] \in Nat /\ refunds'[u] >= refunds[u] /\ refunds[u] \in Nat
        /\ tries[u] \in Nat /\ slips[u] \in Nat
    BY <1>1, <1>5, <1>10 DEF RowTypes
  <2> QED BY <2>1, <2>2
<1> QED BY <1>12, <1>13, <1>14, <1>15

LEMMA BeginStep ==
  ASSUME LimitInv, NEW t \in Node, Begin(t)
  PROVE  LimitInv'
<1> USE DEF LimitInv
<1>1. /\ pc = "on" /\ pc' = pc /\ step[t] = "begin" /\ Spare(t)
      /\ att' = [att EXCEPT ![t] = Before(t) + 1]
      /\ tries' = [tries EXCEPT ![t] = @ + 1]
      /\ UNCHANGED <<plan, refunds>>
  BY DEF Begin, In
<1>2. PICK m \in Moves(t, "in_progress") :
        /\ board' = m.board /\ copy' = m.copy
        /\ slips' = [slips EXCEPT ![t] = IF board'[t].entered = board[t].entered
                                         THEN @ + 1 ELSE @]
  BY DEF Begin
<1>3. PICK p \in Busy : step' = [step EXCEPT ![t] = p]
  BY DEF Begin, Phase, Busy
<1>4. Moved(board, board') /\ Same(copy, copy')
  BY <1>2, MovesMoved DEF RowTypes, Status
<1>5. Before(t) \in Nat /\ tries[t] - refunds[t] - slips[t] <= Before(t)
  <2>1. att[t] # None => att[t] \in Nat
    BY DEF RowTypes
  <2>2. AttemptsSoFar(copy[t]) \in Nat
    BY AttemptsType DEF RowTypes, Known
  <2> QED BY <1>1, <2>1, <2>2 DEF Before, Known
<1> DEFINE slip == IF board'[t].entered = board[t].entered THEN 1 ELSE 0
<1>6. /\ tries' \in [Node -> Nat] /\ tries'[t] = tries[t] + 1
      /\ slips' \in [Node -> Nat] /\ slips'[t] = slips[t] + slip
      /\ att' \in [Node -> Nat \cup {None}] /\ att'[t] = Before(t) + 1
      /\ step' \in [Node -> Busy \cup {"begin", "ended", "requeue"}]
      /\ tries[t] \in Nat /\ slips[t] \in Nat /\ refunds[t] \in Nat
  BY <1>1, <1>2, <1>3, <1>5 DEF RowTypes
<1>7. \A u \in Node : u # t => /\ tries'[u] = tries[u] /\ slips'[u] = slips[u]
                               /\ att'[u] = att[u] /\ step'[u] = step[u]
  BY <1>1, <1>2, <1>3 DEF RowTypes
<1>8. board' \in [Node -> Row] /\ copy' \in [Node -> Row]
  BY <1>4 DEF Moved, Same
<1>9. RowTypes'
  BY <1>1, <1>6, <1>8 DEF RowTypes
<1>10. slip \in 0..1 /\ (slip = 0 => board'[t].entered # board[t].entered)
  OBVIOUS
<1> HIDE DEF slip
<1>11. Counted'
  <2> SUFFICES ASSUME NEW u \in Node
               PROVE  /\ IsFiniteSet(board'[u].mech) /\ Cardinality(board'[u].mech) <= refunds[u]
                      /\ tries'[u] - slips'[u] <= board'[u].entered
    BY <1>1 DEF Counted
  <2>1. /\ board'[u].mech = board[u].mech /\ board'[u].entered >= board[u].entered
        /\ board[u].entered \in Nat /\ board'[u].entered \in Nat
        /\ tries[u] \in Nat /\ slips[u] \in Nat /\ tries[u] - slips[u] <= board[u].entered
    BY <1>4, <1>8 DEF Moved, RowTypes, Row, Counted
  <2>2. tries'[u] - slips'[u] <= board'[u].entered
    <3>1. CASE u = t
      BY <1>6, <1>10, <2>1, <3>1
    <3>2. CASE u # t
      BY <1>7, <2>1, <3>2
    <3> QED BY <3>1, <3>2
  <2> QED BY <2>1, <2>2 DEF Counted
<1>12. Known'
  <2>1. \A u \in Node : IsFiniteSet(copy'[u].mech)
    BY <1>4 DEF Known, Same, Moved
  <2>2. \A u \in Node : step'[u] \in Busy => att'[u] # None
    BY <1>5, <1>6, <1>7, RunnerAssumption DEF Known
  <2>3. ASSUME NEW u \in Node
        PROVE  tries'[u] - refunds'[u] - slips'[u] <= Before(u)'
    <3>1. CASE u = t
      <4>1. Before(t)' = Before(t) + 1
        BY <1>5, <1>6, RunnerAssumption DEF Before
      <4> QED BY <1>1, <1>5, <1>6, <1>10, <3>1, <4>1
    <3>2. CASE u # t
      <4>1. Before(u)' = Before(u)
        BY <1>4, <1>7, <3>2 DEF Before, AttemptsSoFar, Same, Moved
      <4> QED BY <1>1, <1>7, <3>2, <4>1 DEF Known
    <3> QED BY <3>1, <3>2
  <2> QED BY <1>1, <2>1, <2>2, <2>3 DEF Known
<1>13. SeenLimit'
  <2> SUFFICES ASSUME NEW u \in Node, D(u).limit # None
               PROVE  tries'[u] - refunds[u] - slips'[u] <= D(u).limit
    BY <1>1 DEF SeenLimit, D
  <2>1. D(u).limit \in Nat
    BY RunnerAssumption DEF D, RowTypes, Change, Declared, Limit
  <2>2. CASE u = t
    <3>1. Before(t) + 1 <= D(t).limit
      BY <1>1, <2>2 DEF Spare
    <3> QED BY <1>5, <1>6, <1>10, <2>1, <2>2, <3>1
  <2>3. CASE u # t
    BY <1>7, <2>3 DEF SeenLimit
  <2> QED BY <2>2, <2>3
<1> QED BY <1>9, <1>11, <1>12, <1>13

\* A run begins or ends: the copy and what the run knows begin anew.
LEMMA ContextStep ==
  ASSUME LimitInv, NEW b, Moved(board, b), board' = b, Context(b),
         UNCHANGED <<plan, tries, refunds, slips>>
  PROVE  LimitInv'
<1> USE DEF LimitInv
<1>1. /\ copy' = b /\ att' = [t \in Node |-> None] /\ step' = [t \in Node |-> "begin"]
  BY DEF Context
<1>2. RowTypes'
  BY <1>1 DEF RowTypes, Moved
<1>3. Counted'
  <2> SUFFICES ASSUME NEW t \in Node
               PROVE  /\ IsFiniteSet(b[t].mech) /\ Cardinality(b[t].mech) <= refunds[t]
                      /\ tries[t] - slips[t] <= b[t].entered
    BY DEF Counted
  <2>1. /\ b[t].mech = board[t].mech /\ b[t].entered >= board[t].entered
        /\ board[t].entered \in Nat /\ b[t].entered \in Nat
        /\ tries[t] \in Nat /\ slips[t] \in Nat
    BY DEF Moved, RowTypes, Row
  <2> QED BY <2>1 DEF Counted
<1>4. Known'
  <2>1. \A t \in Node : IsFiniteSet(copy'[t].mech) /\ step'[t] \notin Busy
    BY <1>1, <1>3 DEF Counted, Busy
  <2>2. ASSUME NEW t \in Node
        PROVE  tries'[t] - refunds'[t] - slips'[t] <= Before(t)'
    <3>1. Before(t)' = AttemptsSoFar(b[t])
      BY <1>1 DEF Before, AttemptsSoFar
    <3>2. /\ b[t] \in Row /\ IsFiniteSet(b[t].mech) /\ b[t].entered \in Nat
          /\ tries[t] - slips[t] <= b[t].entered
          /\ Cardinality(b[t].mech) <= refunds[t]
          /\ tries[t] \in Nat /\ slips[t] \in Nat /\ refunds[t] \in Nat
      BY <1>3 DEF Counted, Moved, RowTypes, Row
    <3>3. /\ AttemptsSoFar(b[t]) \in Nat
          /\ AttemptsSoFar(b[t]) >= b[t].entered - Cardinality(b[t].mech)
          /\ Cardinality(b[t].mech) \in Nat
      BY <3>2, AttemptsType, FS_CardinalityType
    <3> QED BY <3>1, <3>2, <3>3
  <2> QED BY <2>1, <2>2 DEF Known
<1>5. SeenLimit'
  BY DEF SeenLimit, D
<1> QED BY <1>2, <1>3, <1>4, <1>5

LEMMA LimitInit == Init => LimitInv
<1> SUFFICES ASSUME Init PROVE LimitInv
  OBVIOUS
<1>1. NewRow \in Row /\ NewRow.mech = {} /\ NewRow.entered = 0
  BY DEF NewRow, Row, Status
<1>2. IsFiniteSet({}) /\ Cardinality({}) = 0
  BY FS_EmptySet
<1>3. /\ plan \in Plans /\ pc = "off"
      /\ board = [t \in Node |-> NewRow] /\ copy = board
      /\ att = [t \in Node |-> None] /\ step = [t \in Node |-> "begin"]
      /\ tries = [t \in Node |-> 0] /\ refunds = tries /\ slips = tries
  BY DEF Init
<1>4. RowTypes
  BY <1>1, <1>3 DEF RowTypes
<1>5. Counted
  BY <1>1, <1>2, <1>3 DEF Counted
<1>6. Known
  BY <1>1, <1>2, <1>3 DEF Known, Busy
<1>7. SeenLimit
  <2> SUFFICES ASSUME NEW t \in Node, D(t).limit # None
               PROVE  tries[t] - refunds[t] - slips[t] <= D(t).limit
    BY DEF SeenLimit
  <2>1. D(t).limit \in Nat
    BY <1>3, RunnerAssumption DEF D, Change, Declared, Limit
  <2> QED BY <1>3, <2>1
<1> QED BY <1>4, <1>5, <1>6, <1>7 DEF LimitInv

\* No step begins.
Goes ==
  /\ step' \in [Node -> Busy \cup {"begin", "ended", "requeue"}]
  /\ \A t \in Node : step'[t] \in Busy => step[t] \in Busy

LEMMA GoesOn ==
  ASSUME LimitInv, NEW t \in Node, NEW p \in Busy \cup {"begin", "ended", "requeue"},
         Phase(t, p), step[t] \in Busy \/ p \notin Busy
  PROVE  Goes
BY DEF LimitInv, RowTypes, Goes, Phase

LEMMA Unmoved ==
  ASSUME LimitInv
  PROVE  Moved(board, board) /\ Same(copy, copy) /\ (UNCHANGED step => Goes)
BY DEF LimitInv, RowTypes, Moved, Same, Row, Goes

\* What MoveStep asks of an action on the rows.
Rest == UNCHANGED <<plan, att, tries, refunds, slips>> /\ pc' = pc

LEMMA MoveOnMoves ==
  ASSUME LimitInv, NEW t \in Node, NEW s \in Status, MoveOn(t, s)
  PROVE  Moved(board, board') /\ Same(copy, copy')
<1> PICK m \in Moves(t, s) : board' = m.board /\ copy' = m.copy
  BY DEF MoveOn
<1> QED BY MovesMoved DEF LimitInv, RowTypes

LEMMA StandStep ==
  ASSUME LimitInv, Rest, Goes, UNCHANGED <<board, copy>>
  PROVE  LimitInv'
BY MoveStep, Unmoved DEF Rest, Goes

LEMMA RowsStep ==
  ASSUME LimitInv, Rest, Goes, Moved(board, board'), Same(copy, copy')
  PROVE  LimitInv'
BY MoveStep DEF Rest, Goes

\* The loop, people and the gate.
LEMMA LoopLimit ==
  ASSUME LimitInv,
         \/ StartRun \/ Round \/ Interrupt \/ PersonMoves \/ GateGoesOn \/ GateFails
         \/ UNCHANGED vars \/ \E t \in Node : Expire(t)
  PROVE  LimitInv'
<1>1. CASE StartRun
  <2>1. /\ UNCHANGED <<plan, att, tries, refunds, slips, board, copy, step>> /\ pc' # "on"
    BY <1>1 DEF StartRun
  <2> QED BY <2>1, MoveStep, Unmoved DEF Goes
<1>2. CASE Round
  <2>1. UNCHANGED <<board, copy>> /\ Rest /\ step' = [t \in Node |-> "begin"]
    BY <1>2 DEF Round, Rest
  <2>2. Goes
    BY <2>1 DEF Goes, Busy
  <2> QED BY <2>1, <2>2, StandStep
<1>3. CASE Interrupt \/ GateGoesOn \/ GateFails \/ UNCHANGED vars
  <2>1. UNCHANGED <<board, copy, step>> /\ Rest
    BY <1>3 DEF Interrupt, GateGoesOn, GateFails, Rest
  <2> QED BY <2>1, StandStep, Unmoved
<1>4. CASE PersonMoves
  <2>1. UNCHANGED <<copy, step>> /\ Rest
    BY <1>4 DEF PersonMoves, Rest
  <2>2. PICK t \in Node, s \in Status : board' = Written(board, t, s)
    BY <1>4 DEF PersonMoves
  <2>3. Moved(board, board')
    BY <2>2, WrittenMoved DEF LimitInv, RowTypes
  <2> QED BY <2>1, <2>3, RowsStep, Unmoved
<1>5. ASSUME NEW t \in Node, Expire(t) PROVE LimitInv'
  <2>1. UNCHANGED step /\ Rest
    BY <1>5 DEF Expire, Rest
  <2>2. MoveOn(t, "backlog")
    BY <1>5 DEF Expire, MoveOn
  <2> QED BY <2>1, <2>2, MoveOnMoves, RowsStep, Unmoved DEF Status
<1> QED BY <1>1, <1>2, <1>3, <1>4, <1>5

\* A run begins, ends or dies.
LEMMA ProcessLimit ==
  ASSUME LimitInv, LoadBoard \/ Leave \/ Die
  PROVE  LimitInv'
<1>1. UNCHANGED <<plan, tries, refunds, slips>>
  BY DEF LoadBoard, Leave, Die
<1>2. Moved(board, board') /\ Context(board')
  <2>1. CASE LoadBoard \/ Die
    BY <2>1, Unmoved DEF LoadBoard, Die, Context
  <2>2. CASE Leave
    BY <2>2, CardBoard DEF Leave, LimitInv, RowTypes
  <2> QED BY <2>1, <2>2
<1>3. PICK b : b = board'
  OBVIOUS
<1> QED BY <1>1, <1>2, <1>3, ContextStep

\* The end of a step that moves nothing.
LEMMA EndHereLimit ==
  ASSUME LimitInv, NEW t \in Node, step[t] \in Busy, NEW kind, NEW tail \in BOOLEAN,
         EndHere(t, kind, tail), UNCHANGED <<plan, pc, tries, slips>>,
         \/ att' = att
         \/ kind = "mechanics" /\ att' = [att EXCEPT ![t] = Max({0, @ - 1})]
  PROVE  LimitInv'
<1>1. PICK b, c : b = board /\ c = copy
  OBVIOUS
<1>2. Moved(board, b) /\ Same(copy, c) /\ End(t, kind, b, c, tail)
  BY <1>1, Unmoved DEF EndHere
<1> QED BY <1>2, EndStep

\* The step of a node that does not begin with it, and does not end with a move.
LEMMA NodeLimit ==
  ASSUME LimitInv, NEW t \in Node,
         \/ Exhausted(t) \/ Work(t) \/ RedRefused(t) \/ RedBegins(t) \/ RedEnds(t)
         \/ Check(t) \/ CheckRepeats(t)
  PROVE  LimitInv'
<1>1. CASE Exhausted(t)
  <2>1. UNCHANGED <<board, copy>> /\ Rest /\ Phase(t, "ended")
    BY <1>1 DEF Exhausted, Rest
  <2> QED BY <2>1, GoesOn, StandStep DEF Busy
<1>2. CASE Work(t)
  <2>1. step[t] \in Busy /\ UNCHANGED <<plan, pc, att, tries, slips>>
    BY <1>2 DEF Work, In, Busy
  <2>2. ASSUME NEW kind, EndHere(t, kind, FALSE) PROVE LimitInv'
    BY <2>1, <2>2, EndHereLimit
  <2>3. ASSUME NEW p \in {"gate", "red", "check"}, Phase(t, p),
               UNCHANGED <<board, copy, refunds>>
        PROVE  LimitInv'
    BY <2>1, <2>3, GoesOn, StandStep DEF Busy, Rest
  <2>4. \/ \E kind : EndHere(t, kind, FALSE)
        \/ \E p \in {"gate", "red", "check"} : Phase(t, p) /\ UNCHANGED <<board, copy, refunds>>
    <3>1. CASE interrupted
      BY <1>2, <3>1 DEF Work
    <3>2. CASE ~interrupted
      <4>1. \/ \E kind : EndHere(t, kind, FALSE)
            \/ /\ Phase(t, IF D(t).kind = "gate" THEN "gate"
                           ELSE IF D(t).red THEN "red" ELSE "check")
               /\ UNCHANGED <<board, copy, refunds>>
        BY <1>2, <3>2 DEF Work
      <4> QED BY <4>1
    <3> QED BY <3>1, <3>2
  <2> QED BY <2>2, <2>3, <2>4
<1>3. CASE RedRefused(t)
  <2>1. /\ step[t] \in Busy /\ UNCHANGED <<plan, pc, att, tries, slips>>
        /\ EndHere(t, "issue", FALSE)
    BY <1>3 DEF RedRefused, In, Busy
  <2> QED BY <2>1, EndHereLimit
<1>4. CASE RedBegins(t)
  <2>1. UNCHANGED <<board, copy>> /\ Rest /\ Phase(t, "reverted") /\ step[t] \in Busy
    BY <1>4 DEF RedBegins, Rest, In, Busy
  <2> QED BY <2>1, GoesOn, StandStep DEF Busy
<1>5. CASE RedEnds(t)
  <2>1. step[t] \in Busy /\ UNCHANGED <<plan, pc, att, tries, slips>>
    BY <1>5 DEF RedEnds, In, Busy
  <2>2. CASE EndHere(t, "issue", FALSE)
    BY <2>1, <2>2, EndHereLimit
  <2>3. CASE Phase(t, "check") /\ UNCHANGED <<board, copy, refunds>>
    BY <2>1, <2>3, GoesOn, StandStep DEF Busy, Rest
  <2> QED BY <1>5, <2>2, <2>3 DEF RedEnds
<1>6. CASE Check(t)
  <2>1. step[t] \in Busy /\ UNCHANGED <<plan, pc, att, tries, slips>>
    BY <1>6 DEF Check, In, Busy
  <2>2. ASSUME NEW kind, NEW tail \in BOOLEAN, EndHere(t, kind, tail) PROVE LimitInv'
    BY <2>1, <2>2, EndHereLimit
  <2>3. CASE Phase(t, "close") /\ UNCHANGED <<board, copy, refunds>>
    BY <2>1, <2>3, GoesOn, StandStep DEF Busy, Rest
  <2>4. \/ \E kind : \E tail \in BOOLEAN : EndHere(t, kind, tail)
        \/ Phase(t, "close") /\ UNCHANGED <<board, copy, refunds>>
    BY <1>6 DEF Check
  <2> QED BY <2>2, <2>3, <2>4
<1>7. CASE CheckRepeats(t)
  <2>1. /\ step[t] \in Busy /\ UNCHANGED <<plan, pc, tries, slips>>
        /\ EndHere(t, "mechanics", TRUE) /\ att' = [att EXCEPT ![t] = Max({0, @ - 1})]
    BY <1>7 DEF CheckRepeats, In, Busy
  <2> QED BY <2>1, EndHereLimit
<1> QED BY <1>1, <1>2, <1>3, <1>4, <1>5, <1>6, <1>7

\* The steps that end with a move.
LEMMA CloseLimit ==
  ASSUME LimitInv, NEW t \in Node, Skip(t) \/ ToPerson(t) \/ Close(t)
  PROVE  LimitInv'
<1>1. CASE Skip(t)
  <2>1. Rest /\ Phase(t, "ended") /\ MoveOn(t, "done")
    BY <1>1 DEF Skip, Rest, MoveOn
  <2> QED BY <2>1, GoesOn, MoveOnMoves, RowsStep DEF Busy, Status
<1>2. ASSUME NEW s \in Status, NEW m \in Moves(t, s), NEW kind,
             End(t, kind, m.board, m.copy, FALSE),
             UNCHANGED <<plan, pc, att, tries, slips>>, step[t] \in Busy
      PROVE  LimitInv'
  <2>1. Moved(board, m.board) /\ Same(copy, m.copy)
    BY MovesMoved DEF LimitInv, RowTypes
  <2> QED BY <1>2, <2>1, EndStep
<1>3. CASE ToPerson(t)
  BY <1>2, <1>3 DEF ToPerson, In, Busy, Status
<1>4. CASE Close(t)
  BY <1>2, <1>4 DEF Close, In, Busy, Status
<1> QED BY <1>1, <1>3, <1>4

\* The results.  What an issue sends back to the queue is a node of the change.
LEMMA ApplyLimit ==
  ASSUME LimitInv, NEW t \in Node,
         \/ ApplyGate(t) \/ ApplyPark(t) \/ ApplyDone(t) \/ ApplyIssueStop(t)
         \/ ApplyIssue(t) \/ Requeue(t)
  PROVE  LimitInv'
<1>1. Rest
  <2>1. CASE ApplyGate(t)      BY <2>1 DEF ApplyGate, Rest
  <2>2. CASE ApplyPark(t)      BY <2>2 DEF ApplyPark, Rest
  <2>3. CASE ApplyDone(t)      BY <2>3 DEF ApplyDone, Rest
  <2>4. CASE ApplyIssueStop(t) BY <2>4 DEF ApplyIssueStop, Rest
  <2>5. CASE ApplyIssue(t)     BY <2>5 DEF ApplyIssue, Rest
  <2>6. CASE Requeue(t)        BY <2>6 DEF Requeue, Rest
  <2> QED BY <2>1, <2>2, <2>3, <2>4, <2>5, <2>6
<1>2. \/ UNCHANGED <<board, copy, step>>
      \/ MoveOn(t, "review") /\ UNCHANGED step
      \/ MoveOn(t, "queue") /\ UNCHANGED step
      \/ D(t).on_issue # None /\ MoveOn(D(t).on_issue, "queue") /\ Phase(t, "requeue")
  <2>1. CASE ApplyGate(t)      BY <2>1 DEF ApplyGate, Applied
  <2>2. CASE ApplyPark(t)      BY <2>2 DEF ApplyPark, Applied
  <2>3. CASE ApplyDone(t)      BY <2>3 DEF ApplyDone, Applied
  <2>4. CASE ApplyIssueStop(t) BY <2>4 DEF ApplyIssueStop, Applied
  <2>5. CASE ApplyIssue(t)     BY <2>5 DEF ApplyIssue, Applied
  <2>6. CASE Requeue(t)        BY <2>6 DEF Requeue, Applied
  <2> QED BY <2>1, <2>2, <2>3, <2>4, <2>5, <2>6
<1>3. CASE UNCHANGED <<board, copy, step>>
  BY <1>1, <1>3, StandStep, Unmoved
<1>4. ASSUME NEW s \in {"review", "queue"}, MoveOn(t, s), UNCHANGED step
      PROVE  LimitInv'
  BY <1>1, <1>4, MoveOnMoves, RowsStep, Unmoved DEF Status
<1>5. ASSUME D(t).on_issue # None, MoveOn(D(t).on_issue, "queue"), Phase(t, "requeue")
      PROVE  LimitInv'
  <2>1. D(t).on_issue \in Node
    BY <1>5, RunnerAssumption DEF LimitInv, RowTypes, D, Change, Declared
  <2>2. Moved(board, board') /\ Same(copy, copy')
    BY <1>5, <2>1, MoveOnMoves DEF Status
  <2>3. Goes
    BY <1>5, GoesOn DEF Busy
  <2> QED BY <1>1, <2>2, <2>3, RowsStep
<1> QED BY <1>2, <1>3, <1>4, <1>5

LEMMA LimitStep == LimitInv /\ [Next]_vars => LimitInv'
<1> SUFFICES ASSUME LimitInv, [Next]_vars PROVE LimitInv'
  OBVIOUS
<1>1. ASSUME NEW t \in Node, NodeStep(t) PROVE LimitInv'
  BY <1>1, BeginStep, NodeLimit, CloseLimit, ApplyLimit DEF NodeStep
<1> QED BY <1>1, LoopLimit, ProcessLimit DEF Next, RunStep

(***************************************************************************)
(* People and the run.                                                     *)
(***************************************************************************)
Results == {"none", "gate-skipped", "undecided", "retry-exhausted", "mechanics", "issue",
            "convergence", "gate", "flow-cannot", "done"}

\* How far the step of a node comes by its kind, and what has come of it so far.
Stands(t, p, r) ==
  /\ r \in Results
  /\ p \in Busy \cup {"begin"} => r = "none"
  /\ p = "work" => D(t).kind \in {"auto", "gate"}
  /\ p \in {"red", "reverted", "check", "close"} => D(t).kind = "auto"
  /\ p = "requeue" => r = "issue"

Standing ==
  /\ result \in [Node -> Results]
  /\ \A t \in Node : Stands(t, step[t], result[t])

\* The run knows the status of what nobody else has moved.
Sees == pc = "on" => \A t \in Node \ touched : board[t].status = copy[t].status

\* A node that is worked on is in nobody's hands, as far as the run knows, unless its step
\* has put it there.
Open ==
  \A t \in wave : D(t).kind # "empty" /\ result[t] \notin {"gate", "done"} =>
    copy[t].status \notin {"review", "done"}

\* HandsOff speaks of the board, the run looks at its copy.
HandsInv == moves \in Nat /\ wave \subseteq Node /\ Standing /\ Sees /\ Open

\* What HandsOff says of a step and a task.
HandsOffStep(t) ==
  /\ t \notin touched => board'[t].status = copy'[t].status
  /\ board[t].status # "done" /\ board'[t].status = "done" =>
       D(t).kind \in {"auto", "empty"} /\ Closed(board, t)
  /\ board[t].status \in {"review", "done"} /\ board'[t].status # board[t].status =>
       \/ t \in touched \cap wave \/ D(t).kind = "empty" \/ t \in expired'
       \/ \E s \in wave : result[s] = "issue" /\ D(s).on_issue = t
HandsOffNext == pc = "on" /\ moves' = moves => \A t \in Node : HandsOffStep(t)

\* Rows b have the statuses of rows a, but for t, which has s.
Kept(a, b) == \A u \in Node : b[u].status = a[u].status
Put(a, b, t, s) == \A u \in Node : b[u].status = IF u = t THEN s ELSE a[u].status

\* What a move leaves: the statuses as they were, or a status that the board agreed to.
KeptBoth(b, c) == Kept(board, b) /\ Kept(copy, c)
PutBoth(t, s, b, c) ==
  /\ copy[t].status # s
  /\ s = "done" => Closed(board, t)
  /\ Put(board, b, t, s) /\ Put(copy, c, t, s)

LEMMA WrittenPut ==
  ASSUME NEW rows \in [Node -> Row], NEW t \in Node, NEW s \in Status
  PROVE  Put(rows, Written(rows, t, s), t, s)
<1>1. CASE rows[t].status = s
  BY <1>1 DEF Written, Put
<1>2. CASE rows[t].status # s
  <2> DEFINE n == IF s = "in_progress" THEN rows[t].entered + 1 ELSE rows[t].entered
             row == [rows[t] EXCEPT !.status = s, !.entered = n]
             b == Written(rows, t, s)
  <2>1. n \in Nat
    BY DEF Row
  <2>2. b = [rows EXCEPT ![t] = row]
    BY <1>2, <2>1 DEF Written, Row
  <2> HIDE DEF n, b
  <2>3. row \in Row /\ row.status = s
    BY <2>1 DEF Row
  <2> HIDE DEF row
  <2>4. b[t] = row /\ \A u \in Node : u # t => b[u] = rows[u]
    BY <2>2, <2>3, SetRow
  <2>5. Put(rows, b, t, s)
    BY <2>3, <2>4 DEF Put
  <2> QED BY <2>5 DEF b
<1> QED BY <1>1, <1>2

LEMMA CopyPut ==
  ASSUME NEW rows \in [Node -> Row], NEW t \in Node, NEW s \in Status
  PROVE  Put(rows, [rows EXCEPT ![t].status = s], t, s)
<1> DEFINE row == [rows[t] EXCEPT !.status = s]
           b == [rows EXCEPT ![t].status = s]
<1>1. row \in Row /\ row.status = s
  BY DEF Row
<1>2. b = [rows EXCEPT ![t] = row]
  BY DEF Row
<1> HIDE DEF row, b
<1>3. b[t] = row /\ \A u \in Node : u # t => b[u] = rows[u]
  BY <1>1, <1>2, SetRow
<1>4. Put(rows, b, t, s)
  BY <1>1, <1>3 DEF Put
<1> QED BY <1>4 DEF b

\* Whatever comes of a move, it leaves the statuses or puts the one asked for.
LEMMA MovesPut ==
  ASSUME board \in [Node -> Row], copy \in [Node -> Row],
         NEW t \in Node, NEW s \in Status, NEW m \in Moves(t, s)
  PROVE  KeptBoth(m.board, m.copy) \/ (m.ok /\ PutBoth(t, s, m.board, m.copy))
<1> DEFINE b == Written(board, t, s)
           c == [copy EXCEPT ![t].status = s]
<1>1. Put(board, b, t, s) /\ Put(copy, c, t, s)
  BY WrittenPut, CopyPut
<1> HIDE DEF b, c
<1>2. \/ m.board = board /\ m.copy = copy
      \/ /\ m.board = b /\ m.copy = c /\ m.ok
         /\ copy[t].status # s /\ (s = "done" => Closed(board, t))
  <2>1. \/ m = Answer(TRUE, board, copy, faults)
        \/ m = Answer(FALSE, board, copy, faults)
        \/ /\ m = Answer(TRUE, b, c, faults)
           /\ copy[t].status # s /\ (s = "done" => Closed(board, t))
        \/ \E f : m = Answer(FALSE, board, copy, f)
    BY DEF Moves, b, c
  <2> QED BY <2>1 DEF Answer
<1>3. m.board = board /\ m.copy = copy => KeptBoth(m.board, m.copy)
  BY DEF KeptBoth, Kept
<1>4. /\ m.board = b /\ m.copy = c
      /\ copy[t].status # s /\ (s = "done" => Closed(board, t))
      => PutBoth(t, s, m.board, m.copy)
  BY <1>1 DEF PutBoth
<1> QED BY <1>2, <1>3, <1>4, Zenon

\* The record of an attempt changes no status.
LEMMA EndKept ==
  ASSUME NEW t \in Node, NEW kind, NEW b \in [Node -> Row], NEW c \in [Node -> Row],
         att[t] \in Nat, NEW tail \in BOOLEAN, End(t, kind, b, c, tail)
  PROVE  Kept(b, board') /\ Kept(c, copy')
<1> DEFINE mech(rows) == IF kind = "mechanics" THEN rows[t].mech \cup {att[t]}
                                               ELSE rows[t].mech \ {att[t]}
           cmech == IF kind = "mechanics" THEN c[t].mech \cup {att[t]} ELSE c[t].mech
           brow == [b[t] EXCEPT !.mech = mech(b), !.tail = tail]
           crow == [c[t] EXCEPT !.mech = cmech, !.tail = tail]
<1>1. mech(b) \in SUBSET Nat /\ cmech \in SUBSET Nat
  BY DEF Row
<1>2. board' = [b EXCEPT ![t] = brow]
  <2>1. CASE kind = "mechanics"
    BY <2>1 DEF End, Recorded, Row
  <2>2. CASE kind # "mechanics"
    BY <2>2 DEF End, Recorded, Row
  <2> QED BY <2>1, <2>2
<1>3. copy' = [c EXCEPT ![t] = crow]
  BY DEF End, Row
<1> HIDE DEF mech, cmech
<1>4. brow \in Row /\ brow.status = b[t].status /\ crow \in Row /\ crow.status = c[t].status
  BY <1>1 DEF Row
<1> HIDE DEF brow, crow
<1>5. board'[t] = brow /\ \A u \in Node : u # t => board'[u] = b[u]
  BY <1>2, <1>4, SetRow
<1>6. copy'[t] = crow /\ \A u \in Node : u # t => copy'[u] = c[u]
  BY <1>3, <1>4, SetRow
<1> QED BY <1>4, <1>5, <1>6 DEF Kept

\* A status that may be put there: it takes no task out of a person's hands.
MayPut(u, s) ==
  /\ s = "done" => D(u).kind \in {"auto", "empty"}
  /\ copy[u].status \in {"review", "done"} =>
       \/ D(u).kind = "empty" \/ u \in expired'
       \/ \E v \in wave : result[v] = "issue" /\ D(v).on_issue = u
  /\ s \in {"review", "done"} =>
       D(u).kind = "empty" \/ u \notin wave' \/ result'[u] \in {"gate", "done"}
  /\ \/ u \in wave \/ u \in expired'
     \/ \E v \in wave : result[v] = "issue" /\ D(v).on_issue = u

Careful == \/ KeptBoth(board', copy')
           \/ \E u \in Node, s \in Status : PutBoth(u, s, board', copy') /\ MayPut(u, s)

\* A careful step inside a run.
LEMMA CarefulStep ==
  ASSUME HandsInv, pc = "on", UNCHANGED <<plan, pc, moves, touched>>,
         wave' \subseteq wave, Standing', Careful,
         \A t \in Node : result'[t] = result[t] \/ result[t] = "none"
  PROVE  HandsInv' /\ HandsOffNext
<1> USE DEF HandsInv
<1>1. \A t \in Node : D(t)' = D(t)
  BY DEF D
<1>2. CASE KeptBoth(board', copy')
  <2>1. Sees'
    BY <1>2 DEF Sees, KeptBoth, Kept
  <2>2. Open'
    <3> SUFFICES ASSUME NEW t \in wave', D(t).kind # "empty",
                        result'[t] \notin {"gate", "done"}
                 PROVE  copy'[t].status \notin {"review", "done"}
      BY <1>1 DEF Open
    <3>1. t \in wave /\ t \in Node /\ result[t] \notin {"gate", "done"}
      OBVIOUS
    <3>2. copy[t].status \notin {"review", "done"}
      BY <3>1 DEF Open
    <3> QED BY <1>2, <3>1, <3>2 DEF KeptBoth, Kept
  <2>3. HandsOffNext
    <3> SUFFICES ASSUME NEW t \in Node PROVE HandsOffStep(t)
      BY DEF HandsOffNext
    <3>1. board'[t].status = board[t].status /\ copy'[t].status = copy[t].status
      BY <1>2 DEF KeptBoth, Kept
    <3> QED BY <3>1 DEF HandsOffStep, Sees
  <2> QED BY <2>1, <2>2, <2>3
<1>3. ASSUME NEW u \in Node, NEW s \in Status, PutBoth(u, s, board', copy'), MayPut(u, s)
      PROVE  HandsInv' /\ HandsOffNext
  <2>0. \A t \in Node : /\ board'[t].status = IF t = u THEN s ELSE board[t].status
                        /\ copy'[t].status = IF t = u THEN s ELSE copy[t].status
    BY <1>3 DEF PutBoth, Put
  <2>1. Sees'
    BY <2>0 DEF Sees
  <2>2. Open'
    <3> SUFFICES ASSUME NEW t \in wave', D(t).kind # "empty",
                        result'[t] \notin {"gate", "done"}
                 PROVE  copy'[t].status \notin {"review", "done"}
      BY <1>1 DEF Open
    <3>1. t \in wave /\ t \in Node /\ result[t] \notin {"gate", "done"}
      OBVIOUS
    <3>2. copy[t].status \notin {"review", "done"}
      BY <3>1 DEF Open
    <3>3. t = u => s \notin {"review", "done"}
      BY <1>3 DEF MayPut
    <3> QED BY <2>0, <3>1, <3>2, <3>3
  <2>3. HandsOffNext
    <3> SUFFICES ASSUME NEW t \in Node PROVE HandsOffStep(t)
      BY DEF HandsOffNext
    <3>1. t \notin touched => board[t].status = copy[t].status
      BY DEF Sees
    <3>2. CASE t = u
      <4>1. board'[t].status = s /\ copy'[t].status = s
        BY <2>0, <3>2
      <4>2. s = "done" => D(t).kind \in {"auto", "empty"} /\ Closed(board, t)
        BY <1>3, <3>2 DEF MayPut, PutBoth
      <4>3. copy[t].status \in {"review", "done"} =>
              \/ D(t).kind = "empty" \/ t \in expired'
              \/ \E v \in wave : result[v] = "issue" /\ D(v).on_issue = t
        BY <1>3, <3>2 DEF MayPut
      <4>4. \/ t \in wave \/ t \in expired'
            \/ \E v \in wave : result[v] = "issue" /\ D(v).on_issue = t
        BY <1>3, <3>2 DEF MayPut
      <4> HIDE DEF HandsInv
      <4> QED BY <3>1, <4>1, <4>2, <4>3, <4>4 DEF HandsOffStep
    <3>3. CASE t # u
      BY <2>0, <3>1, <3>3 DEF HandsOffStep
    <3> QED BY <3>2, <3>3
  <2> QED BY <2>1, <2>2, <2>3
<1> QED BY <1>2, <1>3 DEF Careful

\* A step that leaves the statuses, the wave and the results alone.
LEMMA CalmStep ==
  ASSUME HandsInv, RowTypes, UNCHANGED <<plan, board, copy, wave, step, result, touched>>,
         pc' = pc \/ pc' # "on", moves' = moves
  PROVE  HandsInv' /\ HandsOffNext
<1>1. \A t \in Node : D(t)' = D(t)
  BY DEF D
<1>2. Standing' /\ Open'
  BY <1>1 DEF HandsInv, Standing, Stands, Open
<1>3. Sees'
  BY DEF HandsInv, Sees
<1>4. HandsOffNext
  BY DEF HandsInv, Sees, HandsOffNext, HandsOffStep
<1> QED BY <1>2, <1>3, <1>4 DEF HandsInv

\* A run begins, ends or dies: the copy is the board.
LEMMA AnewStep ==
  ASSUME HandsInv, RowTypes, UNCHANGED plan, Kept(board, board'), Context(board'),
         moves' = moves
  PROVE  HandsInv' /\ HandsOffNext
<1>1. /\ copy' = board' /\ wave' = {} /\ touched' = {}
      /\ step' = [t \in Node |-> "begin"] /\ result' = [t \in Node |-> "none"]
  BY DEF Context
<1>2. Standing'
  BY <1>1 DEF Standing, Stands, Results, Busy
<1>3. Sees' /\ Open'
  BY <1>1 DEF Sees, Open
<1>4. HandsOffNext
  BY <1>1 DEF Kept, HandsOffNext, HandsOffStep
<1> QED BY <1>1, <1>2, <1>3, <1>4 DEF HandsInv

LEMMA LeastMember ==
  ASSUME NEW S \in SUBSET Nat, S # {}
  PROVE  Min(S) \in S /\ \A y \in S : Min(S) <= y
<1>1. \E x \in S : \A y \in S : ~(<<y, x>> \in OpToRel(<, Nat))
  BY NatLessThanWellFounded, WFMin
<1>2. PICK x \in S : \A y \in S : ~(y < x)
  BY <1>1 DEF OpToRel
<1>3. \A y \in S : x =< y
  BY <1>2
<1> QED BY <1>3 DEF Min

\* The step of a node comes to p, with result r.
LEMMA StandsStep ==
  ASSUME Standing, RowTypes, plan' = plan, NEW t \in Node,
         NEW p \in Busy \cup {"begin", "ended", "requeue"}, NEW r, Stands(t, p, r),
         Phase(t, p), result' = [result EXCEPT ![t] = r]
  PROVE  Standing'
<1>1. \A u \in Node : D(u)' = D(u)
  BY DEF D
<1>2. /\ step'[t] = p /\ result'[t] = r
      /\ \A u \in Node : u # t => step'[u] = step[u] /\ result'[u] = result[u]
  BY DEF Phase, Standing, RowTypes
<1>3. result' \in [Node -> Results]
  BY DEF Standing, Stands
<1> QED BY <1>1, <1>2, <1>3 DEF Standing, Stands

\* It comes to p, with no result.
LEMMA StandsOn ==
  ASSUME Standing, RowTypes, plan' = plan, NEW t \in Node,
         NEW p \in Busy \cup {"begin", "ended", "requeue"}, Stands(t, p, result[t]),
         Phase(t, p), result' = result
  PROVE  Standing'
<1>1. result = [result EXCEPT ![t] = result[t]]
  BY DEF Standing
<1> QED BY <1>1, StandsStep

\* The step of a node of the wave that ends, with the rows b and c.
LEMMA EndHands ==
  ASSUME LimitInv, HandsInv, NEW t \in wave, pc = "on", step[t] \in Busy,
         UNCHANGED <<plan, pc, moves, touched, wave>>,
         NEW b \in [Node -> Row], NEW c \in [Node -> Row], NEW tail \in BOOLEAN,
         NEW kind \in Results, End(t, kind, b, c, tail),
         \/ KeptBoth(b, c)
         \/ \E s \in Status : PutBoth(t, s, b, c) /\ MayPut(t, s)
  PROVE  HandsInv' /\ HandsOffNext
<1>1. t \in Node /\ att[t] \in Nat /\ Standing /\ RowTypes
  BY DEF HandsInv, LimitInv, Known, RowTypes
<1>2. Kept(b, board') /\ Kept(c, copy')
  BY <1>1, EndKept
<1>3. Careful
  BY <1>1, <1>2 DEF Careful, KeptBoth, PutBoth, Kept, Put
<1>4. result[t] = "none"
  BY <1>1 DEF Standing, Stands
<1>5. Phase(t, "ended") /\ result' = [result EXCEPT ![t] = kind]
  BY DEF End, Phase
<1>6. Stands(t, "ended", kind)
  BY DEF Stands, Busy
<1>7. Standing'
  BY <1>1, <1>5, <1>6, StandsStep
<1>8. \A u \in Node : result'[u] = result[u] \/ result[u] = "none"
  BY <1>1, <1>4, <1>5 DEF Standing
<1> QED BY <1>3, <1>7, <1>8, CarefulStep

LEMMA EndHereHands ==
  ASSUME LimitInv, HandsInv, NEW t \in wave, pc = "on", step[t] \in Busy,
         UNCHANGED <<plan, pc, moves, touched, wave>>,
         NEW tail \in BOOLEAN, NEW kind \in Results, EndHere(t, kind, tail)
  PROVE  HandsInv' /\ HandsOffNext
<1>1. PICK b, c : b = board /\ c = copy
  OBVIOUS
<1>2. b \in [Node -> Row] /\ c \in [Node -> Row] /\ KeptBoth(b, c) /\ End(t, kind, b, c, tail)
  BY <1>1 DEF LimitInv, RowTypes, KeptBoth, Kept, EndHere
<1> QED BY <1>2, EndHands

\* The step of a node goes on to p.
LEMMA OnHands ==
  ASSUME LimitInv, HandsInv, NEW t \in wave, pc = "on", step[t] \in Busy,
         UNCHANGED <<plan, pc, moves, touched, wave, board, copy, result>>,
         NEW p \in Busy, Phase(t, p), Stands(t, p, "none")
  PROVE  HandsInv' /\ HandsOffNext
<1>1. t \in Node /\ Standing /\ RowTypes
  BY DEF HandsInv, LimitInv
<1>2. result[t] = "none"
  BY <1>1 DEF Standing, Stands
<1>3. Standing'
  BY <1>1, <1>2, StandsOn
<1>4. Careful
  BY DEF Careful, KeptBoth, Kept
<1> QED BY <1>3, <1>4, CarefulStep

\* A node that is worked on is in nobody's hands, as far as the copy tells.
LEMMA InNoHands ==
  ASSUME HandsInv, NEW t \in wave,
         step[t] \in Busy \cup {"begin"} \/ result[t] \notin {"gate", "done"}
  PROVE  copy[t].status \in {"review", "done"} => D(t).kind = "empty"
BY DEF HandsInv, Standing, Stands, Open

LEMMA NodeHands ==
  ASSUME LimitInv, HandsInv, NEW t \in Node,
         \/ Work(t) \/ RedRefused(t) \/ RedBegins(t) \/ RedEnds(t)
         \/ Check(t) \/ CheckRepeats(t)
  PROVE  HandsInv' /\ HandsOffNext
<1>0. Stands(t, step[t], result[t])
  BY DEF HandsInv, Standing
<1>1. CASE Work(t)
  <2>1. /\ t \in wave /\ pc = "on" /\ step[t] \in Busy /\ step[t] = "work"
        /\ UNCHANGED <<plan, pc, moves, touched, wave>>
    BY <1>1 DEF Work, In, Busy
  <2>2. ASSUME NEW kind \in Results, EndHere(t, kind, FALSE) PROVE HandsInv' /\ HandsOffNext
    BY <2>1, <2>2, EndHereHands
  <2>3. ASSUME Phase(t, IF D(t).kind = "gate" THEN "gate"
                        ELSE IF D(t).red THEN "red" ELSE "check"),
               UNCHANGED <<board, copy, result>>
        PROVE  HandsInv' /\ HandsOffNext
    <3>1. PICK p : p = IF D(t).kind = "gate" THEN "gate" ELSE IF D(t).red THEN "red" ELSE "check"
      OBVIOUS
    <3>2. D(t).kind \in {"auto", "gate"}
      BY <1>0, <2>1 DEF Stands
    <3>3. p \in Busy /\ Stands(t, p, "none")
      BY <3>1, <3>2 DEF Busy, Stands, Results
    <3> QED BY <2>1, <2>3, <3>1, <3>3, OnHands
  <2>4. CASE interrupted
    BY <1>1, <2>2, <2>4 DEF Work, Results
  <2>5. CASE ~interrupted
    <3>1. \/ \E kind \in {"issue", "convergence", "mechanics"} : EndHere(t, kind, FALSE)
          \/ /\ Phase(t, IF D(t).kind = "gate" THEN "gate"
                         ELSE IF D(t).red THEN "red" ELSE "check")
             /\ UNCHANGED <<board, copy, result>>
      BY <1>1, <2>5 DEF Work
    <3> QED BY <2>2, <2>3, <3>1 DEF Results
  <2> QED BY <2>4, <2>5
<1>2. CASE RedRefused(t)
  <2>1. /\ t \in wave /\ pc = "on" /\ step[t] \in Busy /\ EndHere(t, "issue", FALSE)
        /\ UNCHANGED <<plan, pc, moves, touched, wave>>
    BY <1>2 DEF RedRefused, In, Busy
  <2> QED BY <2>1, EndHereHands DEF Results
<1>3. CASE RedBegins(t)
  <2>1. /\ t \in wave /\ pc = "on" /\ step[t] = "red" /\ Phase(t, "reverted")
        /\ UNCHANGED <<plan, pc, moves, touched, wave, board, copy, result>>
    BY <1>3 DEF RedBegins, In
  <2>2. Stands(t, "reverted", "none")
    BY <1>0, <2>1 DEF Stands, Results
  <2> QED BY <2>1, <2>2, OnHands DEF Busy
<1>4. CASE RedEnds(t)
  <2>1. /\ t \in wave /\ pc = "on" /\ step[t] = "reverted"
        /\ UNCHANGED <<plan, pc, moves, touched, wave>>
    BY <1>4 DEF RedEnds, In
  <2>2. CASE EndHere(t, "issue", FALSE)
    BY <2>1, <2>2, EndHereHands DEF Results, Busy
  <2>3. CASE Phase(t, "check") /\ UNCHANGED <<board, copy, result>>
    <3>1. Stands(t, "check", "none")
      BY <1>0, <2>1 DEF Stands, Results
    <3> QED BY <2>1, <2>3, <3>1, OnHands DEF Busy
  <2> QED BY <1>4, <2>2, <2>3 DEF RedEnds
<1>5. CASE Check(t)
  <2>1. /\ t \in wave /\ pc = "on" /\ step[t] = "check"
        /\ UNCHANGED <<plan, pc, moves, touched, wave>>
    BY <1>5 DEF Check, In
  <2>2. ASSUME NEW kind \in Results, NEW tail \in BOOLEAN, EndHere(t, kind, tail)
        PROVE  HandsInv' /\ HandsOffNext
    BY <2>1, <2>2, EndHereHands DEF Busy
  <2>3. CASE Phase(t, "close") /\ UNCHANGED <<board, copy, result>>
    <3>1. Stands(t, "close", "none")
      BY <1>0, <2>1 DEF Stands, Results
    <3> QED BY <2>1, <2>3, <3>1, OnHands DEF Busy
  <2>4. \/ \E kind \in Results : \E tail \in BOOLEAN : EndHere(t, kind, tail)
        \/ Phase(t, "close") /\ UNCHANGED <<board, copy, result>>
    BY <1>5 DEF Check, Results
  <2> QED BY <2>2, <2>3, <2>4
<1>6. CASE CheckRepeats(t)
  <2>1. /\ t \in wave /\ pc = "on" /\ step[t] \in Busy /\ EndHere(t, "mechanics", TRUE)
        /\ UNCHANGED <<plan, pc, moves, touched, wave>>
    BY <1>6 DEF CheckRepeats, In, Busy
  <2> QED BY <2>1, EndHereHands DEF Results
<1> QED BY <1>1, <1>2, <1>3, <1>4, <1>5, <1>6

\* A move of a node leaves the statuses or puts one.
LEMMA MoveOnPut ==
  ASSUME RowTypes, NEW t \in Node, NEW s \in Status, MoveOn(t, s)
  PROVE  KeptBoth(board', copy') \/ PutBoth(t, s, board', copy')
<1> PICK m \in Moves(t, s) : board' = m.board /\ copy' = m.copy
  BY DEF MoveOn
<1> QED BY MovesPut DEF RowTypes

\* The steps that begin, and those that end with a move.
LEMMA CloseHands ==
  ASSUME LimitInv, HandsInv, NEW t \in Node,
         Skip(t) \/ Exhausted(t) \/ Begin(t) \/ ToPerson(t) \/ Close(t)
  PROVE  HandsInv' /\ HandsOffNext
<1>0. RowTypes /\ Standing /\ Stands(t, step[t], result[t])
  BY DEF LimitInv, HandsInv, Standing
<1>1. CASE Skip(t)
  <2>1. /\ t \in wave /\ pc = "on" /\ step[t] = "begin" /\ D(t).kind = "empty"
        /\ UNCHANGED <<plan, pc, moves, touched, wave>>
        /\ MoveOn(t, "done") /\ Phase(t, "ended")
    BY <1>1 DEF Skip, In, MoveOn
  <2>2. PICK r \in {"gate-skipped", "undecided"} : result' = [result EXCEPT ![t] = r]
    BY <1>1 DEF Skip
  <2>3. Careful
    <3>1. KeptBoth(board', copy') \/ PutBoth(t, "done", board', copy')
      BY <1>0, <2>1, MoveOnPut DEF Status
    <3>2. MayPut(t, "done")
      BY <2>1 DEF MayPut
    <3> QED BY <3>1, <3>2 DEF Careful, Status
  <2>4. Stands(t, "ended", r)
    BY DEF Stands, Results, Busy
  <2>5. Standing'
    BY <1>0, <2>1, <2>2, <2>4, StandsStep
  <2>6. result[t] = "none" /\ \A u \in Node : result'[u] = result[u] \/ u = t
    BY <1>0, <2>1, <2>2 DEF Stands, Standing
  <2> QED BY <2>1, <2>3, <2>5, <2>6, CarefulStep
<1>2. CASE Exhausted(t)
  <2>1. /\ t \in wave /\ pc = "on" /\ step[t] = "begin"
        /\ UNCHANGED <<plan, pc, moves, touched, wave, board, copy>>
        /\ Phase(t, "ended") /\ result' = [result EXCEPT ![t] = "retry-exhausted"]
    BY <1>2 DEF Exhausted, In
  <2>2. Careful
    BY <2>1 DEF Careful, KeptBoth, Kept
  <2>3. Stands(t, "ended", "retry-exhausted")
    BY DEF Stands, Results, Busy
  <2>4. Standing'
    BY <1>0, <2>1, <2>3, StandsStep
  <2>5. result[t] = "none" /\ \A u \in Node : result'[u] = result[u] \/ u = t
    BY <1>0, <2>1 DEF Stands, Standing
  <2> QED BY <2>1, <2>2, <2>4, <2>5, CarefulStep
<1>3. CASE Begin(t)
  <2>1. /\ t \in wave /\ pc = "on" /\ step[t] = "begin" /\ D(t).kind # "empty"
        /\ UNCHANGED <<plan, pc, moves, touched, wave, result>>
        /\ MoveOn(t, "in_progress")
        /\ Phase(t, IF D(t).kind = "hand" THEN "gate" ELSE "work")
    BY <1>3 DEF Begin, In, MoveOn
  <2>2. PICK p : p = IF D(t).kind = "hand" THEN "gate" ELSE "work"
    OBVIOUS
  <2>3. D(t).kind \in {"auto", "gate", "hand", "empty"}
    BY <1>0, RunnerAssumption DEF RowTypes, D, Change, Declared
  <2>4. p \in Busy /\ Stands(t, p, result[t])
    BY <1>0, <2>1, <2>2, <2>3 DEF Busy, Stands, Results
  <2>5. Standing'
    BY <1>0, <2>1, <2>2, <2>4, StandsOn
  <2>6. Careful
    <3>1. KeptBoth(board', copy') \/ PutBoth(t, "in_progress", board', copy')
      BY <1>0, <2>1, MoveOnPut DEF Status
    <3>2. MayPut(t, "in_progress")
      BY <2>1, InNoHands DEF MayPut
    <3> QED BY <3>1, <3>2 DEF Careful, Status
  <2> QED BY <2>1, <2>5, <2>6, CarefulStep
<1>4. CASE ToPerson(t)
  <2>1. /\ t \in wave /\ pc = "on" /\ step[t] = "gate" /\ step[t] \in Busy
        /\ UNCHANGED <<plan, pc, moves, touched, wave>>
    BY <1>4 DEF ToPerson, In, Busy
  <2>2. PICK m \in Moves(t, "review") : End(t, "gate", m.board, m.copy, FALSE)
    BY <1>4 DEF ToPerson
  <2>3. m.board \in [Node -> Row] /\ m.copy \in [Node -> Row]
    BY <1>0, MovesMoved DEF RowTypes, Moved, Same, Status
  <2>4. KeptBoth(m.board, m.copy) \/ PutBoth(t, "review", m.board, m.copy)
    BY <1>0, MovesPut DEF RowTypes, Status
  <2>5. MayPut(t, "review")
    <3>1. result'[t] = "gate"
      BY <1>0, <2>2 DEF End, Standing
    <3> QED BY <2>1, <3>1, InNoHands DEF MayPut
  <2> QED BY <2>1, <2>2, <2>3, <2>4, <2>5, EndHands DEF Results, Status
<1>5. CASE Close(t)
  <2>1. /\ t \in wave /\ pc = "on" /\ step[t] = "close" /\ step[t] \in Busy
        /\ UNCHANGED <<plan, pc, moves, touched, wave>>
    BY <1>5 DEF Close, In, Busy
  <2>2. PICK m \in Moves(t, "done") :
          End(t, IF m.ok THEN "done" ELSE "undecided", m.board, m.copy, FALSE)
    BY <1>5 DEF Close
  <2>3. PICK kind : kind = IF m.ok THEN "done" ELSE "undecided"
    OBVIOUS
  <2>4. m.board \in [Node -> Row] /\ m.copy \in [Node -> Row]
    BY <1>0, MovesMoved DEF RowTypes, Moved, Same, Status
  <2>5. KeptBoth(m.board, m.copy) \/ (m.ok /\ PutBoth(t, "done", m.board, m.copy))
    BY <1>0, MovesPut DEF RowTypes, Status
  <2>6. m.ok => MayPut(t, "done")
    <3>1. m.ok => result'[t] = "done"
      BY <1>0, <2>2 DEF End, Standing
    <3>2. D(t).kind = "auto"
      BY <1>0, <2>1 DEF Stands
    <3> QED BY <2>1, <3>1, <3>2, InNoHands DEF MayPut
  <2>7. kind \in Results /\ End(t, kind, m.board, m.copy, FALSE)
    BY <2>2, <2>3 DEF Results
  <2>8. KeptBoth(m.board, m.copy) \/ (PutBoth(t, "done", m.board, m.copy) /\ MayPut(t, "done"))
    BY <2>5, <2>6, Zenon
  <2> QED BY <2>1, <2>4, <2>7, <2>8, EndHands DEF Status
<1> QED BY <1>1, <1>2, <1>3, <1>4, <1>5

\* The results.
LEMMA ApplyHands ==
  ASSUME LimitInv, HandsInv, NEW t \in Node,
         \/ ApplyGate(t) \/ ApplyPark(t) \/ ApplyDone(t) \/ ApplyIssueStop(t)
         \/ ApplyIssue(t) \/ Requeue(t)
  PROVE  HandsInv' /\ HandsOffNext
<1>0. RowTypes /\ Standing /\ wave \subseteq Node
  BY DEF LimitInv, HandsInv
<1>1. UNCHANGED <<plan, pc, moves, touched>> /\ Applying(t) /\ result' = result
  <2>1. CASE ApplyGate(t)      BY <2>1 DEF ApplyGate, Applied
  <2>2. CASE ApplyPark(t)      BY <2>2 DEF ApplyPark, Applied
  <2>3. CASE ApplyDone(t)      BY <2>3 DEF ApplyDone, Applied
  <2>4. CASE ApplyIssueStop(t) BY <2>4 DEF ApplyIssueStop, Applied
  <2>5. CASE ApplyIssue(t)     BY <2>5 DEF ApplyIssue, Applied
  <2>6. CASE Requeue(t)        BY <2>6 DEF Requeue, Applied
  <2> QED BY <2>1, <2>2, <2>3, <2>4, <2>5, <2>6
<1>2. t \in wave /\ pc = "on" /\ step[t] \in {"ended", "requeue"}
  BY <1>0, <1>1, LeastMember, RunnerAssumption DEF Applying
<1>3. ASSUME step' = step, wave' = wave \ {t},
             \/ UNCHANGED <<board, copy>>
             \/ \E s \in {"review", "queue"} : result[t] \notin {"gate", "done"} /\ MoveOn(t, s)
      PROVE  HandsInv' /\ HandsOffNext
  <2>1. Standing'
    BY <1>0, <1>1, <1>3 DEF Standing, Stands, D
  <2>2. Careful
    <3>1. CASE UNCHANGED <<board, copy>>
      BY <3>1 DEF Careful, KeptBoth, Kept
    <3>2. ASSUME NEW s \in {"review", "queue"}, result[t] \notin {"gate", "done"}, MoveOn(t, s)
          PROVE  Careful
      <4>1. s \in Status
        BY DEF Status
      <4>2. KeptBoth(board', copy') \/ PutBoth(t, s, board', copy')
        BY <1>0, <3>2, <4>1, MoveOnPut
      <4>3. MayPut(t, s)
        BY <1>2, <1>3, <3>2, InNoHands DEF MayPut
      <4> QED BY <4>1, <4>2, <4>3 DEF Careful
    <3> QED BY <1>3, <3>1, <3>2
  <2> QED BY <1>1, <1>2, <1>3, <2>1, <2>2, CarefulStep
<1>4. CASE ApplyGate(t)
  BY <1>3, <1>4 DEF ApplyGate, Applied
<1>5. CASE ApplyPark(t)
  BY <1>3, <1>5 DEF ApplyPark, Applied
<1>6. CASE ApplyDone(t)
  BY <1>3, <1>6 DEF ApplyDone, Applied
<1>7. CASE ApplyIssueStop(t)
  BY <1>3, <1>7 DEF ApplyIssueStop, Applied
<1>8. CASE Requeue(t)
  <2>1. result[t] = "issue"
    BY <1>0, <1>8 DEF Requeue, Standing, Stands
  <2> QED BY <1>3, <1>8, <2>1 DEF Requeue, Applied
<1>9. CASE ApplyIssue(t)
  <2>1. CASE D(t).on_issue = None
    BY <1>3, <1>9, <2>1 DEF ApplyIssue, Applied
  <2>2. CASE D(t).on_issue # None
    <3>1. /\ MoveOn(D(t).on_issue, "queue") /\ Phase(t, "requeue") /\ wave' = wave
          /\ result[t] = "issue"
      BY <1>9, <2>2 DEF ApplyIssue
    <3>2. D(t).on_issue \in Node
      BY <1>0, <2>2, RunnerAssumption DEF RowTypes, D, Change, Declared
    <3>3. PICK u \in Node : u = D(t).on_issue
      BY <3>2
    <3>4. Careful
      <4>1. KeptBoth(board', copy') \/ PutBoth(u, "queue", board', copy')
        BY <1>0, <3>1, <3>3, MoveOnPut DEF Status
      <4>2. MayPut(u, "queue")
        BY <1>2, <3>1, <3>3 DEF MayPut
      <4> QED BY <4>1, <4>2 DEF Careful, Status
    <3>5. Stands(t, "requeue", result[t])
      BY <3>1 DEF Stands, Results, Busy
    <3>6. Standing'
      BY <1>0, <1>1, <3>1, <3>5, StandsOn
    <3> QED BY <1>1, <1>2, <3>1, <3>4, <3>6, CarefulStep
  <2> QED BY <2>1, <2>2
<1> QED BY <1>4, <1>5, <1>6, <1>7, <1>8, <1>9

LEMMA ExpireHands ==
  ASSUME LimitInv, HandsInv, NEW t \in Node, Expire(t)
  PROVE  HandsInv' /\ HandsOffNext
<1>1. /\ pc = "on" /\ UNCHANGED <<plan, pc, moves, touched, wave, step, result>>
      /\ MoveOn(t, "backlog") /\ t \in expired'
  BY DEF Expire, AtHead, MoveOn
<1>2. Standing' /\ RowTypes
  BY <1>1 DEF LimitInv, HandsInv, Standing, Stands, D
<1>3. Careful
  <2>1. KeptBoth(board', copy') \/ PutBoth(t, "backlog", board', copy')
    BY <1>1, <1>2, MoveOnPut DEF Status
  <2>2. MayPut(t, "backlog")
    BY <1>1 DEF MayPut
  <2> QED BY <2>1, <2>2 DEF Careful, Status
<1> QED BY <1>1, <1>2, <1>3, CarefulStep

\* A wave is taken from what can be run.
LEMMA WaveFrom ==
  ASSUME NEW S \in SUBSET Node, S # {}, NEW W \in BuildWave(S)
  PROVE  W \subseteq S
BY LeastMember, RunnerAssumption DEF BuildWave

\* Nothing in it is done, or in review with something to approve.
LEMMA RoundHands ==
  ASSUME LimitInv, HandsInv, Round
  PROVE  HandsInv' /\ HandsOffNext
<1>1. /\ pc = "on" /\ wave = {}
      /\ UNCHANGED <<plan, pc, moves, touched, board, copy>>
      /\ step' = [t \in Node |-> "begin"] /\ result' = [t \in Node |-> "none"]
  BY DEF Round, AtHead
<1>2. wave' \subseteq {t \in Frontier : ~InReview(t)}
  <2> DEFINE held == {t \in Frontier : InReview(t)} \ gated
             runnable == Frontier \ (gated \cup held)
  <2>1. wave' = wave \/ (runnable # {} /\ wave' \in BuildWave(runnable))
    BY DEF Round
  <2>2. runnable \in SUBSET Node /\ runnable \subseteq {t \in Frontier : ~InReview(t)}
    BY DEF Frontier
  <2> HIDE DEF runnable
  <2> QED BY <1>1, <2>1, <2>2, WaveFrom
<1>3. wave' \subseteq Node
  BY <1>2 DEF Frontier
<1>4. Open'
  BY <1>1, <1>2 DEF Open, Frontier, InReview, D
<1>5. Standing'
  BY <1>1 DEF Standing, Stands, Results, Busy
<1>6. Sees' /\ HandsOffNext
  BY <1>1 DEF HandsInv, Sees, HandsOffNext, HandsOffStep
<1> QED BY <1>1, <1>3, <1>4, <1>5, <1>6 DEF HandsInv

LEMMA PersonHands ==
  ASSUME LimitInv, HandsInv, PersonMoves
  PROVE  HandsInv' /\ HandsOffNext
<1>1. /\ moves' = moves + 1 /\ moves \in Nat
      /\ UNCHANGED <<plan, pc, copy, wave, step, result>>
  BY DEF PersonMoves, HandsInv
<1>2. PICK t \in Node, s \in Status : board' = Written(board, t, s) /\ touched' = touched \cup {t}
  BY DEF PersonMoves
<1>3. Put(board, board', t, s)
  BY <1>2, WrittenPut DEF LimitInv, RowTypes
<1>4. Sees'
  BY <1>1, <1>2, <1>3 DEF HandsInv, Sees, Put
<1>5. Standing' /\ Open'
  BY <1>1 DEF HandsInv, Standing, Stands, Open, D
<1>6. HandsOffNext
  BY <1>1 DEF HandsOffNext
<1> QED BY <1>1, <1>4, <1>5, <1>6 DEF HandsInv

LEMMA HandsInit == Init => HandsInv
<1> SUFFICES ASSUME Init PROVE HandsInv
  OBVIOUS
<1>1. /\ pc = "off" /\ wave = {} /\ moves = 0
      /\ step = [t \in Node |-> "begin"] /\ result = [t \in Node |-> "none"]
  BY DEF Init
<1>2. Standing
  BY <1>1 DEF Standing, Stands, Results, Busy
<1> QED BY <1>1, <1>2 DEF HandsInv, Sees, Open

LEMMA HandsNext ==
  ASSUME LimitInv, HandsInv, [Next]_vars
  PROVE  HandsInv' /\ (HandsOffNext \/ UNCHANGED vars)
<1>0. RowTypes
  BY DEF LimitInv
<1>1. CASE StartRun \/ Interrupt \/ GateGoesOn \/ GateFails \/ UNCHANGED vars
  <2>1. /\ UNCHANGED <<plan, board, copy, wave, step, result, touched>>
        /\ pc' = pc \/ pc' # "on"
        /\ moves' = moves
    BY <1>1 DEF StartRun, Interrupt, GateGoesOn, GateFails
  <2> QED BY <1>0, <2>1, CalmStep
<1>2. CASE LoadBoard \/ Die
  <2>1. UNCHANGED <<plan, moves, board>> /\ Context(board)
    BY <1>2 DEF LoadBoard, Die
  <2>2. Context(board') /\ Kept(board, board')
    BY <2>1 DEF Context, Kept
  <2> QED BY <1>0, <2>1, <2>2, AnewStep
<1>3. CASE Leave
  <2>1. UNCHANGED <<plan, moves>> /\ Context(board')
    BY <1>3 DEF Leave
  <2>2. Kept(board, board')
    <3>1. board' = [t \in Node |-> IF t = stop.node THEN [board[t] EXCEPT !.card = TRUE]
                                   ELSE board[t]]
      BY <1>3 DEF Leave
    <3>2. \A t \in Node : [board[t] EXCEPT !.card = TRUE].status = board[t].status
      BY <1>0 DEF RowTypes, Row
    <3> QED BY <3>1, <3>2 DEF Kept
  <2> QED BY <1>0, <2>1, <2>2, AnewStep
<1>4. ASSUME NEW t \in Node, NodeStep(t) PROVE HandsInv' /\ HandsOffNext
  BY <1>4, NodeHands, CloseHands, ApplyHands DEF NodeStep
<1> QED BY <1>1, <1>2, <1>3, <1>4, RoundHands, ExpireHands, PersonHands DEF Next, RunStep

\* For any change and any number of runs: a run knows the status of what nobody else has
\* moved, closes nothing that a person has to close, and takes a task out of a person's
\* hands only where the rules of a change say so, or while it works on the task itself
\* (run.mjs, which never reads the board again).
THEOREM RunHandsOff == Spec => HandsOff
<1>1. Init => LimitInv /\ HandsInv
  BY LimitInit, HandsInit
<1>2. LimitInv /\ HandsInv /\ [Next]_vars => LimitInv' /\ HandsInv'
  BY LimitStep, HandsNext
<1>3. LimitInv /\ HandsInv /\ [Next]_vars =>
        [pc = "on" /\ moves' = moves =>
           \A t \in Node :
             /\ t \notin touched => board'[t].status = copy'[t].status
             /\ board[t].status # "done" /\ board'[t].status = "done" =>
                  D(t).kind \in {"auto", "empty"} /\ Closed(board, t)
             /\ board[t].status \in {"review", "done"} /\ board'[t].status # board[t].status =>
                  \/ t \in touched \cap wave \/ D(t).kind = "empty" \/ t \in expired'
                  \/ \E s \in wave : result[s] = "issue" /\ D(s).on_issue = t
        ]_vars
  BY HandsNext DEF HandsOffNext, HandsOffStep
<1> QED BY <1>1, <1>2, <1>3, PTL DEF Spec, HandsOff

(***************************************************************************)
(* What a slip costs.                                                      *)
(***************************************************************************)
\* The results that leave the node where its step has put it.
Settled == {"gate", "done", "gate-skipped"}

\* The step of t runs, or its result will move it.
Held(t) == t \in wave /\ step[t] # "begin" /\ ~(step[t] = "ended" /\ result[t] \in Settled)

\* The board will not see the next attempt of t begin.
Loose(t) == \/ board[t].status = "in_progress" /\ copy[t].status # "in_progress"
            \/ copy[t].status = "in_progress" /\ ~Held(t)

Trouble == moves + faults
Owed(t) == slips[t] + (IF Loose(t) THEN 1 ELSE 0)

\* Every slip, those to come included, was paid for by a trouble of its own.
SlipInv ==
  /\ faults \in Nat
  /\ pc # "on" => wave = {}
  /\ \A t \in Node : Owed(t) <= Trouble

\* A step that makes nothing loose but by a trouble.
LEMMA SlipStep ==
  ASSUME LimitInv, HandsInv, SlipInv, slips' = slips, moves' = moves,
         faults' = faults \/ faults' = faults + 1, pc' # "on" => wave' = {},
         \/ KeptBoth(board', copy')
         \/ \E u \in Node, s \in Status \ {"in_progress"} : PutBoth(u, s, board', copy'),
         \A t \in Node : Held(t) =>
           Held(t)' \/ copy'[t].status # "in_progress" \/ faults' = faults + 1
  PROVE  SlipInv'
<1>1. ASSUME NEW t \in Node PROVE Loose(t)' => Loose(t) \/ faults' = faults + 1
  <2>1. CASE KeptBoth(board', copy')
    BY <2>1 DEF KeptBoth, Kept, Loose
  <2>2. ASSUME NEW u \in Node, NEW s \in Status \ {"in_progress"}, PutBoth(u, s, board', copy')
        PROVE  Loose(t)' => Loose(t) \/ faults' = faults + 1
    BY <2>2 DEF PutBoth, Put, Loose
  <2> QED BY <2>1, <2>2
<1>2. moves \in Nat /\ faults \in Nat /\ slips \in [Node -> Nat]
  BY DEF HandsInv, SlipInv, LimitInv, RowTypes
<1>3. ASSUME NEW t \in Node PROVE Owed(t)' <= Trouble'
  <2>1. Owed(t) <= Trouble /\ slips[t] \in Nat
    BY <1>2 DEF SlipInv
  <2> QED BY <1>1, <1>2, <2>1 DEF Owed, Trouble
<1> QED BY <1>2, <1>3 DEF SlipInv

\* A step that is a trouble.
LEMMA TroubleStep ==
  ASSUME LimitInv, HandsInv, SlipInv, slips' = slips,
         \/ moves' = moves + 1 /\ faults' = faults
         \/ moves' = moves /\ faults' = faults + 1,
         pc' # "on" => wave' = {}
  PROVE  SlipInv'
<1>1. moves \in Nat /\ faults \in Nat /\ slips \in [Node -> Nat]
  BY DEF HandsInv, SlipInv, LimitInv, RowTypes
<1>2. ASSUME NEW t \in Node PROVE Owed(t)' <= Trouble'
  <2>1. Owed(t) <= Trouble /\ slips[t] \in Nat
    BY <1>1 DEF SlipInv
  <2> QED BY <1>1, <2>1 DEF Owed, Trouble
<1> QED BY <1>1, <1>2 DEF SlipInv

\* What may come of a move, and what it costs.
LEMMA MovesCost ==
  ASSUME board \in [Node -> Row], copy \in [Node -> Row],
         NEW t \in Node, NEW s \in Status, NEW m \in Moves(t, s)
  PROVE  /\ m.faults = faults \/ m.faults = faults + 1
         /\ KeptBoth(m.board, m.copy) \/ PutBoth(t, s, m.board, m.copy)
         /\ \/ m.copy[t].status = s
            \/ m.faults = faults + 1
            \/ ~m.ok /\ s = "done"
<1> DEFINE b == Written(board, t, s)
           c == [copy EXCEPT ![t].status = s]
<1>1. c[t].status = s
  BY CopyPut DEF Put
<1> HIDE DEF b, c
<1>2. \/ m = Answer(TRUE, board, copy, faults) /\ copy[t].status = s
      \/ m = Answer(FALSE, board, copy, faults) /\ s = "done"
      \/ m = Answer(TRUE, b, c, faults)
      \/ m = Answer(FALSE, board, copy, faults + 1)
  BY DEF Moves, b, c
<1>3. /\ m.faults = faults \/ m.faults = faults + 1
      /\ \/ m.copy[t].status = s
         \/ m.faults = faults + 1
         \/ ~m.ok /\ s = "done"
  BY <1>1, <1>2 DEF Answer
<1> QED BY <1>3, MovesPut

\* The same of a move that is all there is to a step.
LEMMA MoveOnCost ==
  ASSUME LimitInv, NEW t \in Node, NEW s \in Status \ {"in_progress", "done"}, MoveOn(t, s)
  PROVE  /\ faults' = faults \/ faults' = faults + 1
         /\ \/ KeptBoth(board', copy')
            \/ \E u \in Node, r \in Status \ {"in_progress"} : PutBoth(u, r, board', copy')
         /\ copy'[t].status # "in_progress" \/ faults' = faults + 1
<1> PICK m \in Moves(t, s) : board' = m.board /\ copy' = m.copy /\ faults' = m.faults
  BY DEF MoveOn
<1> QED BY MovesCost DEF LimitInv, RowTypes

\* The end of the step of a node of the wave.
LEMMA SlipEnd ==
  ASSUME LimitInv, HandsInv, SlipInv, NEW t \in wave, pc = "on", step[t] \in Busy,
         UNCHANGED <<pc, moves, slips, wave>>, faults' = faults \/ faults' = faults + 1,
         NEW b \in [Node -> Row], NEW c \in [Node -> Row], NEW tail \in BOOLEAN,
         NEW kind, End(t, kind, b, c, tail),
         KeptBoth(b, c) \/ \E s \in Status \ {"in_progress"} : PutBoth(t, s, b, c),
         c[t].status # "in_progress" \/ faults' = faults + 1 \/ kind \notin Settled
  PROVE  SlipInv'
<1>1. t \in Node /\ att[t] \in Nat /\ RowTypes /\ result \in [Node -> Results]
  BY DEF HandsInv, LimitInv, Known, RowTypes, Standing
<1>2. Kept(b, board') /\ Kept(c, copy')
  BY <1>1, EndKept
<1>3. /\ step' = [step EXCEPT ![t] = "ended"] /\ result' = [result EXCEPT ![t] = kind]
  BY DEF End
<1>4. ASSUME NEW u \in Node, Held(u)
      PROVE  Held(u)' \/ copy'[u].status # "in_progress" \/ faults' = faults + 1
  <2>1. CASE u = t
    <3>1. step'[t] = "ended" /\ result'[t] = kind /\ copy'[t].status = c[t].status
      BY <1>1, <1>2, <1>3 DEF RowTypes, Kept
    <3> QED BY <2>1, <3>1 DEF Held
  <2>2. CASE u # t
    <3>1. step'[u] = step[u] /\ result'[u] = result[u]
      BY <1>1, <1>3, <2>2 DEF RowTypes
    <3> QED BY <1>4, <3>1 DEF Held
  <2> QED BY <2>1, <2>2
<1>5. \/ KeptBoth(board', copy')
      \/ \E u \in Node, s \in Status \ {"in_progress"} : PutBoth(u, s, board', copy')
  BY <1>1, <1>2 DEF KeptBoth, PutBoth, Kept, Put
<1> QED BY <1>4, <1>5, SlipStep

LEMMA SlipEndHere ==
  ASSUME LimitInv, HandsInv, SlipInv, NEW t \in wave, pc = "on", step[t] \in Busy,
         UNCHANGED <<pc, moves, slips, wave>>, NEW tail \in BOOLEAN,
         NEW kind, kind \notin Settled, EndHere(t, kind, tail)
  PROVE  SlipInv'
<1>1. PICK b, c : b = board /\ c = copy
  OBVIOUS
<1>2. /\ b \in [Node -> Row] /\ c \in [Node -> Row] /\ KeptBoth(b, c)
      /\ End(t, kind, b, c, tail) /\ faults' = faults
  BY <1>1 DEF LimitInv, RowTypes, KeptBoth, Kept, EndHere
<1> QED BY <1>2, SlipEnd

\* The step of a node goes on to p.
LEMMA SlipOn ==
  ASSUME LimitInv, HandsInv, SlipInv, NEW t \in wave, pc = "on",
         UNCHANGED <<pc, moves, faults, slips, wave, board, copy, result>>,
         NEW p \in Busy, Phase(t, p)
  PROVE  SlipInv'
<1>1. \A u \in Node : Held(u) => Held(u)'
  BY DEF Held, Phase, Busy, LimitInv, RowTypes
<1>2. KeptBoth(board', copy')
  BY DEF KeptBoth, Kept
<1> QED BY <1>1, <1>2, SlipStep

LEMMA NodeSlips ==
  ASSUME LimitInv, HandsInv, SlipInv, NEW t \in Node,
         \/ Work(t) \/ RedRefused(t) \/ RedBegins(t) \/ RedEnds(t)
         \/ Check(t) \/ CheckRepeats(t)
  PROVE  SlipInv'
<1>1. t \in wave /\ pc = "on" /\ step[t] \in Busy /\ UNCHANGED <<pc, moves, slips, wave>>
  BY DEF Work, RedRefused, RedBegins, RedEnds, Check, CheckRepeats, In, Busy
<1>2. ASSUME NEW kind, kind \notin Settled, NEW tail \in BOOLEAN, EndHere(t, kind, tail)
      PROVE  SlipInv'
  BY <1>1, <1>2, SlipEndHere
<1>3. ASSUME NEW p \in Busy, Phase(t, p), UNCHANGED <<board, copy, faults, result>>
      PROVE  SlipInv'
  BY <1>1, <1>3, SlipOn
<1>4. CASE Work(t)
  <2>1. \/ \E kind : kind \notin Settled /\ EndHere(t, kind, FALSE)
        \/ \E p \in Busy : Phase(t, p) /\ UNCHANGED <<board, copy, faults, result>>
    <3>1. CASE interrupted
      BY <1>4, <3>1 DEF Work, Settled
    <3>2. CASE ~interrupted
      <4>1. PICK p : p = IF D(t).kind = "gate" THEN "gate" ELSE IF D(t).red THEN "red" ELSE "check"
        OBVIOUS
      <4>2. p \in Busy
        BY <4>1 DEF Busy
      <4>3. \/ \E kind \in {"issue", "convergence", "mechanics"} : EndHere(t, kind, FALSE)
            \/ Phase(t, p) /\ UNCHANGED <<board, copy, faults, result>>
        BY <1>4, <3>2, <4>1 DEF Work
      <4> QED BY <4>2, <4>3 DEF Settled
    <3> QED BY <3>1, <3>2
  <2> QED BY <1>2, <1>3, <2>1
<1>5. CASE RedRefused(t)
  BY <1>2, <1>5 DEF RedRefused, Settled
<1>6. CASE RedBegins(t)
  BY <1>3, <1>6 DEF RedBegins, Busy
<1>7. CASE RedEnds(t)
  BY <1>2, <1>3, <1>7 DEF RedEnds, Busy, Settled
<1>8. CASE Check(t)
  <2>1. \/ \E kind : kind \notin Settled /\ \E tail \in BOOLEAN : EndHere(t, kind, tail)
        \/ Phase(t, "close") /\ UNCHANGED <<board, copy, faults, result>>
    BY <1>8 DEF Check, Settled
  <2> QED BY <1>2, <1>3, <2>1 DEF Busy
<1>9. CASE CheckRepeats(t)
  BY <1>2, <1>9 DEF CheckRepeats, Settled
<1> QED BY <1>4, <1>5, <1>6, <1>7, <1>8, <1>9

\* An attempt that the board does not see: it was refused, or the node was loose.
LEMMA BeginSlips ==
  ASSUME LimitInv, HandsInv, SlipInv, NEW t \in Node, Begin(t)
  PROVE  SlipInv'
<1>1. /\ t \in wave /\ pc = "on" /\ step[t] = "begin"
      /\ UNCHANGED <<pc, moves, wave, result>>
      /\ Phase(t, IF D(t).kind = "hand" THEN "gate" ELSE "work")
  BY DEF Begin, In
<1>2. PICK m \in Moves(t, "in_progress") :
        /\ board' = m.board /\ copy' = m.copy /\ faults' = m.faults
        /\ slips' = [slips EXCEPT ![t] = IF board'[t].entered = board[t].entered
                                         THEN @ + 1 ELSE @]
  BY DEF Begin
<1>3. /\ board \in [Node -> Row] /\ copy \in [Node -> Row] /\ slips \in [Node -> Nat]
      /\ moves \in Nat /\ faults \in Nat
  BY DEF LimitInv, RowTypes, HandsInv, SlipInv
<1>4. /\ ~Held(t) /\ Held(t)'
      /\ \A u \in Node : u # t => Held(u)' = Held(u)
  <2>1. step'[t] \in {"gate", "work"} /\ \A u \in Node : u # t => step'[u] = step[u]
    BY <1>1 DEF Phase, LimitInv, RowTypes
  <2> QED BY <1>1, <2>1 DEF Held
<1>5. /\ faults' = faults \/ faults' = faults + 1
      /\ KeptBoth(board', copy') \/ PutBoth(t, "in_progress", board', copy')
      /\ copy'[t].status = "in_progress" \/ faults' = faults + 1
  BY <1>2, <1>3, MovesCost DEF Status
<1>6. PutBoth(t, "in_progress", board', copy') =>
        board[t].status = "in_progress" \/ board'[t].entered # board[t].entered
  <2> SUFFICES ASSUME PutBoth(t, "in_progress", board', copy'), board[t].status # "in_progress"
               PROVE  board'[t].entered # board[t].entered
    OBVIOUS
  <2>1. board'[t].status # board[t].status
    BY DEF PutBoth, Put
  <2>2. board' = Written(board, t, "in_progress")
    BY <1>2, <2>1 DEF Moves, Answer
  <2>3. board[t].entered \in Nat
    BY <1>3 DEF Row
  <2> DEFINE n == board[t].entered + 1
             row == [board[t] EXCEPT !.status = "in_progress", !.entered = n]
  <2>4. board' = [board EXCEPT ![t] = row] /\ n \in Nat
    BY <1>3, <2>2, <2>3 DEF Written, Row
  <2> HIDE DEF n
  <2>5. row \in Row /\ row.entered = n
    BY <1>3, <2>4 DEF Row, Status
  <2>6. board'[t] = row
    BY <1>3, <2>4
  <2> QED BY <2>3, <2>5, <2>6 DEF n
<1>7. ASSUME NEW u \in Node, u # t PROVE Owed(u)' <= Trouble'
  <2>1. slips'[u] = slips[u] /\ Owed(u) <= Trouble /\ slips[u] \in Nat
    BY <1>2, <1>3, <1>7 DEF SlipInv
  <2>2. Loose(u)' = Loose(u)
    BY <1>4, <1>5, <1>7 DEF Loose, KeptBoth, Kept, PutBoth, Put
  <2> QED BY <1>1, <1>3, <1>5, <2>1, <2>2 DEF Owed, Trouble
<1>8. Owed(t)' <= Trouble'
  <2>1. Owed(t) <= Trouble /\ slips[t] \in Nat
    BY <1>3 DEF SlipInv
  <2>2. slips'[t] = IF board'[t].entered = board[t].entered THEN slips[t] + 1 ELSE slips[t]
    BY <1>2, <1>3
  <2>3. CASE PutBoth(t, "in_progress", board', copy')
    <3>1. ~Loose(t)'
      BY <1>4, <2>3 DEF Loose, PutBoth, Put
    <3>2. board[t].status = "in_progress" => Loose(t)
      BY <2>3 DEF Loose, PutBoth
    <3> QED BY <1>1, <1>3, <1>5, <1>6, <2>1, <2>2, <2>3, <3>1, <3>2 DEF Owed, Trouble
  <2>4. CASE KeptBoth(board', copy')
    <3>1. Loose(t)' => Loose(t)
      BY <1>4, <2>4 DEF Loose, KeptBoth, Kept
    <3>2. faults' = faults => Loose(t) /\ ~Loose(t)'
      BY <1>3, <1>4, <1>5, <2>4 DEF Loose, KeptBoth, Kept
    <3> QED BY <1>1, <1>3, <1>5, <2>1, <2>2, <3>1, <3>2 DEF Owed, Trouble
  <2> QED BY <1>5, <2>3, <2>4
<1>9. faults' \in Nat /\ pc' = "on"
  BY <1>1, <1>3, <1>5
<1> QED BY <1>7, <1>8, <1>9 DEF SlipInv

\* The other beginnings, and the ends with a move.
LEMMA CloseSlips ==
  ASSUME LimitInv, HandsInv, SlipInv, NEW t \in Node,
         Skip(t) \/ Exhausted(t) \/ ToPerson(t) \/ Close(t)
  PROVE  SlipInv'
<1>0. board \in [Node -> Row] /\ copy \in [Node -> Row] /\ t \in wave /\ pc = "on"
      /\ UNCHANGED <<pc, moves, slips, wave>>
  BY DEF LimitInv, RowTypes, Skip, Exhausted, ToPerson, Close, In
<1>1. ASSUME step[t] = "begin", Phase(t, "ended"), NEW r, result' = [result EXCEPT ![t] = r],
             faults' = faults \/ faults' = faults + 1,
             KeptBoth(board', copy') \/ PutBoth(t, "done", board', copy')
      PROVE  SlipInv'
  <2>1. \A u \in Node : u # t => step'[u] = step[u] /\ result'[u] = result[u]
    BY <1>1 DEF Phase, LimitInv, RowTypes, HandsInv, Standing
  <2>2. \A u \in Node : Held(u) => Held(u)'
    BY <1>0, <1>1, <2>1 DEF Held
  <2> QED BY <1>0, <1>1, <2>2, SlipStep DEF Status
<1>2. CASE Skip(t)
  <2>1. PICK m \in Moves(t, "done") :
          /\ board' = m.board /\ copy' = m.copy /\ faults' = m.faults
          /\ result' = [result EXCEPT ![t] = IF m.ok THEN "gate-skipped" ELSE "undecided"]
    BY <1>2 DEF Skip
  <2>2. step[t] = "begin" /\ Phase(t, "ended")
    BY <1>2 DEF Skip, In
  <2>3. /\ faults' = faults \/ faults' = faults + 1
        /\ KeptBoth(board', copy') \/ PutBoth(t, "done", board', copy')
    BY <1>0, <2>1, MovesCost DEF Status
  <2> QED BY <1>1, <2>1, <2>2, <2>3
<1>3. CASE Exhausted(t)
  BY <1>1, <1>3 DEF Exhausted, In, KeptBoth, Kept
<1>4. CASE ToPerson(t)
  <2>1. PICK m \in Moves(t, "review") :
          End(t, "gate", m.board, m.copy, FALSE) /\ faults' = m.faults
    BY <1>4 DEF ToPerson
  <2>2. step[t] \in Busy
    BY <1>4 DEF ToPerson, In, Busy
  <2>3. m.board \in [Node -> Row] /\ m.copy \in [Node -> Row]
    BY <1>0, MovesMoved DEF Moved, Same, Status
  <2>4. /\ faults' = faults \/ faults' = faults + 1
        /\ KeptBoth(m.board, m.copy) \/ PutBoth(t, "review", m.board, m.copy)
        /\ m.copy[t].status = "review" \/ faults' = faults + 1
    BY <1>0, <2>1, MovesCost DEF Status
  <2> QED BY <1>0, <2>1, <2>2, <2>3, <2>4, SlipEnd DEF Status
<1>5. CASE Close(t)
  <2>1. PICK m \in Moves(t, "done") :
          /\ End(t, IF m.ok THEN "done" ELSE "undecided", m.board, m.copy, FALSE)
          /\ faults' = m.faults
    BY <1>5 DEF Close
  <2>2. step[t] \in Busy
    BY <1>5 DEF Close, In, Busy
  <2>3. m.board \in [Node -> Row] /\ m.copy \in [Node -> Row]
    BY <1>0, MovesMoved DEF Moved, Same, Status
  <2>4. PICK kind : kind = IF m.ok THEN "done" ELSE "undecided"
    OBVIOUS
  <2>5. /\ faults' = faults \/ faults' = faults + 1
        /\ KeptBoth(m.board, m.copy) \/ PutBoth(t, "done", m.board, m.copy)
        /\ m.copy[t].status = "done" \/ faults' = faults + 1 \/ ~m.ok
    BY <1>0, <2>1, MovesCost DEF Status
  <2>6. m.copy[t].status # "in_progress" \/ faults' = faults + 1 \/ kind \notin Settled
    BY <2>4, <2>5 DEF Settled
  <2>7. End(t, kind, m.board, m.copy, FALSE)
    BY <2>1, <2>4
  <2> QED BY <1>0, <2>2, <2>3, <2>5, <2>6, <2>7, SlipEnd DEF Status
<1> QED BY <1>2, <1>3, <1>4, <1>5

\* The results: a node that its step has not settled is moved.
LEMMA ApplySlips ==
  ASSUME LimitInv, HandsInv, SlipInv, NEW t \in Node,
         \/ ApplyGate(t) \/ ApplyPark(t) \/ ApplyDone(t) \/ ApplyIssueStop(t)
         \/ ApplyIssue(t) \/ Requeue(t)
  PROVE  SlipInv'
<1>1. /\ UNCHANGED <<pc, moves, slips>> /\ result' = result /\ Applying(t)
  <2>1. CASE ApplyGate(t)      BY <2>1 DEF ApplyGate, Applied
  <2>2. CASE ApplyPark(t)      BY <2>2 DEF ApplyPark, Applied
  <2>3. CASE ApplyDone(t)      BY <2>3 DEF ApplyDone, Applied
  <2>4. CASE ApplyIssueStop(t) BY <2>4 DEF ApplyIssueStop, Applied
  <2>5. CASE ApplyIssue(t)     BY <2>5 DEF ApplyIssue, Applied
  <2>6. CASE Requeue(t)        BY <2>6 DEF Requeue, Applied
  <2> QED BY <2>1, <2>2, <2>3, <2>4, <2>5, <2>6
<1>2. pc' = "on" /\ t \in wave /\ step[t] \in {"ended", "requeue"}
  <2>1. wave \in SUBSET Nat /\ wave # {}
    BY <1>1, RunnerAssumption DEF HandsInv, Applying
  <2> QED BY <1>1, <2>1, LeastMember DEF Applying
<1>3. ASSUME step' = step, wave' = wave \ {t}, step[t] = "ended" /\ result[t] \in Settled,
             UNCHANGED <<board, copy, faults>>
      PROVE  SlipInv'
  <2>1. \A u \in Node : Held(u) => Held(u)'
    BY <1>1, <1>3 DEF Held
  <2>2. KeptBoth(board', copy')
    BY <1>3 DEF KeptBoth, Kept
  <2> QED BY <1>1, <1>2, <1>3, <2>1, <2>2, SlipStep
<1>4. ASSUME step' = step, wave' = wave \ {t}, NEW s \in {"review", "queue"}, MoveOn(t, s)
      PROVE  SlipInv'
  <2>1. /\ faults' = faults \/ faults' = faults + 1
        /\ \/ KeptBoth(board', copy')
           \/ \E u \in Node, r \in Status \ {"in_progress"} : PutBoth(u, r, board', copy')
        /\ copy'[t].status # "in_progress" \/ faults' = faults + 1
    BY <1>4, MoveOnCost DEF Status
  <2>2. \A u \in Node : u # t /\ Held(u) => Held(u)'
    BY <1>1, <1>4 DEF Held
  <2>3. \A u \in Node : Held(u) =>
          Held(u)' \/ copy'[u].status # "in_progress" \/ faults' = faults + 1
    BY <2>1, <2>2
  <2> QED BY <1>1, <1>2, <2>1, <2>3, SlipStep
<1>5. CASE ApplyGate(t)
  <2>1. step[t] = "ended"
    BY <1>2, <1>5 DEF ApplyGate, HandsInv, Standing, Stands
  <2> QED BY <1>3, <1>5, <2>1 DEF ApplyGate, Applied, Settled
<1>6. CASE ApplyPark(t)
  BY <1>4, <1>6 DEF ApplyPark, Applied
<1>7. CASE ApplyDone(t)
  <2>1. step[t] = "ended"
    BY <1>2, <1>7 DEF ApplyDone, HandsInv, Standing, Stands
  <2> QED BY <1>3, <1>7, <2>1 DEF ApplyDone, Applied, Settled
<1>8. CASE ApplyIssueStop(t)
  BY <1>4, <1>8 DEF ApplyIssueStop, Applied
<1>9. CASE Requeue(t)
  BY <1>4, <1>9 DEF Requeue, Applied
<1>10. CASE ApplyIssue(t)
  <2>1. CASE D(t).on_issue = None
    BY <1>4, <1>10, <2>1 DEF ApplyIssue, Applied
  <2>2. CASE D(t).on_issue # None
    <3>1. MoveOn(D(t).on_issue, "queue") /\ Phase(t, "requeue") /\ wave' = wave
      BY <1>10, <2>2 DEF ApplyIssue
    <3>2. D(t).on_issue \in Node
      BY <2>2, RunnerAssumption DEF LimitInv, RowTypes, D, Change, Declared
    <3>3. /\ faults' = faults \/ faults' = faults + 1
          /\ \/ KeptBoth(board', copy')
             \/ \E u \in Node, r \in Status \ {"in_progress"} : PutBoth(u, r, board', copy')
      BY <3>1, <3>2, MoveOnCost DEF Status
    <3>4. step'[t] = "requeue" /\ \A u \in Node : u # t => step'[u] = step[u]
      BY <3>1 DEF Phase, LimitInv, RowTypes
    <3>5. \A u \in Node : Held(u) => Held(u)'
      BY <1>1, <3>1, <3>4 DEF Held
    <3> QED BY <1>1, <1>2, <3>3, <3>5, SlipStep
  <2> QED BY <2>1, <2>2
<1> QED BY <1>5, <1>6, <1>7, <1>8, <1>9, <1>10

\* The loop, the gate, people, and the runs that begin, end and die.
LEMMA LoopSlips ==
  ASSUME LimitInv, HandsInv, SlipInv,
         \/ StartRun \/ Interrupt \/ GateGoesOn \/ GateFails \/ Round \/ UNCHANGED vars
         \/ LoadBoard \/ Leave \/ Die \/ PersonMoves \/ \E t \in Node : Expire(t)
  PROVE  SlipInv'
<1>1. CASE StartRun \/ Interrupt \/ GateGoesOn \/ GateFails \/ UNCHANGED vars
  <2>1. /\ UNCHANGED <<board, copy, wave, step, result, slips, moves>>
        /\ faults' = faults \/ faults' = faults + 1
        /\ pc' = pc \/ (pc = "off" /\ wave' = wave)
    BY <1>1 DEF StartRun, Interrupt, GateGoesOn, GateFails
  <2>2. KeptBoth(board', copy') /\ \A u \in Node : Held(u) => Held(u)'
    BY <2>1 DEF KeptBoth, Kept, Held
  <2>3. pc' # "on" => wave' = {}
    BY <2>1 DEF SlipInv
  <2> QED BY <2>1, <2>2, <2>3, SlipStep
<1>2. CASE Round
  <2>1. UNCHANGED <<pc, board, copy, slips, moves, faults>> /\ pc = "on" /\ wave = {}
    BY <1>2 DEF Round, AtHead
  <2>2. KeptBoth(board', copy') /\ \A u \in Node : ~Held(u)
    BY <2>1 DEF KeptBoth, Kept, Held
  <2> QED BY <2>1, <2>2, SlipStep
<1>3. ASSUME NEW t \in Node, Expire(t) PROVE SlipInv'
  <2>1. /\ UNCHANGED <<pc, slips, moves, wave>> /\ pc = "on" /\ wave = {}
        /\ MoveOn(t, "backlog")
    BY <1>3 DEF Expire, AtHead, MoveOn
  <2>2. \A u \in Node : ~Held(u)
    BY <2>1 DEF Held
  <2>3. /\ faults' = faults \/ faults' = faults + 1
        /\ \/ KeptBoth(board', copy')
           \/ \E u \in Node, r \in Status \ {"in_progress"} : PutBoth(u, r, board', copy')
    BY <2>1, MoveOnCost DEF Status
  <2> QED BY <2>1, <2>2, <2>3, SlipStep
<1>4. CASE LoadBoard \/ Leave
  <2>1. /\ UNCHANGED <<slips, moves, faults>> /\ wave = {}
        /\ copy' = board' /\ wave' = {}
    BY <1>4 DEF LoadBoard, Leave, Context, SlipInv
  <2>2. \A u \in Node : board'[u].status = board[u].status
    <3>1. \A u \in Node : [board[u] EXCEPT !.card = TRUE].status = board[u].status
      BY DEF LimitInv, RowTypes, Row
    <3> QED BY <1>4, <3>1 DEF LoadBoard, Leave
  <2>3. \A u \in Node : Loose(u)' => Loose(u)
    BY <2>1, <2>2 DEF Loose, Held
  <2>4. moves \in Nat /\ faults \in Nat /\ slips \in [Node -> Nat]
    BY DEF HandsInv, SlipInv, LimitInv, RowTypes
  <2>5. ASSUME NEW u \in Node PROVE Owed(u)' <= Trouble'
    <3>1. Owed(u) <= Trouble /\ slips[u] \in Nat
      BY <2>4 DEF SlipInv
    <3> QED BY <2>1, <2>3, <2>4, <3>1 DEF Owed, Trouble
  <2> QED BY <2>1, <2>4, <2>5 DEF SlipInv
<1>5. CASE Die
  BY <1>5, TroubleStep DEF Die, Context
<1>6. CASE PersonMoves
  BY <1>6, TroubleStep DEF PersonMoves, SlipInv
<1> QED BY <1>1, <1>2, <1>3, <1>4, <1>5, <1>6

LEMMA SlipNext == LimitInv /\ HandsInv /\ SlipInv /\ [Next]_vars => SlipInv'
<1> SUFFICES ASSUME LimitInv, HandsInv, SlipInv, [Next]_vars PROVE SlipInv'
  OBVIOUS
<1>1. ASSUME NEW t \in Node, NodeStep(t) PROVE SlipInv'
  BY <1>1, BeginSlips, NodeSlips, CloseSlips, ApplySlips DEF NodeStep
<1> QED BY <1>1, LoopSlips DEF Next, RunStep

\* For any change, over any number of runs, refusals, crashes and moves by people, a node
\* is tried no more often than its limit allows and once more for each such trouble
\* (run.mjs, runOne and attemptsSoFar); without trouble, never more often.
THEOREM AttemptsLimited == Spec => []AttemptLimit
<1>1. Init => LimitInv /\ HandsInv /\ SlipInv
  <2> SUFFICES ASSUME Init PROVE SlipInv
    BY LimitInit, HandsInit
  <2>1. /\ faults = 0 /\ moves = 0 /\ wave = {} /\ slips = [t \in Node |-> 0]
        /\ board = [t \in Node |-> NewRow] /\ copy = board /\ NewRow.status = "queue"
    BY DEF Init, NewRow
  <2> QED BY <2>1 DEF SlipInv, Owed, Trouble, Loose
<1>2. LimitInv /\ HandsInv /\ SlipInv /\ [Next]_vars => LimitInv' /\ HandsInv' /\ SlipInv'
  BY LimitStep, HandsNext, SlipNext
<1>3. LimitInv /\ HandsInv /\ SlipInv => AttemptLimit
  <2> SUFFICES ASSUME LimitInv, HandsInv, SlipInv, NEW t \in Node, D(t).limit # None
               PROVE  tries[t] - refunds[t] <= D(t).limit + moves + faults
    BY DEF AttemptLimit
  <2>1. /\ tries[t] \in Nat /\ refunds[t] \in Nat /\ slips[t] \in Nat
        /\ moves \in Nat /\ faults \in Nat
    BY DEF LimitInv, RowTypes, HandsInv, SlipInv
  <2>2. D(t).limit \in Nat
    BY RunnerAssumption DEF LimitInv, RowTypes, D, Change, Declared, Limit
  <2>3. slips[t] <= moves + faults
    <3>1. Owed(t) <= Trouble
      BY DEF SlipInv
    <3> QED BY <2>1, <3>1 DEF Owed, Trouble
  <2>4. tries[t] - refunds[t] - slips[t] <= D(t).limit
    BY DEF LimitInv, SeenLimit
  <2> QED BY <2>1, <2>2, <2>3, <2>4
<1> QED BY <1>1, <1>2, <1>3, PTL DEF Spec

(***************************************************************************)
(* Waves.                                                                  *)
(***************************************************************************)
\* A finite set of numbers has a member with none above it.
LEMMA LastMember ==
  ASSUME NEW W \in SUBSET Nat, IsFiniteSet(W), W # {}
  PROVE  \E t \in W : \A s \in W : s <= t
<1> DEFINE Above(t) == {s \in W : t < s}
           Counts == {Cardinality(Above(t)) : t \in W}
<1>1. \A t \in W : IsFiniteSet(Above(t)) /\ Cardinality(Above(t)) \in Nat
  BY FS_Subset, FS_CardinalityType
<1>2. Counts \in SUBSET Nat /\ Counts # {}
  BY <1>1
<1>3. PICK t \in W : \A s \in W : Cardinality(Above(t)) <= Cardinality(Above(s))
  <2>1. Min(Counts) \in Counts /\ \A n \in Counts : Min(Counts) <= n
    BY <1>2, LeastMember
  <2> QED BY <2>1
<1>4. ASSUME NEW s \in W, ~(s <= t) PROVE FALSE
  <2>0. s \in Nat /\ t \in Nat /\ t < s
    BY <1>4
  <2>1. s \in Above(t) /\ s \notin Above(s) /\ Above(s) \subseteq Above(t)
    <3>1. \A r \in W : s < r => t < r
      BY <2>0
    <3>2. ~(s < s)
      BY <2>0
    <3> QED BY <2>0, <3>1, <3>2
  <2>2. /\ Cardinality(Above(s)) <= Cardinality(Above(t))
        /\ Cardinality(Above(t)) = Cardinality(Above(s)) => Above(t) = Above(s)
    BY <1>1, <2>1, FS_Subset
  <2>3. /\ Cardinality(Above(t)) <= Cardinality(Above(s))
        /\ Cardinality(Above(t)) \in Nat /\ Cardinality(Above(s)) \in Nat
    BY <1>1, <1>3
  <2> HIDE DEF Above
  <2> QED BY <2>1, <2>2, <2>3
<1> QED BY <1>4

\* A wave is within the parallel limit, and no two of it write the same file or have a red
\* gate: what lets its steps run at once.
Together(W) ==
  /\ IsFiniteSet(W) /\ Cardinality(W) <= plan.parallel
  /\ \A s, t \in W : s # t => D(s).produces \cap D(t).produces = {} /\ ~D(s).red

LEMMA WaveTogether ==
  ASSUME RowTypes, NEW S \in SUBSET Node, S # {}, NEW W \in BuildWave(S)
  PROVE  Together(W)
<1>1. plan.parallel \in Nat \ {0} /\ Node \subseteq Nat /\ IsFiniteSet(Node)
  BY RunnerAssumption DEF RowTypes, Change
<1>2. CASE W = {Min(S)}
  <2>1. IsFiniteSet(W) /\ Cardinality(W) = 1
    BY <1>2, FS_Singleton
  <2> QED BY <1>1, <1>2, <2>1 DEF Together
<1>3. CASE W \in SUBSET S /\ IsWave(S, W)
  <2>1. IsFiniteSet(W) /\ W \in SUBSET Nat
    BY <1>1, <1>3, FS_Subset
  <2>2. \A s, t \in W : s # t => D(s).produces \cap D(t).produces = {} /\ ~D(s).red
    <3>1. ASSUME NEW s \in W, NEW t \in W, s < t
          PROVE  D(s).produces \cap D(t).produces = {} /\ ~D(s).red /\ ~D(t).red
      <4>1. \A r \in S : r <= t => ~D(r).red
        BY <1>3, <3>1 DEF IsWave
      <4>2. D(s).produces \cap D(t).produces = {}
        BY <1>3, <3>1 DEF IsWave
      <4>3. s \in S /\ t \in S /\ s <= t /\ t <= t
        BY <1>3, <2>1, <3>1
      <4> QED BY <4>1, <4>2, <4>3
    <3>2. \A s, t \in W : s # t => s < t \/ t < s
      BY <2>1
    <3> QED BY <3>1, <3>2
  <2>3. Cardinality(W) <= plan.parallel
    <3>1. CASE W = {}
      BY <1>1, <3>1, FS_EmptySet
    <3>2. CASE W # {}
      <4>1. PICK t \in W : \A s \in W : s <= t
        BY <2>1, <3>2, LastMember
      <4>2. Cardinality({s \in W : s < t}) < plan.parallel
        BY <1>3, <4>1 DEF IsWave
      <4>3. W \ {t} = {s \in W : s < t}
        <5>1. \A s \in W : s # t <=> s < t
          BY <2>1, <4>1
        <5> QED BY <5>1
      <4>4. Cardinality(W \ {t}) = Cardinality(W) - 1 /\ Cardinality(W) \in Nat
        BY <2>1, <4>1, FS_RemoveElement, FS_CardinalityType
      <4> QED BY <1>1, <4>2, <4>3, <4>4
    <3> QED BY <3>1, <3>2
  <2> QED BY <2>1, <2>2, <2>3 DEF Together
<1> QED BY <1>2, <1>3 DEF BuildWave

\* There is one at most: IsWave says what the loop of buildWave computes, not less.
LEMMA WaveUnique ==
  ASSUME NEW S \in SUBSET Node, NEW V \in SUBSET S, NEW W \in SUBSET S,
         IsWave(S, V), IsWave(S, W)
  PROVE  V = W
<1> DEFINE X == (V \ W) \cup (W \ V)
<1>1. S \subseteq Nat /\ X \in SUBSET Nat
  BY RunnerAssumption
<1> SUFFICES ASSUME X # {} PROVE FALSE
  OBVIOUS
<1>2. PICK t \in X : \A s \in X : t <= s
  BY <1>1, LeastMember
<1>3. \A s \in S : s < t => (s \in V <=> s \in W)
  BY <1>1, <1>2
<1>4. {s \in V : s < t} = {s \in W : s < t}
  BY <1>3
<1>5. t \in S /\ (\A s \in V : s < t => D(s).produces \cap D(t).produces = {})
        <=> t \in S /\ (\A s \in W : s < t => D(s).produces \cap D(t).produces = {})
  BY <1>3
<1>6. t \in V <=> t \in W
  BY <1>2, <1>4, <1>5 DEF IsWave
<1> QED BY <1>2, <1>6

(***************************************************************************)
(* Types.                                                                  *)
(***************************************************************************)
StopType == [kind : Stops, node : Node \cup {None}]

\* What TypeOK says of the variables that no invariant above speaks of.  A wave stays what
\* it was when it was taken, but for the nodes whose results were applied.
Kinds ==
  /\ pc \in {"off", "recover", "on"}
  /\ route \in [Node -> {"plain", "due", "high", "used"}]
  /\ gated \subseteq Node /\ expired \subseteq Node /\ pending \in Node \cup {None}
  /\ stop \in StopType
  /\ Together(wave)
  /\ touched \subseteq Node

LEMMA TogetherShrinks ==
  ASSUME RowTypes, Together(wave), plan' = plan, wave' \subseteq wave
  PROVE  Together(wave)'
<1>1. /\ IsFiniteSet(wave') /\ Cardinality(wave') <= Cardinality(wave)
      /\ Cardinality(wave) <= plan.parallel
      /\ Cardinality(wave) \in Nat /\ Cardinality(wave') \in Nat /\ plan.parallel \in Nat
  BY FS_Subset, FS_CardinalityType, RunnerAssumption DEF Together, RowTypes, Change
<1>2. Cardinality(wave') <= plan.parallel
  BY <1>1
<1>3. \A s, t \in wave' : s # t => D(s).produces \cap D(t).produces = {} /\ ~D(s).red
  BY DEF Together
<1> QED BY <1>1, <1>2, <1>3 DEF Together, D

LEMMA StopKinds ==
  ASSUME Kinds, NEW kind \in Stops, NEW node \in Node \cup {None},
         Stop(kind, node) \/ UNCHANGED stop
  PROVE  stop' \in StopType
BY DEF Kinds, StopType, Stop

\* A step of the run that leaves the loop's own state alone.
LEMMA CalmKinds ==
  ASSUME RowTypes, Kinds,
         pc' \in {"off", "recover", "on"},
         UNCHANGED <<plan, route, gated, expired, pending, stop>>,
         wave' \subseteq wave,
         touched' \subseteq Node
  PROVE  Kinds'
BY TogetherShrinks DEF Kinds

LEMMA ContextKinds ==
  ASSUME RowTypes, Kinds, UNCHANGED plan, NEW rows, Context(rows), pc' \in {"off", "on"}
  PROVE  Kinds'
<1>1. /\ route' = [t \in Node |-> "plain"] /\ gated' = {} /\ pending' = None
      /\ expired' \subseteq Node /\ stop' = NoStop /\ wave' = {} /\ touched' = {}
  BY DEF Context
<1>2. NoStop \in StopType
  BY DEF NoStop, StopType, Stops
<1>3. Together(wave)'
  BY <1>1, TogetherShrinks DEF Kinds
<1> QED BY <1>1, <1>2, <1>3 DEF Kinds

LEMMA NodeKinds ==
  ASSUME LimitInv, Kinds, NEW t \in Node,
         \/ Skip(t) \/ Exhausted(t) \/ Begin(t) \/ Work(t) \/ ToPerson(t) \/ RedRefused(t)
         \/ RedBegins(t) \/ RedEnds(t) \/ Check(t) \/ CheckRepeats(t) \/ Close(t)
  PROVE  Kinds'
<1>0. RowTypes
  BY DEF LimitInv
<1>1. UNCHANGED <<plan, pc, gated, expired, pending, stop, wave, touched>>
  <2>1. CASE Skip(t)         BY <2>1 DEF Skip
  <2>2. CASE Exhausted(t)    BY <2>2 DEF Exhausted
  <2>3. CASE Begin(t)        BY <2>3 DEF Begin
  <2>4. CASE Work(t)         BY <2>4 DEF Work
  <2>5. CASE ToPerson(t)     BY <2>5 DEF ToPerson
  <2>6. CASE RedRefused(t)   BY <2>6 DEF RedRefused
  <2>7. CASE RedBegins(t)    BY <2>7 DEF RedBegins
  <2>8. CASE RedEnds(t)      BY <2>8 DEF RedEnds
  <2>9. CASE Check(t)        BY <2>9 DEF Check
  <2>10. CASE CheckRepeats(t) BY <2>10 DEF CheckRepeats
  <2>11. CASE Close(t)       BY <2>11 DEF Close
  <2> QED BY <2>1, <2>2, <2>3, <2>4, <2>5, <2>6, <2>7, <2>8, <2>9, <2>10, <2>11
<1>2. route' = route \/ Begin(t)
  BY DEF Skip, Exhausted, Work, ToPerson, RedRefused, RedBegins, RedEnds, Check,
         CheckRepeats, Close
<1>3. route' \in [Node -> {"plain", "due", "high", "used"}]
  <2>1. CASE route' = route
    BY <2>1 DEF Kinds
  <2>2. CASE Begin(t)
    <3>1. route' = [route EXCEPT ![t] = CASE @ = "due" -> "high" [] @ = "high" -> "used"
                                          [] OTHER -> @]
      BY <2>2 DEF Begin
    <3>2. PICK r : r = CASE route[t] = "due" -> "high" [] route[t] = "high" -> "used"
                         [] OTHER -> route[t]
      OBVIOUS
    <3>3. r \in {"plain", "due", "high", "used"}
      BY <3>2 DEF Kinds
    <3>4. route' = [route EXCEPT ![t] = r]
      BY <3>1, <3>2
    <3> QED BY <3>3, <3>4 DEF Kinds
  <2> QED BY <1>2, <2>1, <2>2
<1>4. Together(wave)'
  BY <1>0, <1>1, TogetherShrinks DEF Kinds
<1> QED BY <1>1, <1>3, <1>4 DEF Kinds

LEMMA ApplyKinds ==
  ASSUME LimitInv, Kinds, NEW t \in Node,
         \/ ApplyGate(t) \/ ApplyPark(t) \/ ApplyDone(t) \/ ApplyIssueStop(t)
         \/ ApplyIssue(t) \/ Requeue(t)
  PROVE  Kinds'
<1>0. RowTypes
  BY DEF LimitInv
<1>1. /\ UNCHANGED <<plan, pc, expired, touched>> /\ wave' \subseteq wave
      /\ gated' \subseteq gated \cup {t} /\ pending' \in {pending, t}
      /\ route' = route \/ route' = [route EXCEPT ![t] = "due"]
      /\ UNCHANGED stop \/ \E kind \in Stops : Stop(kind, t)
  <2>1. CASE ApplyGate(t)
    BY <2>1 DEF ApplyGate, Applied
  <2>2. CASE ApplyPark(t)
    <3>1. ParkKind(result[t]) \in Stops
      BY <2>2 DEF ApplyPark, ParkKind, Stops
    <3> QED BY <2>2, <3>1 DEF ApplyPark, Applied
  <2>3. CASE ApplyDone(t)
    BY <2>3 DEF ApplyDone, Applied, Stops
  <2>4. CASE ApplyIssueStop(t)
    <3>1. \E kind \in {"budget", "convergence", "retry"} : Stop(kind, t)
      BY <2>4 DEF ApplyIssueStop
    <3> QED BY <2>4, <3>1 DEF ApplyIssueStop, Applied, Stops
  <2>5. CASE ApplyIssue(t)
    BY <2>5 DEF ApplyIssue, Applied
  <2>6. CASE Requeue(t)
    BY <2>6 DEF Requeue, Applied
  <2> QED BY <2>1, <2>2, <2>3, <2>4, <2>5, <2>6
<1>2. stop' \in StopType
  BY <1>1, StopKinds DEF Stops
<1>3. Together(wave)'
  BY <1>0, <1>1, TogetherShrinks DEF Kinds
<1>4. route' \in [Node -> {"plain", "due", "high", "used"}]
  BY <1>1 DEF Kinds
<1> QED BY <1>1, <1>2, <1>3, <1>4 DEF Kinds

LEMMA RoundKinds ==
  ASSUME LimitInv, Kinds, Round
  PROVE  Kinds'
<1> DEFINE held == {t \in Frontier : InReview(t)} \ gated
           gate0 == IF pending = None /\ held # {} THEN Min(held) ELSE pending
           runnable == Frontier \ (gated \cup held)
<1>0. RowTypes
  BY DEF LimitInv
<1>1. /\ UNCHANGED <<plan, pc, route, expired, touched>> /\ wave = {}
      /\ gated' \in {gated, gated \cup held} /\ pending' \in {pending, gate0}
      /\ \/ UNCHANGED stop
         \/ \E kind \in {"mechanics", "end", "empty-frontier"} : Stop(kind, None)
         \/ gate0 # None /\ Stop("gate", gate0)
         \/ runnable # {} /\ Stop("budget", Min(runnable))
      /\ wave' = wave \/ (runnable # {} /\ wave' \in BuildWave(runnable))
  BY DEF Round, AtHead
<1>2. held \in SUBSET Node /\ runnable \in SUBSET Node /\ Node \subseteq Nat
  BY RunnerAssumption DEF Frontier
<1> HIDE DEF held, runnable
<1>3. gate0 \in Node \cup {None} /\ (runnable # {} => Min(runnable) \in Node)
  BY <1>2, LeastMember DEF Kinds
<1> HIDE DEF gate0
<1>4. stop' \in StopType
  BY <1>1, <1>3, StopKinds DEF Stops
<1>5. Together(wave)'
  <2>1. CASE wave' = wave
    BY <1>0, <1>1, <2>1, TogetherShrinks DEF Kinds
  <2>2. CASE runnable # {} /\ wave' \in BuildWave(runnable)
    <3>1. PICK W \in BuildWave(runnable) : W = wave'
      BY <2>2
    <3>2. Together(W)
      BY <1>0, <1>2, <2>2, WaveTogether
    <3> QED BY <1>1, <3>1, <3>2 DEF Together, D
  <2> QED BY <1>1, <2>1, <2>2
<1> QED BY <1>1, <1>2, <1>3, <1>4, <1>5 DEF Kinds

LEMMA KindsNext ==
  ASSUME LimitInv, Kinds, [Next]_vars
  PROVE  Kinds'
<1>0. RowTypes
  BY DEF LimitInv
<1>1. CASE StartRun \/ Interrupt \/ PersonMoves \/ GateGoesOn \/ GateFails \/ UNCHANGED vars
  <2>1. /\ UNCHANGED <<plan, route, gated, expired, pending, stop, wave>>
        /\ pc' \in {pc, "recover"} /\ touched' \subseteq touched \cup Node
    BY <1>1 DEF StartRun, Interrupt, PersonMoves, GateGoesOn, GateFails
  <2>2. pc' \in {"off", "recover", "on"} /\ touched' \subseteq Node
    BY <2>1 DEF Kinds
  <2> QED BY <1>0, <2>1, <2>2, CalmKinds
<1>2. CASE LoadBoard \/ Die \/ Leave
  <2>1. PICK rows : Context(rows)
    BY <1>2 DEF LoadBoard, Die, Leave
  <2>2. UNCHANGED plan /\ pc' \in {"off", "on"}
    BY <1>2 DEF LoadBoard, Die, Leave
  <2> QED BY <1>0, <2>1, <2>2, ContextKinds
<1>3. ASSUME NEW t \in Node, Expire(t) PROVE Kinds'
  <2>1. /\ UNCHANGED <<plan, pc, route, stop, wave, touched>>
        /\ expired' = expired \cup {t} /\ gated' = gated \ {t}
        /\ pending' \in {None, pending}
    BY <1>3 DEF Expire
  <2>2. Together(wave)'
    BY <1>0, <2>1, TogetherShrinks DEF Kinds
  <2> QED BY <2>1, <2>2 DEF Kinds
<1>4. ASSUME NEW t \in Node, NodeStep(t) PROVE Kinds'
  BY <1>4, NodeKinds, ApplyKinds DEF NodeStep
<1> QED BY <1>1, <1>2, <1>3, <1>4, RoundKinds DEF Next, RunStep

LEMMA KindsInit == Init => Kinds
<1> SUFFICES ASSUME Init PROVE Kinds
  OBVIOUS
<1>1. /\ pc = "off" /\ route = [t \in Node |-> "plain"]
      /\ gated = {} /\ expired = {} /\ pending = None
      /\ stop = NoStop /\ wave = {} /\ touched = {} /\ plan \in Plans
  BY DEF Init
<1>2. stop \in StopType
  BY <1>1 DEF NoStop, StopType, Stops
<1>3. Together(wave)
  BY <1>1, FS_EmptySet, RunnerAssumption DEF Together, Change
<1> QED BY <1>1, <1>2, <1>3 DEF Kinds

\* The type invariant of the runner.  More than a type is in it: no more steps of a wave
\* than the limit run at once, no two that produce the same file, and none beside a step
\* with a red gate (buildWave), for any change.
THEOREM RunnerTyped == Spec => []TypeOK
<1>1. Init => LimitInv /\ HandsInv /\ Kinds
  BY LimitInit, HandsInit, KindsInit
<1>2. LimitInv /\ HandsInv /\ Kinds /\ [Next]_vars => LimitInv' /\ HandsInv' /\ Kinds'
  BY LimitStep, HandsNext, KindsNext
<1>3. GateTypeOK /\ LimitInv /\ HandsInv /\ Kinds => TypeOK
  <2> SUFFICES ASSUME GateTypeOK, LimitInv, HandsInv, Kinds PROVE TypeOK
    OBVIOUS
  <2>1. RowTypes /\ wave \subseteq Node
    BY DEF LimitInv, HandsInv
  <2>2. stop.kind \in Stops /\ stop.node \in Node \cup {None}
    BY DEF Kinds, StopType
  <2> QED BY <2>1, <2>2 DEF Kinds, RowTypes, Together, TypeOK
<1> QED BY <1>1, <1>2, <1>3, RunnerKeepsGate, GateTyped, PTL DEF Spec
=============================================================================
