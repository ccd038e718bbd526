------------------------------ MODULE Mailbox ------------------------------
(***************************************************************************)
(* The external tasks: a source sends messages to the resolver             *)
(* (resolver/src/routes.rs, store.rs), which keeps them for every device   *)
(* of an account; a device polls and folds what it gets into its mirror    *)
(* (poll_external_once of src-tauri/src/lib.rs, external/external.rs).     *)
(*                                                                         *)
(* One account: accounts share nothing but the store's mutex, under which  *)
(* every request of the resolver is one step.  Devices are enrolled.       *)
(***************************************************************************)
EXTENDS Naturals, Sequences, FiniteSets, SequencesExt

CONSTANTS
  Msg,        \* messages, by their key (source, recipient, id)
  Task,       \* external tasks
  TaskOf,     \* the task of a message, None when its id or payload is malformed
  Ts,         \* the time stamp of a message
  Device,     \* devices of the account
  Poller,     \* what polls: the loop of a device, its refresh button
  DeviceOf,   \* the device of each poller
  MaxFaults,  \* bound: failed saves, lost answers and restarts
  None        \* no message, no file

ASSUME MsgAssumption == /\ TaskOf \in [Msg -> Task \cup {None}]
                        /\ Ts \in [Msg -> Nat]
                        /\ None \notin Msg \cup Task
ASSUME PollerAssumption == DeviceOf \in [Poller -> Device] /\ IsFiniteSet(Poller)
ASSUME FaultAssumption == MaxFaults \in Nat

VARIABLES
  mem,       \* the resolver's store in memory: its mailbox, and who got what
  disk,      \* the same in its file
  sent,      \* sent[m]: "waiting" for an answer, "accepted" (202), or answered
             \* 200: "duplicate", or "unsaved" when only the memory had it
  pc,        \* pc[p]: where poller p is
  batch,     \* batch[p]: the messages p was answered with
  read,      \* read[p]: the mirror p has loaded
  tmp,       \* tmp[d]: external_tasks.tmp of device d, or None
  mirror,    \* mirror[d]: the last event folded into each task, or None
  received,  \* received[d]: the messages that reached device d
  applied,   \* applied[d]: the messages whose fold d has saved
  faults     \* how many faults happened

resolverVars == <<mem, disk, sent>>
deviceVars == <<pc, batch, read, tmp, mirror, received, applied>>
vars == <<mem, disk, sent, pc, batch, read, tmp, mirror, received, applied, faults>>

Mirror == [Task -> Msg \cup {None}]
NoTasks == [k \in Task |-> None]

\* A mailbox in the order of arrival, and the messages each device was given.
Store == [box : Seq(Msg), given : [Device -> SUBSET Msg]]
EmptyStore == [box |-> <<>>, given |-> [d \in Device |-> {}]]

Goto(p, phase) == pc' = [pc EXCEPT ![p] = phase]

Fault == faults < MaxFaults /\ faults' = faults + 1

Init ==
  /\ mem = EmptyStore
  /\ disk = EmptyStore
  /\ sent = [m \in Msg |-> "waiting"]
  /\ pc = [p \in Poller |-> "idle"]
  /\ batch = [p \in Poller |-> <<>>]
  /\ read = [p \in Poller |-> NoTasks]
  /\ tmp = [d \in Device |-> None]
  /\ mirror = [d \in Device |-> NoTasks]
  /\ received = [d \in Device |-> {}]
  /\ applied = [d \in Device |-> {}]
  /\ faults = 0

-----------------------------------------------------------------------------
(* The resolver.                                                           *)

\* Mutant of Ingest: a failed save is answered like a good one.
IngestUnsaved(m) ==
  /\ sent[m] = "waiting" /\ ~Contains(mem.box, m)
  /\ mem' = [mem EXCEPT !.box = Append(@, m)]
  /\ \/ disk' = mem' /\ UNCHANGED faults
     \/ Fault /\ UNCHANGED disk
  /\ sent' = [sent EXCEPT ![m] = "accepted"]
  /\ UNCHANGED deviceVars

\* The source sends a message until it is answered.  A new one is kept in
\* memory, then saved, then answered; after a failed save (500) and after a
\* lost answer the source sends it again.
Ingest(m) ==
  /\ sent[m] = "waiting" /\ ~Contains(mem.box, m)
  /\ mem' = [mem EXCEPT !.box = Append(@, m)]
  /\ \/ /\ disk' = mem'
        /\ sent' = [sent EXCEPT ![m] = "accepted"]
        /\ UNCHANGED faults
     \/ disk' = mem' /\ Fault /\ UNCHANGED sent
     \/ Fault /\ UNCHANGED <<disk, sent>>
  /\ UNCHANGED deviceVars

\* A message the mailbox holds in memory is answered 200 without a save,
\* whether or not the file has it.
IngestDuplicate(m) ==
  /\ sent[m] = "waiting" /\ Contains(mem.box, m)
  /\ sent' = [sent EXCEPT ![m] = IF Contains(disk.box, m) THEN "duplicate" ELSE "unsaved"]
  /\ UNCHANGED <<mem, disk, faults>>
  /\ UNCHANGED deviceVars

Before(box, m, n) == \E i, j \in DOMAIN box : i < j /\ box[i] = m /\ box[j] = n

\* take_undelivered: what the device was not given, in the order of arrival.  It is one
\* sequence, as a mailbox holds no message twice.
Undelivered(d) ==
  {b \in SetToSeqs(ToSet(mem.box) \ mem.given[d]) :
     \A i, j \in DOMAIN b : i < j => Before(mem.box, b[i], b[j])}
Deliver(d) == mem' = [mem EXCEPT !.given[d] = ToSet(mem.box)]

Answer(p) ==
  /\ \E b \in Undelivered(DeviceOf[p]) : batch' = [batch EXCEPT ![p] = b]
  /\ received' = [received EXCEPT ![DeviceOf[p]] = @ \cup ToSet(batch'[p])]
  /\ Goto(p, "answered")

\* Mutant of Poll: a failed save is answered like a good one.
PollUnsaved(p) ==
  /\ pc[p] = "idle"
  /\ Deliver(DeviceOf[p])
  /\ \/ disk' = mem' /\ UNCHANGED faults
     \/ Fault /\ UNCHANGED disk
  /\ Answer(p)
  /\ UNCHANGED <<sent, read, tmp, mirror, applied>>

\* A poll marks the messages in memory, then saves, then answers: the answer
\* arrives, or it is lost, or the save fails (500).
Poll(p) ==
  /\ pc[p] = "idle"
  /\ Deliver(DeviceOf[p])
  /\ \/ disk' = mem' /\ Answer(p) /\ UNCHANGED faults
     \/ disk' = mem' /\ Fault /\ UNCHANGED <<pc, batch, received>>
     \/ Fault /\ UNCHANGED <<disk, pc, batch, received>>
  /\ UNCHANGED <<sent, read, tmp, mirror, applied>>

\* The resolver starts again from its file.
ResolverRestart ==
  /\ Fault
  /\ mem' = disk
  /\ UNCHANGED <<disk, sent>>
  /\ UNCHANGED deviceVars

-----------------------------------------------------------------------------
(* A device: ExternalTasksCache.                                           *)

LoadMirror(p) ==
  /\ pc[p] = "answered"
  /\ read' = [read EXCEPT ![p] = mirror[DeviceOf[p]]]
  /\ Goto(p, "loaded")
  /\ UNCHANGED <<batch, tmp, mirror, received, applied, faults>>
  /\ UNCHANGED resolverVars

\* Mutant of Fold: the last message of a task wins, as it came.
FoldAsItComes(old, b) ==
  [k \in Task |->
     LET S == {i \in DOMAIN b : TaskOf[b[i]] = k}
     IN  IF S = {} THEN old[k] ELSE b[CHOOSE i \in S : \A j \in S : j <= i]]

\* apply: oldest first, in the order of arrival where the stamps are equal; an
\* event older than the last one of its task is left out.
Fold(old, b) ==
  [k \in Task |->
     LET S == {i \in DOMAIN b : TaskOf[b[i]] = k}
         newest == CHOOSE i \in S :
                     \A j \in S : \/ Ts[b[j]] < Ts[b[i]]
                                  \/ Ts[b[j]] = Ts[b[i]] /\ j <= i
     IN  IF S = {} \/ (old[k] # None /\ Ts[b[newest]] < Ts[old[k]])
         THEN old[k] ELSE b[newest]]

\* save: the folded mirror goes to a temporary file, the same one for every
\* poller of the device.
WriteTmp(p) ==
  /\ pc[p] = "loaded"
  /\ tmp' = [tmp EXCEPT ![DeviceOf[p]] = Fold(read[p], batch[p])]
  /\ Goto(p, "written")
  /\ UNCHANGED <<batch, read, mirror, received, applied, faults>>
  /\ UNCHANGED resolverVars

\* ... which is renamed to external_tasks.json, unless another poller did.
Rename(p) ==
  LET d == DeviceOf[p]
  IN  /\ pc[p] = "written"
      /\ \/ /\ tmp[d] # None
            /\ mirror' = [mirror EXCEPT ![d] = tmp[d]]
            /\ tmp' = [tmp EXCEPT ![d] = None]
            /\ applied' = [applied EXCEPT ![d] = @ \cup ToSet(batch[p])]
         \/ /\ tmp[d] = None
            /\ UNCHANGED <<mirror, tmp, applied>>
      /\ Goto(p, "idle")
      /\ batch' = [batch EXCEPT ![p] = <<>>]
      /\ read' = [read EXCEPT ![p] = NoTasks]
      /\ UNCHANGED <<received, faults>>
      /\ UNCHANGED resolverVars

\* The poll ends early: a call fails, or the app is closed.
Abandon(p) ==
  /\ pc[p] # "idle"
  /\ Fault
  /\ Goto(p, "idle")
  /\ batch' = [batch EXCEPT ![p] = <<>>]
  /\ read' = [read EXCEPT ![p] = NoTasks]
  /\ UNCHANGED <<tmp, mirror, received, applied>>
  /\ UNCHANGED resolverVars

Mirroring(p) == LoadMirror(p) \/ WriteTmp(p) \/ Rename(p)

Next == \/ \E m \in Msg : Ingest(m) \/ IngestDuplicate(m)
        \/ \E p \in Poller : Poll(p) \/ Mirroring(p) \/ Abandon(p)
        \/ ResolverRestart

Spec == Init /\ [][Next]_vars

\* The source retries until it is answered, the pollers go on polling.
FairSpec == /\ Spec
            /\ \A m \in Msg : WF_vars(Ingest(m) \/ IngestDuplicate(m))
            /\ \A p \in Poller : WF_vars(Poll(p)) /\ WF_vars(Mirroring(p))

-----------------------------------------------------------------------------
(* Properties.                                                             *)

Once(s) == \A i, j \in DOMAIN s : s[i] = s[j] => i = j

\* A mailbox holds a message once, however often it was sent.
TypeOK ==
  /\ mem \in Store /\ disk \in Store /\ Once(mem.box) /\ Once(disk.box)
  /\ sent \in [Msg -> {"waiting", "accepted", "duplicate", "unsaved"}]
  /\ pc \in [Poller -> {"idle", "answered", "loaded", "written"}]
  /\ batch \in [Poller -> Seq(Msg)]
  /\ read \in [Poller -> Mirror]
  /\ tmp \in [Device -> Mirror \cup {None}]
  /\ mirror \in [Device -> Mirror]
  /\ received \in [Device -> SUBSET Msg]
  /\ applied \in [Device -> SUBSET Msg]
  /\ faults \in 0..MaxFaults

\* A message that was answered is in the file, whatever restarts and failed
\* saves came before and after, and also when its first answer was lost and the
\* retry was taken for a duplicate: the source need not send it again
\* (routes.rs:22-23, docs/plans/external-integration-contract.md:171-176).  One
\* thing that these promise too is excepted, the retry after a failed save: it
\* is answered 200 from the memory alone, and a restart before the next save
\* loses it for good, though the source was told that the resolver has it.
AcceptedIsKept ==
  \A m \in Msg : sent[m] \in {"accepted", "duplicate"} => Contains(disk.box, m)

\* No message reaches a device twice, also when the resolver forgot a mark it
\* could not save (store.rs:94-111, model.rs:52-54).
OnceToADevice ==
  [][\A p \in Poller :
       pc[p] = "idle" /\ pc'[p] = "answered"
       => ToSet(batch'[p]) \cap received[DeviceOf[p]] = {}]_vars

\* The mirror of a task is the newest of the events that were folded into it,
\* in whatever order and batches they came (external.rs:100-101, 195-199).  Two
\* pollers of one device may undo each other's fold.
MirrorNewest ==
  \A d \in Device, k \in Task :
    Cardinality({p \in Poller : DeviceOf[p] = d}) = 1 =>
    LET events == {m \in applied[d] : TaskOf[m] = k}
    IN  IF events = {} THEN mirror[d][k] = None
        ELSE /\ mirror[d][k] \in events
             /\ \A m \in events : Ts[m] <= Ts[mirror[d][k]]

\* Every device of the account gets its copy of a message that was kept
\* (model.rs:52-53).
EachDeviceGetsACopy ==
  \A m \in Msg, d \in Device : Contains(disk.box, m) ~> m \in received[d]
=============================================================================
