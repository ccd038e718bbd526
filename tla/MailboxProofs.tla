---------------------------- MODULE MailboxProofs ----------------------------
(***************************************************************************)
(* What the resolver and a device keep, for any messages, devices, pollers *)
(* and faults.                                                             *)
(*                                                                         *)
(* AcceptedIsKept and OnceToADevice are about the file and the devices,    *)
(* the actions look at the memory: the invariant says how far the memory   *)
(* may be ahead of the file, and that a restart falls back on no less than *)
(* the devices have.                                                       *)
(***************************************************************************)
EXTENDS Mailbox, FiniteSetTheorems, WellFoundedInduction, TLAPS

\* What is in the file is in memory, and what was answered is in the file.
Saved ==
  /\ ToSet(disk.box) \subseteq ToSet(mem.box)
  /\ \A m \in Msg : sent[m] \in {"accepted", "duplicate"} => m \in ToSet(disk.box)

\* A device has nothing that is not marked in the file; a mark is of a message that is there.
Marked ==
  \A d \in Device :
    /\ received[d] \subseteq disk.given[d]
    /\ disk.given[d] \subseteq mem.given[d]
    /\ disk.given[d] \subseteq ToSet(disk.box)
    /\ mem.given[d] \subseteq ToSet(mem.box)

StoreInv == TypeOK /\ Saved /\ Marked

LEMMA AppendSet ==
  ASSUME NEW s \in Seq(Msg), NEW m \in Msg
  PROVE  /\ Append(s, m) \in Seq(Msg)
         /\ ToSet(Append(s, m)) = ToSet(s) \cup {m}
<1>1. /\ Append(s, m) \in Seq(Msg) /\ Len(Append(s, m)) = Len(s) + 1
      /\ Append(s, m)[Len(s) + 1] = m /\ \A i \in 1..Len(s) : Append(s, m)[i] = s[i]
  OBVIOUS
<1>2. DOMAIN s = 1..Len(s) /\ DOMAIN Append(s, m) = 1..(Len(s) + 1) /\ Len(s) \in Nat
  BY <1>1
<1>3. 1..(Len(s) + 1) = 1..Len(s) \cup {Len(s) + 1}
  BY <1>2
<1> QED BY <1>1, <1>2, <1>3 DEF ToSet

LEMMA AppendOnce ==
  ASSUME NEW s \in Seq(Msg), NEW m \in Msg, Once(s), ~Contains(s, m)
  PROVE  Once(Append(s, m))
<1>1. /\ DOMAIN s = 1..Len(s) /\ DOMAIN Append(s, m) = 1..(Len(s) + 1) /\ Len(s) \in Nat
      /\ Append(s, m)[Len(s) + 1] = m /\ \A i \in 1..Len(s) : Append(s, m)[i] = s[i]
  OBVIOUS
<1>2. \A i \in 1..Len(s) : s[i] # m
  BY DEF Contains
<1> QED BY <1>1, <1>2 DEF Once

LEMMA ContainsSet ==
  ASSUME NEW s \in Seq(Msg), NEW m
  PROVE  Contains(s, m) <=> m \in ToSet(s)
BY DEF Contains, ToSet

LEMMA SetOf ==
  ASSUME NEW s \in Seq(Msg)
  PROVE  ToSet(s) \in SUBSET Msg /\ IsFiniteSet(ToSet(s))
<1>1. ToSet(s) \in SUBSET Msg
  BY DEF ToSet
<1>2. s \in Surjection(1..Len(s), ToSet(s))
  BY DEF Surjection, ToSet
<1>3. IsFiniteSet(1..Len(s))
  BY FS_Interval
<1> QED BY <1>1, <1>2, <1>3, FS_Surjection

\* An answer has messages that the device was not given.
LEMMA AnswerIsNew ==
  ASSUME mem \in Store, NEW d \in Device, NEW b \in Undelivered(d)
  PROVE  b \in Seq(Msg) /\ ToSet(b) \subseteq ToSet(mem.box) \ mem.given[d]
<1> DEFINE U == ToSet(mem.box) \ mem.given[d]
<1>1. mem.box \in Seq(Msg)
  BY DEF Store
<1>2. U \in SUBSET Msg /\ IsFiniteSet(U)
  BY <1>1, SetOf, FS_Difference
<1>3. Cardinality(U) \in Nat
  BY <1>2, FS_CardinalityType
<1>4. b \in [1..Cardinality(U) -> U]
  BY DEF Undelivered, SetToSeqs
<1>5. ToSet(b) \subseteq U
  BY <1>4 DEF ToSet
<1>6. b \in [1..Cardinality(U) -> Msg]
  BY <1>2, <1>4
<1> HIDE DEF U
<1>7. b \in Seq(Msg)
  BY <1>3, <1>6
<1> QED BY <1>5, <1>7 DEF U

\* The store after a poll has marked what there is.
Delivered(d) == [mem EXCEPT !.given = [mem.given EXCEPT ![d] = ToSet(mem.box)]]

LEMMA DeliverIs ==
  ASSUME mem \in Store, NEW d \in Device, Deliver(d)
  PROVE  /\ mem' \in Store /\ mem'.box = mem.box
         /\ mem'.given[d] = ToSet(mem.box)
         /\ \A e \in Device : e # d => mem'.given[e] = mem.given[e]
<1>1. mem.box \in Seq(Msg) /\ mem.given \in [Device -> SUBSET Msg]
  BY DEF Store
<1>2. ToSet(mem.box) \in SUBSET Msg
  BY <1>1, SetOf
<1>3. mem' = Delivered(d)
  BY DEF Deliver, Delivered, Store
<1> QED BY <1>1, <1>2, <1>3 DEF Delivered, Store

\* What a step does to the store: a message comes, a device is given all there is, the
\* memory is lost, or nothing; whatever happens to the memory, the file follows it or not.
Stores ==
  \/ \E m \in Msg : /\ ~Contains(mem.box, m)
                    /\ mem' = [mem EXCEPT !.box = Append(@, m)]
  \/ \E d \in Device : Deliver(d)
  \/ mem' = mem

LEMMA StoresTyped ==
  ASSUME TypeOK, Stores
  PROVE  /\ mem' \in Store /\ Once(mem'.box)
         /\ ToSet(mem.box) \subseteq ToSet(mem'.box)
         /\ \A d \in Device : mem'.given[d] \in {mem.given[d], ToSet(mem.box)}
<1>0. mem \in Store /\ Once(mem.box) /\ mem.box \in Seq(Msg) /\ mem.given \in [Device -> SUBSET Msg]
  BY DEF TypeOK, Store
<1>1. ASSUME NEW m \in Msg, ~Contains(mem.box, m), mem' = [mem EXCEPT !.box = Append(@, m)]
      PROVE  /\ mem' \in Store /\ Once(mem'.box)
             /\ ToSet(mem.box) \subseteq ToSet(mem'.box)
             /\ \A d \in Device : mem'.given[d] = mem.given[d]
  <2>1. /\ Append(mem.box, m) \in Seq(Msg) /\ Once(Append(mem.box, m))
        /\ ToSet(mem.box) \subseteq ToSet(Append(mem.box, m))
    BY <1>0, <1>1, AppendSet, AppendOnce
  <2>2. mem' \in Store /\ mem'.box = Append(mem.box, m) /\ mem'.given = mem.given
    BY <1>0, <1>1, <2>1 DEF Store
  <2> QED BY <2>1, <2>2
<1>2. ASSUME NEW d \in Device, Deliver(d)
      PROVE  /\ mem' \in Store /\ Once(mem'.box)
             /\ ToSet(mem.box) \subseteq ToSet(mem'.box)
             /\ \A e \in Device : mem'.given[e] \in {mem.given[e], ToSet(mem.box)}
  BY <1>0, <1>2, DeliverIs
<1> QED BY <1>0, <1>1, <1>2 DEF Stores

LEMMA StoreStep ==
  ASSUME StoreInv, Stores \/ mem' = disk, disk' \in {disk, mem'},
         \A m \in Msg : sent'[m] \in {"accepted", "duplicate"} =>
           sent[m] \in {"accepted", "duplicate"} \/ m \in ToSet(disk'.box),
         \A d \in Device : \/ received'[d] = received[d]
                           \/ disk' = mem' /\ received'[d] \subseteq mem'.given[d]
  PROVE  /\ mem' \in Store /\ disk' \in Store /\ Once(mem'.box) /\ Once(disk'.box)
         /\ Saved' /\ Marked'
<1>0. TypeOK /\ Saved /\ Marked
  BY DEF StoreInv
<1>1. CASE Stores
  <2>1. /\ mem' \in Store /\ Once(mem'.box)
        /\ ToSet(mem.box) \subseteq ToSet(mem'.box)
        /\ \A d \in Device : mem'.given[d] \in {mem.given[d], ToSet(mem.box)}
    BY <1>0, <1>1, StoresTyped
  <2>2. disk' \in Store /\ Once(disk'.box)
    BY <1>0, <2>1 DEF TypeOK
  <2>3. Saved'
    BY <1>0, <2>1 DEF Saved
  <2>4. Marked'
    <3> SUFFICES ASSUME NEW d \in Device
                 PROVE  /\ received'[d] \subseteq disk'.given[d]
                        /\ disk'.given[d] \subseteq mem'.given[d]
                        /\ disk'.given[d] \subseteq ToSet(disk'.box)
                        /\ mem'.given[d] \subseteq ToSet(mem'.box)
      BY DEF Marked
    <3>1. /\ received[d] \subseteq disk.given[d] /\ disk.given[d] \subseteq mem.given[d]
          /\ disk.given[d] \subseteq ToSet(disk.box) /\ mem.given[d] \subseteq ToSet(mem.box)
      BY <1>0 DEF Marked
    <3>2. mem.given[d] \subseteq mem'.given[d] /\ mem'.given[d] \subseteq ToSet(mem'.box)
      BY <2>1, <3>1
    <3>3. received'[d] \subseteq disk'.given[d]
      BY <3>1, <3>2
    <3> QED BY <3>1, <3>2, <3>3
  <2> QED BY <2>1, <2>2, <2>3, <2>4
<1>2. CASE mem' = disk
  <2>1. /\ disk' = disk /\ disk \in Store /\ Once(disk.box)
    BY <1>0, <1>2 DEF TypeOK
  <2>2. Saved'
    BY <1>0, <1>2, <2>1 DEF Saved
  <2>3. Marked'
    BY <1>0, <1>2, <2>1 DEF Marked
  <2> QED BY <1>2, <2>1, <2>2, <2>3
<1> QED BY <1>1, <1>2

(***************************************************************************)
(* The mirror.                                                             *)
(***************************************************************************)
\* j comes after i when the events are put in order.
After(b, i, j) == Ts[b[i]] < Ts[b[j]] \/ (Ts[b[i]] = Ts[b[j]] /\ i < j)

\* Among the events of a batch one comes last.
LEMMA LastEvent ==
  ASSUME NEW b \in Seq(Msg), NEW S \in SUBSET (DOMAIN b), S # {}
  PROVE  \E i \in S : \A j \in S : \/ Ts[b[j]] < Ts[b[i]]
                                   \/ Ts[b[j]] = Ts[b[i]] /\ j <= i
<1> DEFINE Later(i) == {j \in S : After(b, i, j)}
           Counts == {Cardinality(Later(i)) : i \in S}
<1>0. /\ IsFiniteSet(S) /\ S \subseteq Nat /\ \A i \in S : Ts[b[i]] \in Nat
  <2>1. DOMAIN b = 1..Len(b) /\ Len(b) \in Nat /\ \A i \in DOMAIN b : b[i] \in Msg
    OBVIOUS
  <2>2. IsFiniteSet(DOMAIN b)
    BY <2>1, FS_Interval
  <2> QED BY <2>1, <2>2, FS_Subset, MsgAssumption
<1>1. \A i \in S : IsFiniteSet(Later(i)) /\ Cardinality(Later(i)) \in Nat
  BY <1>0, FS_Subset, FS_CardinalityType
<1>2. Counts \in SUBSET Nat /\ Counts # {}
  BY <1>1
<1>3. PICK i \in S : \A j \in S : ~(Cardinality(Later(j)) < Cardinality(Later(i)))
  <2> HIDE DEF Counts
  <2>1. PICK n \in Counts : \A k \in Counts : ~(<<k, n>> \in OpToRel(<, Nat))
    BY <1>2, NatLessThanWellFounded, WFMin
  <2>2. \A k \in Counts : ~(k < n)
    BY <1>2, <2>1 DEF OpToRel
  <2> QED BY <2>2 DEF Counts
<1>4. ASSUME NEW j \in S, After(b, i, j) PROVE FALSE
  <2>1. Later(j) \subseteq Later(i)
    <3>1. \A k \in S : After(b, j, k) => After(b, i, k)
      BY <1>0, <1>4 DEF After
    <3> QED BY <3>1
  <2>2. j \in Later(i) /\ j \notin Later(j)
    BY <1>0, <1>4 DEF After
  <2>3. /\ Cardinality(Later(j)) <= Cardinality(Later(i))
        /\ Cardinality(Later(i)) = Cardinality(Later(j)) => Later(i) = Later(j)
    BY <1>1, <2>1, FS_Subset
  <2>4. Cardinality(Later(i)) \in Nat /\ Cardinality(Later(j)) \in Nat
    BY <1>1
  <2> HIDE DEF Later
  <2> QED BY <1>3, <2>2, <2>3, <2>4
<1>5. ASSUME NEW j \in S
      PROVE  Ts[b[j]] < Ts[b[i]] \/ (Ts[b[j]] = Ts[b[i]] /\ j <= i)
  <2>1. ~After(b, i, j)
    BY <1>4
  <2>2. i \in Nat /\ j \in Nat /\ Ts[b[i]] \in Nat /\ Ts[b[j]] \in Nat
    BY <1>0
  <2> QED BY <2>1, <2>2 DEF After
<1> QED BY <1>5

\* The value v of a task k is the newest of the events in E, if there is one.
NewestOf(v, E, k) ==
  LET events == {m \in E : TaskOf[m] = k}
  IN  IF events = {} THEN v = None
      ELSE v \in events /\ \A m \in events : Ts[m] <= Ts[v]

\* What a fold does to a mirror that is right so far.
LEMMA FoldNewest ==
  ASSUME NEW old \in Mirror, NEW b \in Seq(Msg)
  PROVE  /\ Fold(old, b) \in Mirror
         /\ \A k \in Task, E \in SUBSET Msg :
              NewestOf(old[k], E, k) => NewestOf(Fold(old, b)[k], E \cup ToSet(b), k)
<1> DEFINE At(k) == {i \in DOMAIN b : TaskOf[b[i]] = k}
           LastAt(k) == CHOOSE i \in At(k) : \A j \in At(k) :
                        \/ Ts[b[j]] < Ts[b[i]]
                        \/ Ts[b[j]] = Ts[b[i]] /\ j <= i
<1>1. ASSUME NEW k \in Task, At(k) # {}
      PROVE  /\ LastAt(k) \in At(k)
             /\ \A j \in At(k) : \/ Ts[b[j]] < Ts[b[LastAt(k)]]
                                 \/ Ts[b[j]] = Ts[b[LastAt(k)]] /\ j <= LastAt(k)
  <2>1. \E i \in At(k) : \A j \in At(k) : \/ Ts[b[j]] < Ts[b[i]]
                                          \/ Ts[b[j]] = Ts[b[i]] /\ j <= i
    BY <1>1, LastEvent
  <2> HIDE DEF At
  <2> QED BY <2>1
<1>2. \A k \in Task :
        Fold(old, b)[k] = IF At(k) = {} \/ (old[k] # None /\ Ts[b[LastAt(k)]] < Ts[old[k]])
                          THEN old[k] ELSE b[LastAt(k)]
  BY DEF Fold
<1>3. \A i \in DOMAIN b : b[i] \in Msg /\ Ts[b[i]] \in Nat
  BY MsgAssumption
<1>4. DOMAIN Fold(old, b) = Task /\ Fold(old, b) = [k \in Task |-> Fold(old, b)[k]]
  BY DEF Fold
<1> HIDE DEF LastAt
<1>5. \A k \in Task : Fold(old, b)[k] \in Msg \cup {None}
  <2> TAKE k \in Task
  <2>1. CASE At(k) = {}
    BY <1>2, <2>1 DEF Mirror
  <2>2. CASE At(k) # {}
    BY <1>1, <1>2, <1>3, <2>2 DEF Mirror
  <2> QED BY <2>1, <2>2
<1>6. Fold(old, b) \in Mirror
  BY <1>4, <1>5 DEF Mirror
<1>7. ASSUME NEW k \in Task, NEW E \in SUBSET Msg, NewestOf(old[k], E, k)
      PROVE  NewestOf(Fold(old, b)[k], E \cup ToSet(b), k)
  <2> DEFINE new == {m \in ToSet(b) : TaskOf[m] = k}
             have == {m \in E : TaskOf[m] = k}
             v == Fold(old, b)[k]
  <2>1. new = {b[i] : i \in At(k)}
    BY DEF ToSet
  <2>2. {m \in E \cup ToSet(b) : TaskOf[m] = k} = have \cup new
    OBVIOUS
  <2>3. /\ have = {} => old[k] = None
        /\ have # {} => old[k] \in have /\ \A m \in have : Ts[m] <= Ts[old[k]]
    BY <1>7 DEF NewestOf
  <2>4. have \in SUBSET Msg /\ \A m \in have : Ts[m] \in Nat /\ m # None
    BY MsgAssumption
  <2> SUFFICES IF have \cup new = {} THEN v = None
               ELSE v \in have \cup new /\ \A m \in have \cup new : Ts[m] <= Ts[v]
    BY <2>2 DEF NewestOf
  <2>5. CASE At(k) = {}
    <3>1. v = old[k] /\ new = {}
      BY <1>2, <2>1, <2>5
    <3> HIDE DEF v, new, have
    <3> QED BY <2>3, <3>1
  <2>6. CASE At(k) # {}
    <3>1. PICK i \in At(k) : /\ i = LastAt(k)
                             /\ \A j \in At(k) : \/ Ts[b[j]] < Ts[b[i]]
                                                 \/ Ts[b[j]] = Ts[b[i]] /\ j <= i
      BY <1>1, <2>6
    <3>2. b[i] \in new /\ Ts[b[i]] \in Nat /\ \A m \in new : Ts[m] <= Ts[b[i]] /\ Ts[m] \in Nat
      BY <1>3, <2>1, <3>1
    <3>3. v = IF old[k] # None /\ Ts[b[i]] < Ts[old[k]] THEN old[k] ELSE b[i]
      BY <1>2, <2>6, <3>1
    <3> HIDE DEF v, new, have
    <3>4. CASE have = {}
      BY <2>3, <3>2, <3>3, <3>4
    <3>5. CASE have # {}
      BY <2>3, <2>4, <3>2, <3>3, <3>5
    <3> QED BY <3>4, <3>5
  <2> QED BY <2>5, <2>6
<1> QED BY <1>6, <1>7

\* A device with one poller: what it has read is its mirror, and what it has written for
\* the rename is the fold of its batch into that.
Alone(d) == Cardinality({p \in Poller : DeviceOf[p] = d}) = 1

MirrorInv ==
  /\ MirrorNewest
  /\ \A p \in Poller : Alone(DeviceOf[p]) =>
       /\ pc[p] \in {"loaded", "written"} => read[p] = mirror[DeviceOf[p]]
       /\ pc[p] = "written" => tmp[DeviceOf[p]] = Fold(read[p], batch[p])

MailInv == StoreInv /\ MirrorInv

LEMMA AloneIs ==
  ASSUME NEW p \in Poller, NEW q \in Poller, Alone(DeviceOf[p]), DeviceOf[q] = DeviceOf[p]
  PROVE  q = p
<1> DEFINE S == {r \in Poller : DeviceOf[r] = DeviceOf[p]}
<1>1. Cardinality(S) = 1 /\ p \in S /\ q \in S /\ IsFiniteSet(S)
  BY FS_Subset, PollerAssumption DEF Alone
<1>2. \E r : S = {r}
  BY <1>1, FS_Singleton
<1> QED BY <1>1, <1>2

LEMMA MailInit == Init => MailInv
<1> SUFFICES ASSUME Init PROVE MailInv
  OBVIOUS
<1>1. EmptyStore \in Store /\ EmptyStore.box = <<>> /\ \A d \in Device : EmptyStore.given[d] = {}
  BY DEF EmptyStore, Store
<1>2. ToSet(<<>>) = {} /\ Once(<<>>) /\ <<>> \in Seq(Msg)
  BY DEF ToSet, Once
<1>3. NoTasks \in Mirror
  BY DEF NoTasks, Mirror
<1>4. TypeOK
  BY <1>1, <1>2, <1>3, FaultAssumption DEF Init, TypeOK
<1>5. Saved /\ Marked
  BY <1>1, <1>2 DEF Init, Saved, Marked
<1>6. MirrorInv
  BY DEF Init, MirrorInv, MirrorNewest, NoTasks
<1> QED BY <1>4, <1>5, <1>6 DEF MailInv, StoreInv

\* The resolver does nothing to the mirrors.
LEMMA ResolverStep ==
  ASSUME MailInv, ResolverRestart \/ \E m \in Msg : Ingest(m) \/ IngestDuplicate(m)
  PROVE  MailInv'
<1>0. StoreInv /\ TypeOK /\ MirrorInv
  BY DEF MailInv, StoreInv
<1>1. /\ UNCHANGED deviceVars /\ disk' \in {disk, mem'} /\ (Stores \/ mem' = disk)
      /\ sent' \in [Msg -> {"waiting", "accepted", "duplicate", "unsaved"}]
      /\ faults' \in {faults, faults + 1} /\ (faults' # faults => faults < MaxFaults)
      /\ \A m \in Msg : sent'[m] \in {"accepted", "duplicate"} =>
           sent[m] \in {"accepted", "duplicate"} \/ m \in ToSet(disk'.box)
  <2>1. CASE ResolverRestart
    BY <1>0, <2>1 DEF ResolverRestart, Fault, TypeOK
  <2>2. ASSUME NEW m \in Msg, IngestDuplicate(m)
        PROVE  /\ Stores /\ disk' = disk /\ faults' = faults /\ UNCHANGED deviceVars
               /\ \/ sent' = [sent EXCEPT ![m] = "duplicate"] /\ m \in ToSet(disk'.box)
                  \/ sent' = [sent EXCEPT ![m] = "unsaved"]
    <3>1. disk.box \in Seq(Msg)
      BY <1>0 DEF TypeOK, Store
    <3> QED BY <2>2, <3>1, ContainsSet DEF IngestDuplicate, Stores
  <2>3. ASSUME NEW m \in Msg, Ingest(m)
        PROVE  /\ Stores /\ disk' \in {disk, mem'} /\ UNCHANGED deviceVars
               /\ faults' \in {faults, faults + 1} /\ (faults' # faults => faults < MaxFaults)
               /\ \/ sent' = sent
                  \/ /\ sent' = [sent EXCEPT ![m] = "accepted"] /\ disk' = mem'
                     /\ m \in ToSet(mem'.box)
    <3>1. /\ ~Contains(mem.box, m) /\ mem' = [mem EXCEPT !.box = Append(@, m)]
          /\ disk' \in {disk, mem'} /\ UNCHANGED deviceVars
          /\ faults' \in {faults, faults + 1} /\ (faults' # faults => faults < MaxFaults)
          /\ sent' = sent \/ (sent' = [sent EXCEPT ![m] = "accepted"] /\ disk' = mem')
      BY <2>3 DEF Ingest, Fault
    <3>2. mem.box \in Seq(Msg) /\ mem \in Store
      BY <1>0 DEF TypeOK, Store
    <3>3. mem'.box = Append(mem.box, m)
      BY <3>1, <3>2 DEF Store
    <3>4. m \in ToSet(mem'.box)
      BY <3>2, <3>3, AppendSet
    <3> QED BY <3>1, <3>4 DEF Stores
  <2>4. sent \in [Msg -> {"waiting", "accepted", "duplicate", "unsaved"}]
    BY <1>0 DEF TypeOK
  <2> QED BY <2>1, <2>2, <2>3, <2>4
<1>2. /\ mem' \in Store /\ disk' \in Store /\ Once(mem'.box) /\ Once(disk'.box)
      /\ Saved' /\ Marked'
  BY <1>0, <1>1, StoreStep DEF deviceVars
<1>3. faults' \in 0..MaxFaults
  BY <1>0, <1>1, FaultAssumption DEF TypeOK
<1>4. TypeOK'
  BY <1>0, <1>1, <1>2, <1>3 DEF TypeOK, deviceVars
<1>5. MirrorInv'
  BY <1>0, <1>1 DEF MirrorInv, MirrorNewest, deviceVars
<1> QED BY <1>2, <1>4, <1>5 DEF MailInv, StoreInv

LEMMA PollStep ==
  ASSUME MailInv, NEW p \in Poller, Poll(p)
  PROVE  /\ MailInv'
         /\ \A q \in Poller : pc[q] = "idle" /\ pc'[q] = "answered" =>
              ToSet(batch'[q]) \cap received[DeviceOf[q]] = {}
<1> DEFINE d == DeviceOf[p]
<1>0. /\ StoreInv /\ TypeOK /\ Marked /\ MirrorInv /\ d \in Device /\ pc[p] = "idle"
      /\ mem \in Store /\ mem.box \in Seq(Msg)
  BY PollerAssumption DEF MailInv, StoreInv, Poll, TypeOK, Store
<1>1. /\ Deliver(d) /\ disk' \in {disk, mem'} /\ UNCHANGED <<sent, read, tmp, mirror, applied>>
      /\ faults' \in {faults, faults + 1} /\ (faults' # faults => faults < MaxFaults)
      /\ \/ disk' = mem' /\ Answer(p)
         \/ UNCHANGED <<pc, batch, received>>
  BY DEF Poll, Fault
<1>2. /\ mem'.given[d] = ToSet(mem.box)
      /\ \A e \in Device : e # d => mem'.given[e] = mem.given[e]
  BY <1>0, <1>1, DeliverIs
<1>3. ASSUME Answer(p)
      PROVE  \E b \in Seq(Msg) :
               /\ batch' = [batch EXCEPT ![p] = b]
               /\ pc' = [pc EXCEPT ![p] = "answered"]
               /\ ToSet(b) \subseteq ToSet(mem.box) \ mem.given[d]
               /\ received' = [received EXCEPT ![d] = received[d] \cup ToSet(b)]
  <2>1. PICK b \in Undelivered(d) : batch' = [batch EXCEPT ![p] = b]
    BY <1>3 DEF Answer
  <2>2. b \in Seq(Msg) /\ ToSet(b) \subseteq ToSet(mem.box) \ mem.given[d]
    BY <1>0, <2>1, AnswerIsNew
  <2>3. batch'[p] = b
    BY <1>0, <2>1 DEF TypeOK
  <2> QED BY <1>3, <2>1, <2>2, <2>3 DEF Answer, Goto
<1>4. \A e \in Device : \/ received'[e] = received[e]
                        \/ disk' = mem' /\ received'[e] \subseteq mem'.given[e]
  <2>1. CASE UNCHANGED <<pc, batch, received>>
    BY <2>1
  <2>2. CASE disk' = mem' /\ Answer(p)
    <3>1. PICK b \in Seq(Msg) :
            /\ ToSet(b) \subseteq ToSet(mem.box) \ mem.given[d]
            /\ received' = [received EXCEPT ![d] = received[d] \cup ToSet(b)]
      BY <1>3, <2>2
    <3>2. received \in [Device -> SUBSET Msg] /\ received[d] \subseteq ToSet(mem.box)
      BY <1>0 DEF TypeOK, Marked
    <3> QED BY <1>0, <1>2, <2>2, <3>1, <3>2
  <2> QED BY <1>1, <2>1, <2>2
<1>5. /\ mem' \in Store /\ disk' \in Store /\ Once(mem'.box) /\ Once(disk'.box)
      /\ Saved' /\ Marked'
  BY <1>0, <1>1, <1>4, StoreStep DEF Stores
<1>6. faults' \in 0..MaxFaults
  BY <1>0, <1>1, FaultAssumption DEF TypeOK
<1>7. /\ pc' \in [Poller -> {"idle", "answered", "loaded", "written"}]
      /\ batch' \in [Poller -> Seq(Msg)] /\ received' \in [Device -> SUBSET Msg]
      /\ \A q \in Poller : q # p => pc'[q] = pc[q] /\ batch'[q] = batch[q]
      /\ pc'[p] \in {"idle", "answered"}
      /\ pc'[p] = "answered" => ToSet(batch'[p]) \subseteq ToSet(mem.box) \ mem.given[d]
  <2>1. CASE UNCHANGED <<pc, batch, received>>
    BY <1>0, <2>1 DEF TypeOK
  <2>2. CASE Answer(p)
    <3>1. PICK b \in Seq(Msg) :
            /\ batch' = [batch EXCEPT ![p] = b]
            /\ pc' = [pc EXCEPT ![p] = "answered"]
            /\ ToSet(b) \subseteq ToSet(mem.box) \ mem.given[d]
            /\ received' = [received EXCEPT ![d] = received[d] \cup ToSet(b)]
      BY <1>3, <2>2
    <3>2. ToSet(b) \in SUBSET Msg
      BY SetOf
    <3> QED BY <1>0, <3>1, <3>2 DEF TypeOK
  <2> QED BY <1>1, <2>1, <2>2
<1>8. TypeOK'
  BY <1>0, <1>1, <1>5, <1>6, <1>7 DEF TypeOK
<1>9. MirrorInv'
  <2>1. MirrorNewest'
    BY <1>0, <1>1 DEF MirrorInv, MirrorNewest
  <2>2. ASSUME NEW q \in Poller, Alone(DeviceOf[q])
        PROVE  /\ pc'[q] \in {"loaded", "written"} => read'[q] = mirror'[DeviceOf[q]]
               /\ pc'[q] = "written" => tmp'[DeviceOf[q]] = Fold(read'[q], batch'[q])
    <3>1. CASE q = p
      BY <1>7, <3>1
    <3>2. CASE q # p
      BY <1>0, <1>1, <1>7, <2>2, <3>2 DEF MirrorInv
    <3> QED BY <3>1, <3>2
  <2> QED BY <2>1, <2>2 DEF MirrorInv
<1>10. ASSUME NEW q \in Poller, pc[q] = "idle", pc'[q] = "answered"
       PROVE  ToSet(batch'[q]) \cap received[DeviceOf[q]] = {}
  <2>1. q = p
    BY <1>7, <1>10
  <2>2. received[d] \subseteq mem.given[d]
    BY <1>0 DEF Marked
  <2> QED BY <1>7, <1>10, <2>1, <2>2
<1> QED BY <1>5, <1>8, <1>9, <1>10 DEF MailInv, StoreInv

\* A device folds its batch.
LEMMA MirrorStep ==
  ASSUME MailInv, NEW p \in Poller, Mirroring(p) \/ Abandon(p)
  PROVE  /\ MailInv'
         /\ \A q \in Poller : ~(pc[q] = "idle" /\ pc'[q] = "answered")
<1> DEFINE d == DeviceOf[p]
<1>0. StoreInv /\ TypeOK /\ MirrorInv /\ MirrorNewest /\ Saved /\ Marked /\ d \in Device
  BY PollerAssumption DEF MailInv, StoreInv, MirrorInv
<1>1. UNCHANGED <<mem, disk, sent, received>>
  BY DEF Mirroring, LoadMirror, WriteTmp, Rename, Abandon, resolverVars
<1>2. Saved' /\ Marked'
  BY <1>0, <1>1 DEF Saved, Marked
<1>3. /\ NoTasks \in Mirror /\ <<>> \in Seq(Msg)
      /\ read[p] \in Mirror /\ mirror[d] \in Mirror /\ batch[p] \in Seq(Msg)
      /\ Fold(read[p], batch[p]) \in Mirror
      /\ ToSet(batch[p]) \in SUBSET Msg
  <2>1. read[p] \in Mirror /\ mirror[d] \in Mirror /\ batch[p] \in Seq(Msg)
    BY <1>0 DEF TypeOK
  <2> QED BY <2>1, FoldNewest, SetOf DEF NoTasks, Mirror
<1>4. CASE LoadMirror(p)
  <2>1. /\ read' = [read EXCEPT ![p] = mirror[d]] /\ pc' = [pc EXCEPT ![p] = "loaded"]
        /\ UNCHANGED <<batch, tmp, mirror, applied, faults>>
    BY <1>4 DEF LoadMirror, Goto
  <2>2. TypeOK'
    BY <1>0, <1>1, <1>3, <2>1 DEF TypeOK
  <2>3. MirrorNewest'
    BY <1>0, <2>1 DEF MirrorNewest
  <2>4. ASSUME NEW q \in Poller, Alone(DeviceOf[q])
        PROVE  /\ pc'[q] \in {"loaded", "written"} => read'[q] = mirror'[DeviceOf[q]]
               /\ pc'[q] = "written" => tmp'[DeviceOf[q]] = Fold(read'[q], batch'[q])
    BY <1>0, <2>1, <2>4 DEF MirrorInv, TypeOK
  <2>5. \A q \in Poller : ~(pc[q] = "idle" /\ pc'[q] = "answered")
    BY <1>0, <2>1 DEF TypeOK
  <2> QED BY <1>2, <2>2, <2>3, <2>4, <2>5 DEF MailInv, StoreInv, MirrorInv
<1>5. CASE WriteTmp(p)
  <2>1. /\ pc[p] = "loaded" /\ pc' = [pc EXCEPT ![p] = "written"]
        /\ tmp' = [tmp EXCEPT ![d] = Fold(read[p], batch[p])]
        /\ UNCHANGED <<batch, read, mirror, applied, faults>>
    BY <1>5 DEF WriteTmp, Goto
  <2>2. TypeOK'
    BY <1>0, <1>1, <1>3, <2>1 DEF TypeOK
  <2>3. MirrorNewest'
    BY <1>0, <2>1 DEF MirrorNewest
  <2>4. ASSUME NEW q \in Poller, Alone(DeviceOf[q])
        PROVE  /\ pc'[q] \in {"loaded", "written"} => read'[q] = mirror'[DeviceOf[q]]
               /\ pc'[q] = "written" => tmp'[DeviceOf[q]] = Fold(read'[q], batch'[q])
    <3>1. CASE q = p
      <4>1. read[p] = mirror[d]
        BY <1>0, <2>1, <2>4, <3>1 DEF MirrorInv
      <4>2. tmp'[d] = Fold(read[p], batch[p])
        BY <1>0, <2>1 DEF TypeOK
      <4> QED BY <2>1, <3>1, <4>1, <4>2
    <3>2. CASE q # p
      <4>1. DeviceOf[q] # d
        BY <2>4, <3>2, AloneIs
      <4>2. pc'[q] = pc[q] /\ tmp'[DeviceOf[q]] = tmp[DeviceOf[q]]
        BY <1>0, <2>1, <3>2, <4>1, PollerAssumption DEF TypeOK
      <4> QED BY <1>0, <2>1, <2>4, <4>2 DEF MirrorInv
    <3> QED BY <3>1, <3>2
  <2>5. \A q \in Poller : ~(pc[q] = "idle" /\ pc'[q] = "answered")
    BY <1>0, <2>1 DEF TypeOK
  <2> QED BY <1>2, <2>2, <2>3, <2>4, <2>5 DEF MailInv, StoreInv, MirrorInv
<1>6. CASE Rename(p)
  <2>1. /\ pc[p] = "written" /\ pc' = [pc EXCEPT ![p] = "idle"]
        /\ batch' = [batch EXCEPT ![p] = <<>>] /\ read' = [read EXCEPT ![p] = NoTasks]
        /\ faults' = faults
        /\ \/ /\ tmp[d] # None /\ mirror' = [mirror EXCEPT ![d] = tmp[d]]
              /\ tmp' = [tmp EXCEPT ![d] = None]
              /\ applied' = [applied EXCEPT ![d] = applied[d] \cup ToSet(batch[p])]
           \/ UNCHANGED <<mirror, tmp, applied>>
    BY <1>6 DEF Rename, Goto
  <2>2. TypeOK'
    <3>1. tmp[d] # None => tmp[d] \in Mirror
      BY <1>0 DEF TypeOK
    <3>2. applied[d] \cup ToSet(batch[p]) \in SUBSET Msg
      BY <1>0, <1>3 DEF TypeOK
    <3>3. /\ mirror' \in [Device -> Mirror] /\ tmp' \in [Device -> Mirror \cup {None}]
          /\ applied' \in [Device -> SUBSET Msg]
      <4>1. /\ mirror \in [Device -> Mirror] /\ tmp \in [Device -> Mirror \cup {None}]
            /\ applied \in [Device -> SUBSET Msg]
        BY <1>0 DEF TypeOK
      <4>2. CASE UNCHANGED <<mirror, tmp, applied>>
        BY <4>1, <4>2
      <4>3. CASE /\ tmp[d] # None /\ mirror' = [mirror EXCEPT ![d] = tmp[d]]
                 /\ tmp' = [tmp EXCEPT ![d] = None]
                 /\ applied' = [applied EXCEPT ![d] = applied[d] \cup ToSet(batch[p])]
        BY <3>1, <3>2, <4>1, <4>3
      <4> QED BY <2>1, <4>2, <4>3
    <3>4. /\ pc' \in [Poller -> {"idle", "answered", "loaded", "written"}]
          /\ batch' \in [Poller -> Seq(Msg)] /\ read' \in [Poller -> Mirror]
      BY <1>0, <1>3, <2>1 DEF TypeOK
    <3> QED BY <1>0, <1>1, <2>1, <3>3, <3>4 DEF TypeOK
  <2>3. \A e \in Device : e # d => mirror'[e] = mirror[e] /\ applied'[e] = applied[e]
                                   /\ tmp'[e] = tmp[e]
    BY <1>0, <2>1 DEF TypeOK
  <2>4. MirrorNewest'
    <3> SUFFICES ASSUME NEW e \in Device, NEW k \in Task, Alone(e)
                 PROVE  NewestOf(mirror'[e][k], applied'[e], k)
      BY DEF MirrorNewest, NewestOf, Alone
    <3>1. NewestOf(mirror[e][k], applied[e], k)
      BY <1>0 DEF MirrorNewest, NewestOf, Alone
    <3>2. CASE e # d
      BY <2>3, <3>1, <3>2
    <3>3. CASE e = d
      <4>1. CASE UNCHANGED <<mirror, applied>>
        BY <3>1, <4>1
      <4>2. CASE /\ mirror' = [mirror EXCEPT ![d] = tmp[d]]
                 /\ applied' = [applied EXCEPT ![d] = applied[d] \cup ToSet(batch[p])]
        <5>1. tmp[d] = Fold(mirror[d], batch[p])
          BY <1>0, <2>1, <3>3 DEF MirrorInv
        <5>2. mirror'[d] = tmp[d] /\ applied'[d] = applied[d] \cup ToSet(batch[p])
          BY <1>0, <4>2 DEF TypeOK
        <5>3. applied[d] \in SUBSET Msg
          BY <1>0 DEF TypeOK
        <5>4. NewestOf(Fold(mirror[d], batch[p])[k], applied[d] \cup ToSet(batch[p]), k)
          BY <1>3, <3>1, <3>3, <5>3, FoldNewest
        <5> QED BY <3>3, <5>1, <5>2, <5>4
      <4> QED BY <2>1, <4>1, <4>2
    <3> QED BY <3>2, <3>3
  <2>5. ASSUME NEW q \in Poller, Alone(DeviceOf[q])
        PROVE  /\ pc'[q] \in {"loaded", "written"} => read'[q] = mirror'[DeviceOf[q]]
               /\ pc'[q] = "written" => tmp'[DeviceOf[q]] = Fold(read'[q], batch'[q])
    <3>1. CASE q = p
      BY <1>0, <2>1, <3>1 DEF TypeOK
    <3>2. CASE q # p
      <4>1. DeviceOf[q] # d
        BY <2>5, <3>2, AloneIs
      <4>2. pc'[q] = pc[q] /\ read'[q] = read[q] /\ batch'[q] = batch[q]
            /\ tmp'[DeviceOf[q]] = tmp[DeviceOf[q]] /\ mirror'[DeviceOf[q]] = mirror[DeviceOf[q]]
        BY <1>0, <2>1, <2>3, <3>2, <4>1, PollerAssumption DEF TypeOK
      <4> QED BY <1>0, <2>5, <4>2 DEF MirrorInv
    <3> QED BY <3>1, <3>2
  <2>6. \A q \in Poller : ~(pc[q] = "idle" /\ pc'[q] = "answered")
    BY <1>0, <2>1 DEF TypeOK
  <2> QED BY <1>2, <2>2, <2>4, <2>5, <2>6 DEF MailInv, StoreInv, MirrorInv
<1>7. CASE Abandon(p)
  <2>1. /\ pc' = [pc EXCEPT ![p] = "idle"] /\ batch' = [batch EXCEPT ![p] = <<>>]
        /\ read' = [read EXCEPT ![p] = NoTasks]
        /\ faults < MaxFaults /\ faults' = faults + 1
        /\ UNCHANGED <<tmp, mirror, applied>>
    BY <1>7 DEF Abandon, Goto, Fault
  <2>2. faults' \in 0..MaxFaults
    BY <1>0, <2>1, FaultAssumption DEF TypeOK
  <2>3. TypeOK'
    BY <1>0, <1>1, <1>3, <2>1, <2>2 DEF TypeOK
  <2>4. MirrorNewest'
    BY <1>0, <2>1 DEF MirrorNewest
  <2>5. ASSUME NEW q \in Poller, Alone(DeviceOf[q])
        PROVE  /\ pc'[q] \in {"loaded", "written"} => read'[q] = mirror'[DeviceOf[q]]
               /\ pc'[q] = "written" => tmp'[DeviceOf[q]] = Fold(read'[q], batch'[q])
    BY <1>0, <2>1, <2>5 DEF MirrorInv, TypeOK
  <2>6. \A q \in Poller : ~(pc[q] = "idle" /\ pc'[q] = "answered")
    BY <1>0, <2>1 DEF TypeOK
  <2> QED BY <1>2, <2>3, <2>4, <2>5, <2>6 DEF MailInv, StoreInv, MirrorInv
<1> QED BY <1>4, <1>5, <1>6, <1>7 DEF Mirroring

LEMMA MailNext ==
  ASSUME MailInv, [Next]_vars
  PROVE  /\ MailInv'
         /\ \A p \in Poller : pc[p] = "idle" /\ pc'[p] = "answered" =>
              ToSet(batch'[p]) \cap received[DeviceOf[p]] = {}
<1>1. CASE ResolverRestart \/ \E m \in Msg : Ingest(m) \/ IngestDuplicate(m)
  <2>1. pc' = pc
    BY <1>1 DEF ResolverRestart, Ingest, IngestDuplicate, deviceVars
  <2> QED BY <1>1, <2>1, ResolverStep
<1>2. ASSUME NEW p \in Poller, Poll(p) \/ Mirroring(p) \/ Abandon(p)
      PROVE  /\ MailInv'
             /\ \A q \in Poller : pc[q] = "idle" /\ pc'[q] = "answered" =>
                  ToSet(batch'[q]) \cap received[DeviceOf[q]] = {}
  BY <1>2, PollStep, MirrorStep
<1>3. CASE UNCHANGED vars
  BY <1>3 DEF vars, MailInv, StoreInv, TypeOK, Saved, Marked, MirrorInv, MirrorNewest
<1> QED BY <1>1, <1>2, <1>3 DEF Next

LEMMA MailAlways == Spec => []MailInv
<1>1. MailInv /\ [Next]_vars => MailInv'
  BY MailNext
<1> QED BY <1>1, MailInit, PTL DEF Spec

\* The mailbox holds no message twice, and the rest keeps its type.
THEOREM MailTyped == Spec => []TypeOK
<1>1. MailInv => TypeOK
  BY DEF MailInv, StoreInv
<1> QED BY <1>1, MailAlways, PTL

\* A message that was answered is in the file (routes.rs:22-23, 44-50), for any number of
\* devices, failed saves, lost answers and restarts; all but one that was answered 200 while
\* the file did not have it.
THEOREM AcceptedStays == Spec => []AcceptedIsKept
<1>1. MailInv => AcceptedIsKept
  BY ContainsSet DEF MailInv, StoreInv, Saved, AcceptedIsKept, TypeOK, Store
<1> QED BY <1>1, MailAlways, PTL

\* No message is answered to a device twice (store.rs:94-111), however many of its pollers
\* ask at once and whatever the resolver forgets.
THEOREM NeverTwice == Spec => OnceToADevice
<1>1. MailInv /\ [Next]_vars =>
        [\A p \in Poller :
           pc[p] = "idle" /\ pc'[p] = "answered"
           => ToSet(batch'[p]) \cap received[DeviceOf[p]] = {}]_vars
  BY MailNext
<1> QED BY <1>1, MailAlways, PTL DEF Spec, OnceToADevice

\* The mirror of a device with one poller shows the newest event of a task that it has
\* folded, for any stamps, batches, failures and restarts (external.rs, apply).
THEOREM MirrorStaysNewest == Spec => []MirrorNewest
<1>1. MailInv => MirrorNewest
  BY DEF MailInv, MirrorInv
<1> QED BY <1>1, MailAlways, PTL
=============================================================================
