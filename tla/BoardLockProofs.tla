-------------------------- MODULE BoardLockProofs --------------------------
(***************************************************************************)
(* Theorems about BoardLock, for any set of threads and processes.         *)
(***************************************************************************)
EXTENDS BoardLock, TLAPS

\* The phases of a thread that has filled its lock and not begun to leave.
Inside == {"sweep", "held", "loaded", "staged", "affirmed"}

\* A thread inside holds at least one level: the outermost Leave ends it.
DepthOK == \A t \in Thread : pc[t] \in Inside => depth[t] # 0

TypeInv == TypeOK /\ DepthOK

USE DEF Phase, LockFile, Board, At, Goto, lockVars, fileVars

\* Filling a lock file leaves a lock file, or no file where there was none.
LEMMA FillOfType ==
  ASSUME NEW t \in Thread, NEW f \in LockFile \cup {NoLock}
  PROVE  FillOf(t, f) \in LockFile \cup {NoLock}
  BY DEF FillOf

LEMMA NothingReadType == NothingRead \in Board
  BY DEF NothingRead

LEMMA TypeInvInit == Init => TypeInv
  BY ProcAssumption, BoundAssumption, NothingReadType
     DEF Init, TypeInv, TypeOK, DepthOK, Inside

\* Every step keeps the type invariant: the depth of a nested acquisition
\* stays between 1 and its bound while a thread is inside.
LEMMA TypeInvNext == TypeInv /\ [Next]_vars => TypeInv'
<1> SUFFICES ASSUME TypeInv, [Next]_vars PROVE TypeInv'
  OBVIOUS
<1> USE ProcAssumption, BoundAssumption DEF TypeInv, TypeOK, DepthOK, Inside
<1>1. ASSUME NEW t \in Thread, Attempt(t) PROVE TypeInv'
  BY <1>1 DEF Attempt
<1>2. ASSUME NEW t \in Thread, Create(t) PROVE TypeInv'
  <2>1. CASE lock = NoLock
    <3>1. /\ lock' = [by |-> t, filled |-> FALSE]
          /\ pc' = [pc EXCEPT ![t] = "fill"]
          /\ UNCHANGED <<claim, dead, owner, depth, seen, tmp, view, board, done, stuck>>
      BY <1>2, <2>1 DEF Create
    <3>2. lock' \in LockFile
      BY <3>1
    <3>3. pc' \in [Thread -> Phase]
      BY <3>1
    <3>4. DepthOK'
      BY <3>1
    <3> QED
      BY <3>1, <3>2, <3>3, <3>4
  <2>2. CASE lock # NoLock
    BY <1>2, <2>2 DEF Create
  <2> QED
    BY <2>1, <2>2
<1>3. ASSUME NEW t \in Thread, Fill(t) PROVE TypeInv'
  BY <1>3, FillOfType DEF Fill
<1>4. ASSUME NEW t \in Thread, Sweep(t) PROVE TypeInv'
  BY <1>4 DEF Sweep
<1>5. ASSUME NEW t \in Thread, Inspect(t) PROVE TypeInv'
  <2>1. lock # NoLock => Content(lock) \in SUBSET Thread
    BY DEF Content
  <2>2. CASE StaleLock
    <3>1. /\ seen' = [seen EXCEPT ![t] = Content(lock)]
          /\ pc' = [pc EXCEPT ![t] = "claim"]
          /\ UNCHANGED <<lock, claim, dead, owner, depth, tmp, view, board, done, stuck>>
      BY <1>5, <2>2 DEF Inspect
    <3>2. seen' \in [Thread -> SUBSET Thread] /\ pc' \in [Thread -> Phase]
      BY <2>1, <2>2, <3>1 DEF StaleLock
    <3> QED
      BY <3>1, <3>2
  <2>3. CASE ~StaleLock
    BY <1>5, <2>3 DEF Inspect
  <2> QED
    BY <2>2, <2>3
<1>6. ASSUME NEW t \in Thread, Claim(t) PROVE TypeInv'
  <2>1. CASE lock = NoLock
    BY <1>6, <2>1 DEF Claim
  <2>2. CASE lock # NoLock
    <3>1. /\ claim' = [claim EXCEPT ![ProcOf[t]] = lock]
          /\ lock' = NoLock
          /\ pc' = [pc EXCEPT ![t] = "verify"]
          /\ UNCHANGED <<dead, owner, depth, seen, tmp, view, board, done, stuck>>
      BY <1>6, <2>2 DEF Claim
    <3>2. claim' \in [Proc -> LockFile \cup {NoLock}] /\ pc' \in [Thread -> Phase]
      BY <3>1
    <3> QED
      BY <3>1, <3>2
  <2> QED
    BY <2>1, <2>2
<1>7. ASSUME NEW t \in Thread, Verify(t) PROVE TypeInv'
  BY <1>7 DEF Verify
<1>8. ASSUME NEW t \in Thread, Relink(t) PROVE TypeInv'
  BY <1>8 DEF Relink
<1>9. ASSUME NEW t \in Thread, Discard(t) PROVE TypeInv'
  BY <1>9 DEF Discard
<1>10. ASSUME NEW t \in Thread, Nest(t) PROVE TypeInv'
  BY <1>10 DEF Nest
<1>11. ASSUME NEW t \in Thread, Leave(t) PROVE TypeInv'
  <2>1. depth[t] - 1 \in 0..MaxDepth
    <3>1. depth[t] \in 0..MaxDepth
      OBVIOUS
    <3>2. depth[t] # 0
      BY <1>11 DEF Leave
    <3> HIDE DEF TypeInv, TypeOK, DepthOK
    <3> QED
      BY <3>1, <3>2, BoundAssumption
  <2>2. depth' = [depth EXCEPT ![t] = depth[t] - 1]
    BY <1>11 DEF Leave
  <2>3. CASE depth[t] = 1
    <3>1. /\ depth' = [depth EXCEPT ![t] = @ - 1]
          /\ pc' = [pc EXCEPT ![t] = "release"]
          /\ UNCHANGED <<lock, claim, dead, owner, seen, tmp, view, board, done, stuck>>
      BY <1>11, <2>3 DEF Leave
    <3>2. pc' \in [Thread -> Phase] /\ DepthOK'
      BY <3>1
    <3> QED
      BY <2>1, <2>2, <3>1, <3>2
  <2>4. CASE depth[t] # 1
    BY <1>11, <2>1, <2>2, <2>4 DEF Leave
  <2> QED
    BY <2>3, <2>4
<1>12. ASSUME NEW t \in Thread, Load(t) PROVE TypeInv'
  BY <1>12 DEF Load
<1>13. ASSUME NEW t \in Thread, Skip(t) PROVE TypeInv'
  BY <1>13, NothingReadType DEF Skip, Forget
<1>14. ASSUME NEW t \in Thread, Stage(t) PROVE TypeInv'
  BY <1>14 DEF Stage
<1>15. ASSUME NEW t \in Thread, Reaffirm(t) PROVE TypeInv'
  BY <1>15, NothingReadType DEF Reaffirm, Forget
<1>16. ASSUME NEW t \in Thread, Commit(t) PROVE TypeInv'
  <2>1. pc' \in [Thread -> Phase]
    BY <1>16 DEF Commit
  <2>2. tmp' \in SUBSET Thread /\ board' \in Board /\ done' \in Board
    <3>1. view[t] \in Board
      OBVIOUS
    <3>2. CASE t \in tmp
      <4>1. /\ tmp' = tmp \ {t}
            /\ board' = [view[t] EXCEPT ![t] = @ + 1]
            /\ done' = [done EXCEPT ![t] = @ + 1]
        BY <1>16, <3>2 DEF Commit
      <4> QED
        BY <3>1, <4>1
    <3>3. CASE t \notin tmp
      BY <1>16, <3>3 DEF Commit
    <3> QED
      BY <3>2, <3>3
  <2>3. view' \in [Thread -> Board]
    BY <1>16, NothingReadType DEF Commit, Forget
  <2> QED
    BY <1>16, <2>1, <2>2, <2>3 DEF Commit
<1>17. ASSUME NEW t \in Thread, Release(t) PROVE TypeInv'
  <2>1. pc' \in [Thread -> Phase] /\ owner' \in [Proc -> SUBSET Thread]
    BY <1>17 DEF Release, LeaveFile
  <2>2. stuck' \in SUBSET Thread
    BY <1>17 DEF Release, LeaveFile, NamesProcOf
  <2>3. DepthOK' /\ UNCHANGED <<lock, claim, dead, depth, seen, tmp, view, board, done>>
    BY <1>17 DEF Release, LeaveFile
  <2> QED
    BY <2>1, <2>2, <2>3
<1>18. ASSUME NEW t \in Thread, Unlink(t) PROVE TypeInv'
  <2>1. /\ pc' = [pc EXCEPT ![t] = "idle"]
        /\ owner' = [owner EXCEPT ![ProcOf[t]] = {}]
        /\ UNCHANGED <<claim, dead, depth, seen, tmp, view, board, done>>
        /\ \/ lock' = NoLock /\ stuck' = stuck
           \/ lock' = lock /\ stuck' = IF lock = NoLock THEN stuck ELSE stuck \cup {lock.by}
    <3> HIDE DEF TypeInv, TypeOK, DepthOK, Inside
    <3> QED
      BY <1>18 DEF Unlink, LeaveFile
  <2>2. pc' \in [Thread -> Phase] /\ owner' \in [Proc -> SUBSET Thread] /\ DepthOK'
    BY <2>1
  <2>3. stuck' \in SUBSET Thread /\ lock' \in LockFile \cup {NoLock}
    BY <2>1
  <2> QED
    BY <2>1, <2>2, <2>3
<1>19. ASSUME NEW p \in Proc, Crash(p) PROVE TypeInv'
  BY <1>19, NothingReadType DEF Crash
<1>20. CASE UNCHANGED vars
  BY <1>20 DEF vars
<1> QED
  BY <1>1, <1>2, <1>3, <1>4, <1>5, <1>6, <1>7, <1>8, <1>9, <1>10, <1>11,
     <1>12, <1>13, <1>14, <1>15, <1>16, <1>17, <1>18, <1>19, <1>20
     DEF Next, Step, Acquiring, Stealing, Writing, Leaving

\* The state of the lock protocol stays well-typed, crashes included.
THEOREM TypeCorrect == Spec => []TypeOK
<1>1. TypeInv => TypeOK
  BY DEF TypeInv
<1> QED
  BY <1>1, TypeInvInit, TypeInvNext, PTL DEF Spec

-----------------------------------------------------------------------------
(* Stealing, by any number of threads of any number of processes, with     *)
(* deaths at any step.                                                     *)

\* A stealer that judged a filled lock judged that of a dead process.
SeenDead ==
  \A t \in Thread : seen[t] # {} => \E u \in Thread : seen[t] = {u} /\ ProcOf[u] \in dead

\* No other thread of the process of t is using its claim file.
Alone(t) == \A u \in Thread \ {t} : ProcOf[u] = ProcOf[t] => ~Clearing(u)

\* What a stealer is about to throw away unseen has the content it judged.
ClaimSeen ==
  \A t \in Thread :
    pc[t] = "discard" /\ claim[ProcOf[t]] # NoLock /\ seen[t] # {} /\ Alone(t)
      => Content(claim[ProcOf[t]]) = seen[t]

StealInv == TypeInv /\ SeenDead /\ ClaimSeen

LEMMA StealInvInit == Init => StealInv
  BY TypeInvInit DEF Init, StealInv, SeenDead, ClaimSeen

\* A step that moves no claimed file and no thread into or out of the steal
\* keeps the invariant.
LEMMA StealInvOther ==
  ASSUME StealInv, TypeInv', NEW t \in Thread,
         \A u \in Thread \ {t} : pc'[u] = pc[u],
         ~Clearing(t), ~Clearing(t)',
         UNCHANGED <<claim, dead, seen>>
  PROVE  StealInv'
<1>1. SeenDead'
  BY DEF StealInv, SeenDead
<1>2. \A u \in Thread : Clearing(u)' <=> Clearing(u)
  BY DEF Clearing
<1>3. \A u \in Thread : pc'[u] = "discard" => pc[u] = "discard"
  BY DEF Clearing
<1>4. \A u \in Thread : Alone(u)' => Alone(u)
  BY <1>2 DEF Alone
<1>5. ClaimSeen'
  BY <1>3, <1>4 DEF StealInv, ClaimSeen, Content
<1> QED
  BY <1>1, <1>5 DEF StealInv

LEMMA StealInvNext == StealInv /\ [Next]_vars => StealInv'
<1> SUFFICES ASSUME StealInv, [Next]_vars PROVE StealInv'
  OBVIOUS
<1>0. TypeInv /\ SeenDead /\ ClaimSeen /\ TypeInv'
  BY TypeInvNext DEF StealInv
<1> USE <1>0, ProcAssumption, NoLockAssumption
<1>1. ASSUME NEW t \in Thread, Attempt(t) \/ Create(t) \/ Sweep(t)
      PROVE  StealInv'
  <2>1. /\ \A u \in Thread \ {t} : pc'[u] = pc[u]
        /\ UNCHANGED <<claim, dead, seen>>
        /\ pc[t] \in {"idle", "create", "sweep"}
        /\ pc'[t] \in {"create", "fill", "inspect", "held"}
    BY <1>1 DEF Attempt, Create, Sweep, TypeInv, TypeOK
  <2> QED
    BY <2>1, StealInvOther DEF Clearing
<1>2. ASSUME NEW t \in Thread, Fill(t) PROVE StealInv'
  <2>1. /\ \A p \in Proc : claim'[p] = FillOf(t, claim[p])
        /\ pc' = [pc EXCEPT ![t] = "sweep"] /\ pc[t] = "fill"
        /\ UNCHANGED <<dead, seen>>
    BY <1>2 DEF Fill
  <2>2. \A u \in Thread : /\ Clearing(u)' <=> Clearing(u)
                          /\ pc'[u] = "discard" <=> pc[u] = "discard"
    BY <2>1 DEF Clearing, TypeInv, TypeOK
  <2>3. ASSUME NEW u \in Thread, pc'[u] = "discard", claim'[ProcOf[u]] # NoLock,
               seen'[u] # {}, Alone(u)'
        PROVE  Content(claim'[ProcOf[u]]) = seen'[u]
    <3>1. ProcOf[u] \in Proc /\ claim[ProcOf[u]] \in LockFile \cup {NoLock}
      BY DEF TypeInv, TypeOK
    <3>2. FillOf(t, NoLock) = NoLock
      <4>1. [by |-> t, filled |-> FALSE] \in LockFile
        OBVIOUS
      <4> QED
        BY <4>1 DEF FillOf
    <3>3. claim[ProcOf[u]] # NoLock
      BY <2>1, <2>3, <3>1, <3>2
    <3>4. Alone(u)
      BY <2>2, <2>3 DEF Alone
    <3>5. Content(claim[ProcOf[u]]) = seen[u] /\ seen[u] # {}
      BY <2>1, <2>2, <2>3, <3>3, <3>4 DEF ClaimSeen
    <3>6. claim[ProcOf[u]].filled
      BY <3>5 DEF Content
    <3>7. FillOf(t, claim[ProcOf[u]]) = claim[ProcOf[u]]
      BY <3>6 DEF FillOf
    <3> QED
      BY <2>1, <3>1, <3>5, <3>7
  <2>4. ClaimSeen'
    BY <2>3 DEF ClaimSeen, Content
  <2>5. SeenDead'
    BY <2>1 DEF SeenDead
  <2> QED
    BY <2>4, <2>5 DEF StealInv
<1>3. ASSUME NEW t \in Thread, Inspect(t) PROVE StealInv'
  <2>1. CASE StaleLock
    <3>1. /\ seen' = [seen EXCEPT ![t] = Content(lock)]
          /\ pc' = [pc EXCEPT ![t] = "claim"] /\ pc[t] = "inspect"
          /\ UNCHANGED <<lock, claim, dead>>
      BY <1>3, <2>1 DEF Inspect
    <3>2. Content(lock) # {} => /\ Content(lock) = {lock.by} /\ lock.by \in Thread
                                /\ ProcOf[lock.by] \in dead
      BY <2>1 DEF StaleLock, Content, TypeInv, TypeOK
    <3>3. SeenDead'
      <4>1. \A u \in Thread : seen'[u] = IF u = t THEN Content(lock) ELSE seen[u]
        BY <3>1 DEF TypeInv, TypeOK
      <4> QED
        BY <3>1, <3>2, <4>1 DEF SeenDead
    <3>4. \A u \in Thread : Clearing(u)' <=> Clearing(u)
      BY <3>1 DEF Clearing, TypeInv, TypeOK
    <3>5. \A u \in Thread : pc'[u] = "discard" => pc[u] = "discard" /\ seen'[u] = seen[u]
      BY <3>1 DEF TypeInv, TypeOK
    <3>6. ClaimSeen'
      BY <3>1, <3>4, <3>5 DEF ClaimSeen, Alone, Content
    <3> QED
      BY <3>3, <3>6 DEF StealInv
  <2>2. CASE ~StaleLock
    <3>1. /\ \A u \in Thread \ {t} : pc'[u] = pc[u]
          /\ UNCHANGED <<claim, dead, seen>> /\ pc[t] = "inspect" /\ pc'[t] = "idle"
      BY <1>3, <2>2 DEF Inspect, TypeInv, TypeOK
    <3> QED
      BY <3>1, StealInvOther DEF Clearing
  <2> QED
    BY <2>1, <2>2
<1>4. ASSUME NEW t \in Thread, Claim(t) PROVE StealInv'
  <2>1. CASE lock # NoLock
    <3>1. /\ claim' = [claim EXCEPT ![ProcOf[t]] = lock]
          /\ pc' = [pc EXCEPT ![t] = "verify"] /\ pc[t] = "claim"
          /\ UNCHANGED <<dead, seen>>
      BY <1>4, <2>1 DEF Claim
    <3>2. SeenDead'
      BY <3>1 DEF SeenDead
    <3>3. ASSUME NEW u \in Thread, pc'[u] = "discard", Alone(u)'
          PROVE  /\ pc[u] = "discard" /\ Alone(u)
                 /\ claim'[ProcOf[u]] = claim[ProcOf[u]]
      <4>1. u # t /\ pc[u] = "discard"
        BY <3>1, <3>3 DEF TypeInv, TypeOK
      <4>2. Clearing(t)'
        BY <3>1 DEF Clearing, TypeInv, TypeOK
      <4>3. ProcOf[t] # ProcOf[u]
        BY <3>3, <4>1, <4>2 DEF Alone
      <4>4. Alone(u)
        BY <3>1, <3>3 DEF Alone, Clearing, TypeInv, TypeOK
      <4> QED
        BY <3>1, <4>1, <4>3, <4>4 DEF TypeInv, TypeOK
    <3>4. ClaimSeen'
      BY <3>1, <3>3 DEF ClaimSeen, Content
    <3> QED
      BY <3>2, <3>4 DEF StealInv
  <2>2. CASE lock = NoLock
    <3>1. /\ seen' = [seen EXCEPT ![t] = {}]
          /\ pc' = [pc EXCEPT ![t] = "idle"] /\ pc[t] = "claim"
          /\ UNCHANGED <<claim, dead>>
      BY <1>4, <2>2 DEF Claim
    <3>2. SeenDead'
      <4>1. \A u \in Thread : seen'[u] = IF u = t THEN {} ELSE seen[u]
        BY <3>1 DEF TypeInv, TypeOK
      <4> QED
        BY <3>1, <4>1 DEF SeenDead
    <3>3. \A u \in Thread : Clearing(u)' <=> Clearing(u)
      BY <3>1 DEF Clearing, TypeInv, TypeOK
    <3>4. \A u \in Thread : pc'[u] = "discard" => pc[u] = "discard" /\ seen'[u] = seen[u]
      BY <3>1 DEF TypeInv, TypeOK
    <3>5. ClaimSeen'
      BY <3>1, <3>3, <3>4 DEF ClaimSeen, Alone, Content
    <3> QED
      BY <3>2, <3>5 DEF StealInv
  <2> QED
    BY <2>1, <2>2
<1>5. ASSUME NEW t \in Thread, Verify(t) PROVE StealInv'
  <2>1. \/ /\ pc' = [pc EXCEPT ![t] = "discard"]
           /\ Content(claim[ProcOf[t]]) = seen[t]
        \/ pc' = [pc EXCEPT ![t] = "relink"]
    BY <1>5 DEF Verify
  <2>2. pc[t] = "verify" /\ UNCHANGED <<lock, claim, dead, seen>>
    BY <1>5 DEF Verify
  <2>3. SeenDead'
    BY <2>2 DEF SeenDead
  <2>4. \A u \in Thread : Clearing(u)' <=> Clearing(u)
    BY <2>1, <2>2 DEF Clearing, TypeInv, TypeOK
  <2>5. \A u \in Thread : pc'[u] = "discard" =>
          pc[u] = "discard" \/ Content(claim[ProcOf[u]]) = seen[u]
    BY <2>1 DEF TypeInv, TypeOK
  <2>6. ClaimSeen'
    BY <2>2, <2>4, <2>5 DEF ClaimSeen, Alone, Content
  <2> QED
    BY <2>3, <2>6 DEF StealInv
<1>6. ASSUME NEW t \in Thread, Relink(t) PROVE StealInv'
  <2>1. /\ pc' = [pc EXCEPT ![t] = "forget"] /\ pc[t] = "relink"
        /\ UNCHANGED <<claim, dead, seen>>
    BY <1>6 DEF Relink
  <2>2. \A u \in Thread : /\ Clearing(u)' <=> Clearing(u)
                          /\ pc'[u] = "discard" => pc[u] = "discard"
    BY <2>1 DEF Clearing, TypeInv, TypeOK
  <2> QED
    BY <2>1, <2>2 DEF StealInv, SeenDead, ClaimSeen, Alone, Content
<1>7. ASSUME NEW t \in Thread, Discard(t) PROVE StealInv'
  <2>1. /\ claim' = [claim EXCEPT ![ProcOf[t]] = NoLock]
        /\ seen' = [seen EXCEPT ![t] = {}]
        /\ pc' = [pc EXCEPT ![t] = "idle"]
        /\ UNCHANGED dead
    BY <1>7 DEF Discard
  <2>2. SeenDead'
    <3>1. \A u \in Thread : seen'[u] = IF u = t THEN {} ELSE seen[u]
      BY <2>1 DEF TypeInv, TypeOK
    <3> QED
      BY <2>1, <3>1 DEF SeenDead
  <2>3. ASSUME NEW u \in Thread, pc'[u] = "discard", claim'[ProcOf[u]] # NoLock, Alone(u)'
        PROVE  /\ pc[u] = "discard" /\ Alone(u) /\ seen'[u] = seen[u]
               /\ claim'[ProcOf[u]] = claim[ProcOf[u]]
    <3>1. u # t /\ pc[u] = "discard"
      BY <2>1, <2>3 DEF TypeInv, TypeOK
    <3>2. ProcOf[u] # ProcOf[t]
      BY <2>1, <2>3 DEF TypeInv, TypeOK
    <3>3. Alone(u)
      BY <2>1, <2>3, <3>2 DEF Alone, Clearing, TypeInv, TypeOK
    <3> QED
      BY <2>1, <3>1, <3>2, <3>3 DEF TypeInv, TypeOK
  <2>4. ClaimSeen'
    BY <2>1, <2>3 DEF ClaimSeen, Content
  <2> QED
    BY <2>2, <2>4 DEF StealInv
<1>8. ASSUME NEW t \in Thread, Writing(t) \/ Nest(t) \/ Leaving(t)
      PROVE  StealInv'
  <2>1. /\ \A u \in Thread \ {t} : pc'[u] = pc[u]
        /\ UNCHANGED <<claim, dead, seen>>
        /\ ~Clearing(t) /\ ~Clearing(t)'
    <3>1. CASE Load(t) \/ Skip(t) \/ Stage(t)
      BY <3>1 DEF Load, Skip, Stage, Clearing, TypeInv, TypeOK
    <3>2. CASE Reaffirm(t)
      BY <3>2 DEF Reaffirm, Clearing, TypeInv, TypeOK
    <3>3. CASE Commit(t)
      BY <3>3 DEF Commit, Clearing, TypeInv, TypeOK
    <3>4. CASE Nest(t) \/ Leave(t)
      BY <3>4 DEF Nest, Leave, Clearing, TypeInv, TypeOK
    <3>5. CASE Release(t) \/ Unlink(t)
      BY <3>5 DEF Release, Unlink, LeaveFile, Clearing, TypeInv, TypeOK
    <3> QED
      BY <1>8, <3>1, <3>2, <3>3, <3>4, <3>5 DEF Writing, Leaving
  <2> QED
    BY <2>1, StealInvOther
<1>9. ASSUME NEW p \in Proc, Crash(p) PROVE StealInv'
  <2>1. /\ \A t \in Thread : seen'[t] = seen[t] \/ seen'[t] = {}
        /\ dead \subseteq dead' /\ UNCHANGED claim
        /\ \A t \in Thread : pc'[t] = "discard" =>
              ProcOf[t] # p /\ pc[t] = "discard" /\ seen'[t] = seen[t]
        /\ \A t \in Thread : ProcOf[t] # p => pc'[t] = pc[t]
    BY <1>9 DEF Crash
  <2>2. SeenDead'
    BY <2>1 DEF SeenDead
  <2>3. \A t \in Thread : pc'[t] = "discard" /\ Alone(t)' => Alone(t)
    BY <2>1 DEF Alone, Clearing
  <2>4. ClaimSeen'
    BY <2>1, <2>3 DEF ClaimSeen, Content
  <2> QED
    BY <2>2, <2>4 DEF StealInv
<1>10. CASE UNCHANGED vars
  BY <1>10 DEF vars, StealInv, SeenDead, ClaimSeen, Alone, Clearing, Content
<1> QED
  BY <1>1, <1>2, <1>3, <1>4, <1>5, <1>6, <1>7, <1>8, <1>9, <1>10
     DEF Next, Step, Acquiring, Stealing

\* Whoever steals, however many processes die and wherever they die: a stealer
\* throws away the lock of a live process only if what it judged stale was an
\* empty file, or another thread of its own process is using the same claim
\* file (board-lock.mjs:111-135, remove_stale of board_lock.rs).
THEOREM StealSafe == Spec => StealSparesLive
<1>1. StealInv /\ [Next]_vars => [\A t \in Thread : SparesLive(t)]_vars
  <2> SUFFICES ASSUME StealInv, NEW t \in Thread, pc[t] = "discard",
                      claim[ProcOf[t]] # NoLock, seen[t] # {},
                      \A u \in Thread \ {t} : ProcOf[u] = ProcOf[t] => ~Clearing(u)
               PROVE  ProcOf[claim[ProcOf[t]].by] \in dead
    BY DEF SparesLive
  <2>1. PICK u \in Thread : seen[t] = {u} /\ ProcOf[u] \in dead
    BY DEF StealInv, SeenDead
  <2>2. Content(claim[ProcOf[t]]) = {u}
    BY <2>1 DEF StealInv, ClaimSeen, Alone
  <2> QED
    BY <2>1, <2>2 DEF Content
<1> QED
  BY <1>1, StealInvInit, StealInvNext, PTL DEF Spec, StealSparesLive

-----------------------------------------------------------------------------
(* Mutual exclusion and the board, until a process dies: no lock is stale, *)
(* and the lock file names the one thread inside, also when it could not   *)
(* be removed.                                                             *)

Stealers == {"claim", "verify", "relink", "discard", "forget"}
Holders == Inside \cup {"release", "unlink"}

\* The lock file tells exactly who is filling it and who holds it.
LockNames ==
  /\ \A t \in Thread : pc[t] = "fill" => lock = [by |-> t, filled |-> FALSE]
  /\ \A t \in Thread : pc[t] \in Holders => lock = [by |-> t, filled |-> TRUE]
  /\ lock # NoLock => pc[lock.by] \in Holders \cup {"fill"} \/ lock.by \in stuck

\* What a holder is about to write was read from the board as it still is.
ViewFresh ==
  \A t \in Thread : pc[t] \in {"loaded", "staged", "affirmed"} => view[t] = board

CalmInv ==
  /\ TypeInv
  /\ dead = {} /\ claim = [p \in Proc |-> NoLock]
  /\ \A t \in Thread : pc[t] \notin Stealers
  /\ LockNames /\ ViewFresh /\ board = done

LEMMA CalmInvInit == Init => CalmInv
  BY TypeInvInit
     DEF Init, CalmInv, LockNames, ViewFresh, Inside, Holders, Stealers

\* The lock file names one thread, so at most one is inside.
LEMMA CalmExclusion == CalmInv => MutualExclusion
  BY DEF CalmInv, LockNames, MutualExclusion, Believers, Holders, Inside

\* A thread filling or holding the lock finds its own file under its name.
LEMMA CalmHolder ==
  ASSUME CalmInv, NEW t \in Thread, pc[t] \in Holders \cup {"fill"}
  PROVE  lock # NoLock /\ lock.by = t
<1>1. PICK b \in BOOLEAN : lock = [by |-> t, filled |-> b]
  BY DEF CalmInv, LockNames
<1> QED
  BY <1>1, NoLockAssumption

LEMMA CalmInvNext ==
  ASSUME dead' = {}, CalmInv, [Next]_vars
  PROVE  CalmInv'
<1>0. TypeInv'
  BY TypeInvNext DEF CalmInv
<1> USE <1>0, ProcAssumption, NoLockAssumption
        DEF CalmInv, LockNames, ViewFresh, Inside, Holders,
            Stealers, TypeInv, TypeOK
<1>1. ASSUME NEW t \in Thread, Attempt(t) PROVE CalmInv'
  BY <1>1 DEF Attempt
<1>2. ASSUME NEW t \in Thread, Create(t) PROVE CalmInv'
  <2>1. CASE lock = NoLock
    <3>1. /\ lock' = [by |-> t, filled |-> FALSE]
          /\ pc' = [pc EXCEPT ![t] = "fill"]
          /\ UNCHANGED <<claim, dead, owner, depth, seen, tmp, view, board, done, stuck>>
      BY <1>2, <2>1 DEF Create
    <3>2. \A u \in Thread : pc[u] \notin Holders \cup {"fill"}
      BY <2>1, CalmHolder
    <3>3. LockNames'
      <4>1. \A u \in Thread : pc'[u] \in Holders \cup {"fill"} => u = t
        BY <3>1, <3>2
      <4>2. lock'.by = t /\ pc'[t] = "fill"
        BY <3>1
      <4> QED
        BY <3>1, <4>1, <4>2
    <3>4. ViewFresh' /\ board' = done' /\ dead' = {} /\ claim' = [p \in Proc |-> NoLock]
      BY <3>1
    <3>5. \A u \in Thread : pc'[u] \notin Stealers
      BY <3>1
    <3> QED
      BY <3>3, <3>4, <3>5
  <2>2. CASE lock # NoLock
    BY <1>2, <2>2 DEF Create
  <2> QED
    BY <2>1, <2>2
<1>3. ASSUME NEW t \in Thread, Fill(t) PROVE CalmInv'
  <2>1. lock = [by |-> t, filled |-> FALSE]
    BY <1>3 DEF Fill
  <2>2. /\ lock' = [by |-> t, filled |-> TRUE]
        /\ pc' = [pc EXCEPT ![t] = "sweep"]
        /\ UNCHANGED <<dead, seen, tmp, view, board, done, stuck>>
    BY <1>3, <2>1 DEF Fill, FillOf
  <2>3. claim' = [p \in Proc |-> NoLock]
    <3>1. FillOf(t, NoLock) = NoLock
      <4>1. [by |-> t, filled |-> FALSE] \in LockFile
        OBVIOUS
      <4> QED
        BY <4>1 DEF FillOf
    <3> QED
      BY <1>3, <3>1 DEF Fill
  <2>4. LockNames'
    <3>1. \A u \in Thread : pc[u] \in Holders \cup {"fill"} => u = t
      BY <2>1, CalmHolder
    <3>2. \A u \in Thread : pc'[u] \in Holders \cup {"fill"} => u = t
      BY <2>2, <3>1
    <3>3. lock'.by = t /\ pc'[t] = "sweep"
      BY <2>2
    <3> QED
      BY <2>2, <3>2, <3>3
  <2>5. ViewFresh' /\ board' = done' /\ \A u \in Thread : pc'[u] \notin Stealers
    BY <2>2
  <2> QED
    BY <2>2, <2>3, <2>4, <2>5
<1>4. ASSUME NEW t \in Thread, Sweep(t) PROVE CalmInv'
  BY <1>4 DEF Sweep
<1>5. ASSUME NEW t \in Thread, Inspect(t) PROVE CalmInv'
  BY <1>5 DEF Inspect, StaleLock
<1>6. ASSUME NEW t \in Thread, Stealing(t) PROVE CalmInv'
  BY <1>6 DEF Stealing, Claim, Verify, Relink, Discard
<1>7. ASSUME NEW t \in Thread, Nest(t) \/ Leave(t) PROVE CalmInv'
  BY <1>7 DEF Nest, Leave
<1>8. ASSUME NEW t \in Thread, Load(t) PROVE CalmInv'
  BY <1>8 DEF Load
<1>9. ASSUME NEW t \in Thread, Skip(t) PROVE CalmInv'
  BY <1>9 DEF Skip, Forget
<1>10. ASSUME NEW t \in Thread, Stage(t) PROVE CalmInv'
  BY <1>10 DEF Stage
<1>11. ASSUME NEW t \in Thread, Reaffirm(t) PROVE CalmInv'
  BY <1>11 DEF Reaffirm, Forget
<1>12. ASSUME NEW t \in Thread, Commit(t) PROVE CalmInv'
  <2>1. view[t] = board /\ lock = [by |-> t, filled |-> TRUE]
    BY <1>12 DEF Commit
  <2>2. \A u \in Thread : u # t => pc[u] \notin Holders \cup {"fill"}
    BY <1>12, CalmHolder DEF Commit
  <2>3. /\ pc' = [pc EXCEPT ![t] = "held"]
        /\ UNCHANGED <<lock, claim, dead, owner, depth, seen, stuck>>
        /\ \A u \in Thread \ {t} : view'[u] = view[u]
    BY <1>12 DEF Commit, Forget
  <2>4. \A u \in Thread : pc'[u] = IF u = t THEN "held" ELSE pc[u]
    BY <2>3
  <2>5. LockNames'
    <3>1. \A u \in Thread : pc'[u] \in Holders \cup {"fill"} => u = t
      BY <2>2, <2>4
    <3>2. lock' = [by |-> t, filled |-> TRUE] /\ pc'[t] = "held"
      BY <2>1, <2>3, <2>4
    <3>3. lock'.by = t
      BY <3>2
    <3> QED
      BY <3>1, <3>2, <3>3
  <2>6. ViewFresh' /\ \A u \in Thread : pc'[u] \notin Stealers
    BY <2>2, <2>3, <2>4
  <2>7. CASE t \in tmp
    <3>1. board' = [board EXCEPT ![t] = @ + 1] /\ done' = [done EXCEPT ![t] = @ + 1]
      BY <1>12, <2>1, <2>7 DEF Commit
    <3> QED
      BY <2>3, <2>5, <2>6, <3>1
  <2>8. CASE t \notin tmp
    BY <1>12, <2>3, <2>5, <2>6, <2>8 DEF Commit
  <2> QED
    BY <2>7, <2>8
<1>13. ASSUME NEW t \in Thread, Release(t) PROVE CalmInv'
  <2>1. lock = [by |-> t, filled |-> TRUE] /\ lock # NoLock /\ lock.by = t
    BY <1>13, CalmHolder DEF Release
  <2>2. NamesProcOf(t)
    BY <2>1 DEF NamesProcOf
  <2>3. CASE /\ pc' = [pc EXCEPT ![t] = "unlink"]
             /\ UNCHANGED <<lock, claim, dead, tmp, view, board, done, stuck>>
    <3>1. LockNames'
      <4>1. \A u \in Thread : pc[u] \in Holders \cup {"fill"} => u = t
        BY <2>1, CalmHolder
      <4>2. \A u \in Thread : pc'[u] = IF u = t THEN "unlink" ELSE pc[u]
        BY <2>3
      <4>3. lock' = [by |-> t, filled |-> TRUE] /\ lock'.by = t
        BY <2>1, <2>3
      <4> QED
        BY <4>1, <4>2, <4>3
    <3>2. ViewFresh' /\ board' = done' /\ \A u \in Thread : pc'[u] \notin Stealers
      BY <2>3
    <3> QED
      BY <2>3, <3>1, <3>2
  <2>4. CASE LeaveFile(t) /\ stuck' = stuck \cup {t}
    BY <1>13, <2>1, <2>4 DEF LeaveFile
  <2>5. \/ /\ pc' = [pc EXCEPT ![t] = "unlink"]
           /\ UNCHANGED <<lock, claim, dead, tmp, view, board, done, stuck>>
        \/ LeaveFile(t) /\ stuck' = stuck \cup {t}
    <3> HIDE DEF CalmInv, LockNames, ViewFresh, Inside, Holders, Stealers, TypeInv, TypeOK
    <3> QED
      BY <1>13, <2>1, <2>2 DEF Release
  <2> QED
    BY <2>3, <2>4, <2>5
<1>14. ASSUME NEW t \in Thread, Unlink(t) PROVE CalmInv'
  <2>1. lock = [by |-> t, filled |-> TRUE] /\ lock # NoLock /\ lock.by = t
    BY <1>14, CalmHolder DEF Unlink
  <2>2. \A u \in Thread : u # t => pc[u] \notin Holders \cup {"fill"}
    BY <2>1, CalmHolder
  <2>3. CASE /\ lock' = NoLock /\ pc' = [pc EXCEPT ![t] = "idle"]
             /\ UNCHANGED <<claim, dead, tmp, view, board, done>>
    BY <2>2, <2>3
  <2>4. CASE LeaveFile(t) /\ stuck' = stuck \cup {t}
    BY <2>1, <2>4 DEF LeaveFile
  <2> QED
    BY <1>14, <2>1, <2>3, <2>4 DEF Unlink
<1>15. CASE UNCHANGED vars
  BY <1>15 DEF vars
<1>16. \A p \in Proc : ~Crash(p)
  BY DEF Crash
<1> QED
  BY <1>1, <1>2, <1>3, <1>4, <1>5, <1>6, <1>7, <1>8, <1>9, <1>10, <1>11,
     <1>12, <1>13, <1>14, <1>15, <1>16
     DEF Next, Step, Acquiring, Writing, Leaving

\* Only a death changes the set of the dead, and adds to it.
LEMMA DeadGrow ==
  ASSUME [Next]_vars
  PROVE  UNCHANGED dead \/ \E p \in Proc : Crash(p) /\ p \in dead'
<1>1. ASSUME NEW t \in Thread, Acquiring(t) \/ Stealing(t) \/ Nest(t)
      PROVE  UNCHANGED dead
  BY <1>1 DEF Acquiring, Attempt, Create, Fill, Sweep, Inspect, Stealing,
              Claim, Verify, Relink, Discard, Nest
<1>2. ASSUME NEW t \in Thread, Writing(t) \/ Leaving(t)
      PROVE  UNCHANGED dead
  BY <1>2 DEF Writing, Load, Skip, Stage, Reaffirm, Commit,
              Leaving, Leave, Release, Unlink, LeaveFile
<1>3. ASSUME NEW p \in Proc, Crash(p) PROVE p \in dead'
  BY <1>3 DEF Crash
<1>4. CASE UNCHANGED vars
  BY <1>4 DEF vars
<1> QED
  BY <1>1, <1>2, <1>3, <1>4 DEF Next, Step

\* The dead do not come back, so until the first death the invariant holds.
LEMMA CalmUntilDeath == (dead = {} => CalmInv) /\ [Next]_vars => (dead = {} => CalmInv)'
<1> SUFFICES ASSUME dead = {} => CalmInv, [Next]_vars, dead' = {} PROVE CalmInv'
  OBVIOUS
<1>1. dead = {}
  BY DeadGrow
<1> QED
  BY <1>1, CalmInvNext

\* Until the first death, at most one thread of all the processes is ever
\* inside the read-modify-write of the board, whatever removals fail.
THEOREM LockExcludes == Spec => [](dead = {} => MutualExclusion)
<1>1. (dead = {} => CalmInv) => (dead = {} => MutualExclusion)
  BY CalmExclusion
<1> QED
  BY <1>1, CalmInvInit, CalmUntilDeath, PTL DEF Spec

\* Until the first death, no write that was carried out is ever missing from
\* the board.
THEOREM NothingLost == Spec => [](dead = {} => NoLostUpdate)
<1>1. (dead = {} => CalmInv) => (dead = {} => NoLostUpdate)
  BY DEF CalmInv, NoLostUpdate
<1> QED
  BY <1>1, CalmInvInit, CalmUntilDeath, PTL DEF Spec

\* Until the first death, a lock that is there has its holder: a thread of the
\* process it names is filling it, inside, or about to remove it, unless a
\* removal failed.
THEOREM HolderBehindLock == Spec => [](dead = {} => LockHasHolder)
<1>1. ASSUME CalmInv PROVE LockHasHolder
  <2> SUFFICES ASSUME lock # NoLock, lock.by \notin stuck
               PROVE  \E t \in Thread :
                        /\ ProcOf[t] = ProcOf[lock.by]
                        /\ pc[t] \notin {"idle", "create", "inspect", "claim",
                                         "verify", "relink", "discard", "forget"}
    BY DEF LockHasHolder
  <2>1. pc[lock.by] \in Holders \cup {"fill"}
    BY <1>1 DEF CalmInv, LockNames
  <2>2. lock.by \in Thread
    BY <1>1 DEF CalmInv, TypeInv, TypeOK
  <2> QED
    BY <2>1, <2>2 DEF Holders, Inside
<1>2. (dead = {} => CalmInv) => (dead = {} => LockHasHolder)
  BY <1>1
<1> QED
  BY <1>2, CalmInvInit, CalmUntilDeath, PTL DEF Spec

\* A step of the protocol leaves the board alone or is one write of BoardStore:
\* only Commit touches it, with a view that is still the board.
LEMMA CalmStep ==
  ASSUME CalmInv, [Next]_vars
  PROVE  [Store!Next]_(Store!vars)
<1> USE DEF Store!Next, Store!Write, Store!vars
<1>1. ASSUME NEW t \in Thread, Commit(t) PROVE [Store!Next]_(Store!vars)
  BY <1>1 DEF Commit, CalmInv, ViewFresh
<1>2. ASSUME NEW t \in Thread, Acquiring(t) \/ Stealing(t) \/ Nest(t)
      PROVE  UNCHANGED <<board, done>>
  BY <1>2 DEF Acquiring, Attempt, Create, Fill, Sweep, Inspect, Stealing,
              Claim, Verify, Relink, Discard, Nest
<1>3. ASSUME NEW t \in Thread,
             Load(t) \/ Skip(t) \/ Stage(t) \/ Reaffirm(t) \/ Leaving(t)
      PROVE  UNCHANGED <<board, done>>
  BY <1>3 DEF Load, Skip, Stage, Reaffirm, Leaving, Leave, Release, Unlink, LeaveFile
<1>4. ASSUME NEW p \in Proc, Crash(p) PROVE UNCHANGED <<board, done>>
  BY <1>4 DEF Crash
<1>5. CASE UNCHANGED vars
  BY <1>5 DEF vars
<1> QED
  BY <1>1, <1>2, <1>3, <1>4, <1>5 DEF Next, Step, Writing

\* As long as no process dies, the lock, the fence and the rename implement
\* the atomic board of BoardStore.
THEOREM LockImplementsStore ==
  ASSUME Crashable = {}
  PROVE  Spec => ImplementsStore
<1>1. CalmInv /\ [Next]_vars => CalmInv'
  <2> SUFFICES ASSUME CalmInv, [Next]_vars PROVE CalmInv'
    OBVIOUS
  <2>1. dead' = {}
    BY DeadGrow DEF Crash, CalmInv
  <2> QED
    BY <2>1, CalmInvNext
<1>2. Init => Store!Init
  BY DEF Init, Store!Init
<1>3. CalmInv /\ [Next]_vars => [Store!Next]_(Store!vars)
  BY CalmStep
<1> QED
  BY <1>1, <1>2, <1>3, CalmInvInit, PTL DEF Spec, ImplementsStore, Store!Spec
=============================================================================
