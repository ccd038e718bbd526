-------------------------- MODULE UsageLoopProofs --------------------------
(***************************************************************************)
(* Proofs about UsageLoop: the poll loop starts a window at most once and  *)
(* gives up in time, and its alerts grow more severe until the window is   *)
(* reset.                                                                  *)
(*                                                                         *)
(* The loop has two memories of its starts: the window it sees on the      *)
(* server, which an answer that was lost does not hide, and the attempt of *)
(* the phase, which counts along with the tries.  The invariant says how   *)
(* far each can be from the truth at every point of a cycle.               *)
(*                                                                         *)
(* The alert engine remembers a level and whether the limit was told; the  *)
(* second invariant says that this outranks all it has raised.             *)
(***************************************************************************)
EXTENDS UsageLoop, TLAPS

Types ==
  /\ server \in Sample /\ sample \in Sample
  /\ mine \in Settings /\ cfg \in Settings
  /\ ctx \in Context
  /\ pc \in {"sleep", "fetch", "judge", "resolve", "start"}
  /\ served \in Nat /\ tries \in Nat

\* A start that was carried out is a window on the server; the loop sees it before it
\* may try again.
Seen ==
  /\ served <= 1
  /\ served > 0 => server.active
  /\ served > 0 /\ pc = "judge" => sample.active
  /\ pc \in {"resolve", "start"} => served = 0

\* The attempt counts the tries, the one under way included.
Counted ==
  /\ pc \in {"resolve", "start"} => ctx.attempt > 0
  /\ ctx.done => ctx.attempt = 0 /\ tries <= MaxAttempts
  /\ ctx.attempt = 0 /\ ~ctx.done => tries = 0
  /\ ctx.attempt > 0 =>
       tries = IF pc \in {"resolve", "start"} THEN ctx.attempt ELSE ctx.attempt - 1

StartInv == Types /\ Seen /\ Counted

USE DEF vars, loopVars, alertVars, countVars, bounds

LEMMA StartInitInv == Init => StartInv
<1> SUFFICES ASSUME Init PROVE StartInv
  OBVIOUS
<1>1. Types
  BY BoundsAssumption DEF Init, Types, NoUsage, Sample, Pct, Settings, Context, Idle
<1>2. Seen
  BY DEF Init, Seen
<1>3. Counted
  BY DEF Init, Counted, Idle
<1> QED BY <1>1, <1>2, <1>3 DEF StartInv

\* The server carries a start out.
LEMMA ServeTypes ==
  ASSUME Types, Serve
  PROVE  server' \in Sample /\ server'.active /\ served' = served + 1 /\ served' \in Nat
<1>1. server' = [server EXCEPT !.active = TRUE] /\ served' = served + 1
  BY DEF Serve
<1>2. server \in Sample /\ served \in Nat
  BY DEF Types
<1>3. server' \in Sample /\ server'.active
  BY <1>1, <1>2 DEF Sample
<1> QED BY <1>1, <1>2, <1>3

\* auto_start returned false (lib.rs, the retry or the end of it).
LEMMA FailedInv ==
  ASSUME StartInv, pc \in {"resolve", "start"}, Failed, UNCHANGED <<cfg, mine, sample, tries>>,
         \/ UNCHANGED <<server, served>>
         \/ Serve
  PROVE  StartInv'
<1> USE DEF StartInv
<1>1. ctx \in Context /\ ctx.attempt \in 0..MaxAttempts /\ ctx.attempt > 0 /\ ~ctx.done
  BY DEF Types, Context, Counted
<1>2. ctx' \in Context
  <2>1. CASE ctx.attempt >= MaxAttempts
    BY <2>1, BoundsAssumption DEF Failed, Idle, Context
  <2>2. CASE ~(ctx.attempt >= MaxAttempts)
    <3>1. ctx.attempt + 1 \in 0..MaxAttempts
      BY <1>1, <2>2, BoundsAssumption
    <3>2. ctx' = [ctx EXCEPT !.attempt = @ + 1, !.due = FALSE]
      BY <2>2 DEF Failed
    <3> QED BY <1>1, <3>1, <3>2 DEF Context
  <2> QED BY <2>1, <2>2
<1>3. Types'
  BY <1>2, ServeTypes DEF Types, Failed
<1>4. Seen'
  BY ServeTypes DEF Types, Seen, Failed
<1>5. Counted'
  BY <1>1, BoundsAssumption DEF Types, Counted, Failed, Idle, Context
<1> QED BY <1>3, <1>4, <1>5

\* The branch of a cycle that judged the sample.
LEMMA JudgeInv == ASSUME StartInv, Judge PROVE StartInv'
<1> USE DEF StartInv
<1>1. /\ pc = "judge" /\ JudgeStart
      /\ UNCHANGED <<cfg, mine, sample, server, served>>
  BY DEF Judge
<1>2. Types /\ ctx.attempt \in 0..MaxAttempts /\ ctx.done \in BOOLEAN /\ ctx.due \in BOOLEAN
  BY DEF Types, Context
<1>3. CASE ~mine.auto \/ sample.active
  <2>1. pc' = "sleep" /\ ctx' = Idle(FALSE) /\ tries' = 0
    BY <1>1, <1>3 DEF JudgeStart
  <2> QED BY <1>1, <1>2, <2>1, BoundsAssumption DEF Types, Seen, Counted, Idle, Context
<1>4. CASE mine.auto /\ ~sample.active /\ ctx.done
  <2>1. pc' = "sleep" /\ UNCHANGED <<ctx, tries>>
    BY <1>1, <1>4 DEF JudgeStart
  <2> QED BY <1>1, <1>2, <2>1 DEF Types, Seen, Counted
<1>5. CASE mine.auto /\ ~sample.active /\ ~ctx.done /\ (ctx.attempt = 0 \/ ~ctx.due)
  <2>1. /\ pc' = "sleep" /\ tries' = tries
        /\ ctx' = [ctx EXCEPT !.attempt = IF @ = 0 THEN 1 ELSE @]
    BY <1>1, <1>5 DEF JudgeStart, Countdown
  <2>2. ctx' \in Context /\ ctx'.done = ctx.done
        /\ ctx'.attempt = IF ctx.attempt = 0 THEN 1 ELSE ctx.attempt
    BY <1>2, <2>1, BoundsAssumption DEF Types, Context
  <2> QED BY <1>1, <1>2, <1>5, <2>1, <2>2 DEF Types, Seen, Counted
<1>6. CASE mine.auto /\ ~sample.active /\ ~ctx.done /\ ctx.attempt > 0 /\ ctx.due
  <2>1. pc' \in {"start", "resolve"} /\ ctx' = ctx /\ tries' = tries + 1
    <3>1. ctx.attempt # 0
      BY <1>2, <1>6
    <3> QED BY <1>1, <1>6, <3>1 DEF JudgeStart, Countdown
  <2>2. served = 0
    BY <1>1, <1>2, <1>6 DEF Seen, Types
  <2> QED BY <1>1, <1>2, <1>6, <2>1, <2>2 DEF Types, Seen, Counted
<1> QED
  BY <1>2, <1>3, <1>4, <1>5, <1>6

LEMMA StartStepInv == StartInv /\ [Next]_vars => StartInv'
<1> SUFFICES ASSUME StartInv, [Next]_vars PROVE StartInv'
  OBVIOUS
<1> USE DEF StartInv
<1>1. CASE Configure
  BY <1>1 DEF Configure, Types, Seen, Counted
<1>2. CASE Wake
  BY <1>2 DEF Wake, Types, Seen, Counted
<1>3. CASE Fetch
  BY <1>3 DEF Fetch, Types, Seen, Counted
<1>4. CASE FetchFails
  BY <1>4 DEF FetchFails, Types, Seen, Counted
<1>5. CASE Judge
  BY <1>5, JudgeInv
<1>6. CASE Resolve
  BY <1>6 DEF Resolve, Types, Seen, Counted, Settings
<1>7. CASE ResolveFails
  BY <1>7, FailedInv DEF ResolveFails
<1>8. CASE Start
  <2>1. /\ pc = "start" /\ pc' = "sleep" /\ ctx' = Idle(TRUE) /\ Serve
        /\ UNCHANGED <<cfg, mine, sample, tries>>
    BY <1>8 DEF Start
  <2>2. tries <= MaxAttempts
    BY <2>1, BoundsAssumption DEF Types, Counted, Context
  <2>3. Types'
    <3>1. ctx' \in Context
      BY <2>1, BoundsAssumption DEF Idle, Context
    <3> QED BY <2>1, <3>1, ServeTypes DEF Types
  <2>4. Seen'
    BY <2>1, ServeTypes DEF Types, Seen
  <2>5. Counted'
    BY <2>1, <2>2 DEF Counted, Idle
  <2> QED BY <2>3, <2>4, <2>5
<1>9. CASE StartNoProject
  <2>1. CASE retried
    BY <1>9, <2>1, FailedInv DEF StartNoProject
  <2>2. CASE ~retried
    BY <1>9, <2>2 DEF StartNoProject, Types, Seen, Counted
  <2> QED BY <2>1, <2>2
<1>10. CASE StartFails
  BY <1>10, FailedInv DEF StartFails
<1>11. CASE Deadline
  <2>1. ctx' \in Context /\ ctx'.attempt = ctx.attempt /\ ctx'.done = ctx.done
    BY <1>11 DEF Deadline, Types, Context
  <2> QED BY <1>11, <2>1 DEF Deadline, Types, Seen, Counted
<1>12. CASE Use
  <2>1. server' \in Sample /\ server'.active
    BY <1>12, UsagesAssumption DEF Use
  <2> QED BY <1>12, <2>1 DEF Use, Turn, Types, Seen, Counted
<1>13. CASE WindowEnds
  <2>1. server' \in Sample
    <3>1. server.over \in BOOLEAN
      BY DEF Types, Sample
    <3>2. server' = [NoUsage EXCEPT !.over = server.over]
      BY <1>13 DEF WindowEnds
    <3>3. server' = [active |-> FALSE, pct |-> 0, soon |-> FALSE, over |-> server.over]
      BY <3>2 DEF NoUsage
    <3> QED BY <3>1, <3>3 DEF Sample, Pct
  <2> QED BY <1>13, <2>1 DEF WindowEnds, Turn, Types, Seen, Counted
<1>14. CASE ProjectDeleted
  BY <1>14 DEF ProjectDeleted, Turn, Types, Seen, Counted
<1>15. CASE QuietBegins \/ QuietEnds
  BY <1>15 DEF QuietBegins, QuietEnds, Turn, Types, Seen, Counted
<1>16. CASE UNCHANGED vars
  BY <1>16 DEF Types, Seen, Counted
<1> QED
  BY <1>1, <1>2, <1>3, <1>4, <1>5, <1>6, <1>7, <1>8, <1>9, <1>10, <1>11, <1>12, <1>13,
     <1>14, <1>15, <1>16 DEF Next, Cycle

\* A window is started at most once and tried at most MaxAttempts times (run_cycle and
\* auto_start, lib.rs), for any number of attempts, failures, lost answers and changes of
\* the settings.
THEOREM StartsAreBounded == Spec => []StartsBounded
<1>1. StartInv => StartsBounded
  BY BoundsAssumption DEF StartInv, Types, Seen, Counted, Context, StartsBounded
<1> QED BY <1>1, StartInitInv, StartStepInv, PTL DEF Spec

(***************************************************************************)
(* The alerts.                                                             *)
(***************************************************************************)
\* How severe the worst alert is that the engine counts as told.
Rank(eng) == IF eng.limit THEN 4 ELSE eng.level

\* What is known of an evaluation that began with engine e.  An alert on the tier
\* outranks whatever the engine counted as told before, and the engine counts it.
Sound(e, r) ==
  /\ r \in Run
  /\ r.eng.limit => r.eng.level = 3
  /\ \A a \in Range(r.raised) : Severity(a) <= Rank(r.eng)
  /\ e.prev # None /\ "reset" \notin Range(r.raised) =>
       /\ Rank(r.eng) >= Rank(e)
       /\ \A a \in Range(r.raised) : Severity(a) > 0 => Severity(a) > Rank(e)

LEMMA SeverityType == \A a \in Alert : Severity(a) \in 0..4
  BY DEF Alert, Severity

LEMMA RankType == ASSUME NEW e \in Engine PROVE Rank(e) \in 0..4
  BY DEF Engine, Rank

LEMMA RangeAppend ==
  ASSUME NEW S, NEW s \in Seq(S), NEW a \in S
  PROVE  /\ Append(s, a) \in Seq(S)
         /\ Range(Append(s, a)) = Range(s) \cup {a}
<1>1. /\ Append(s, a) \in Seq(S) /\ Len(s) \in Nat /\ Len(Append(s, a)) = Len(s) + 1
      /\ DOMAIN Append(s, a) = 1..(Len(s) + 1) /\ DOMAIN s = 1..Len(s)
      /\ \A i \in 1..Len(s) : Append(s, a)[i] = s[i]
      /\ Append(s, a)[Len(s) + 1] = a
  OBVIOUS
<1>2. \A x : x \in Range(Append(s, a)) <=> x \in Range(s) \/ x = a
  <2>1. ASSUME NEW x, x \in Range(Append(s, a)) PROVE x \in Range(s) \/ x = a
    BY <1>1, <2>1 DEF Range
  <2>2. ASSUME NEW x \in Range(s) PROVE x \in Range(Append(s, a))
    BY <1>1 DEF Range
  <2>3. a \in Range(Append(s, a))
    BY <1>1 DEF Range
  <2> QED BY <2>1, <2>2, <2>3
<1> QED BY <1>1, <1>2

LEMMA RangeType == ASSUME NEW S, NEW s \in Seq(S) PROVE Range(s) \subseteq S
  BY DEF Range

\* A dispatched alert is raised; of the engine only the queue changes, and it stays
\* within its capacity.
LEMMA DispatchRaises ==
  ASSUME NEW r \in Run, NEW alert \in Alert, NEW suppressed \in BOOLEAN,
         Len(r.eng.pending) <= MaxPending
  PROVE  LET q == Dispatch(r, alert, suppressed) IN
         /\ q \in Run
         /\ Range(q.raised) = Range(r.raised) \cup {alert}
         /\ q.eng.level = r.eng.level /\ q.eng.limit = r.eng.limit
         /\ q.eng.prev = r.eng.prev /\ q.eng.primed = r.eng.primed
         /\ Len(q.eng.pending) <= MaxPending
<1> DEFINE q == Dispatch(r, alert, suppressed)
           queue == Append(r.eng.pending, alert)
           kept == IF ~suppressed THEN r.eng.pending
                   ELSE IF Len(queue) > MaxPending THEN Tail(queue) ELSE queue
           out == IF suppressed THEN r.out ELSE Append(r.out, alert)
           e == [r.eng EXCEPT !.pending = kept]
<1>1. /\ r.eng \in Engine /\ r.raised \in Seq(Alert) /\ r.out \in Seq(Alert)
      /\ r = [eng |-> r.eng, raised |-> r.raised, out |-> r.out]
  BY DEF Run
<1>2. r.eng.pending \in Seq(Alert)
  BY <1>1 DEF Engine
<1>3. kept \in Seq(Alert) /\ Len(kept) <= MaxPending
  <2>1. queue \in Seq(Alert) /\ Len(queue) = Len(r.eng.pending) + 1 /\ queue # <<>>
    BY <1>2
  <2>2. Tail(queue) \in Seq(Alert) /\ Len(Tail(queue)) = Len(queue) - 1
    <3> HIDE DEF queue
    <3> QED BY <2>1
  <2>3. Len(r.eng.pending) \in Nat /\ MaxPending \in Nat
    BY <1>2, PendingAssumption
  <2> HIDE DEF queue
  <2> QED BY <1>2, <2>1, <2>2, <2>3
<1>4. out \in Seq(Alert)
  BY <1>1
<1>5. q = [eng |-> e, raised |-> Append(r.raised, alert), out |-> out]
  <2> DEFINE raised == Append(r.raised, alert)
  <2>1. q = [r EXCEPT !.raised = raised, !.out = out, !.eng.pending = kept]
    BY DEF Dispatch
  <2> HIDE DEF q, kept, out, raised
  <2>2. q = [eng |-> [r.eng EXCEPT !.pending = kept], raised |-> raised, out |-> out]
    BY <1>1, <2>1 DEF Run, Engine
  <2> QED BY <2>2 DEF raised
<1>6. /\ e \in Engine /\ e.level = r.eng.level /\ e.limit = r.eng.limit
      /\ e.prev = r.eng.prev /\ e.primed = r.eng.primed /\ e.pending = kept
  <2> HIDE DEF kept
  <2> QED BY <1>1, <1>3 DEF Engine
<1>7. /\ Append(r.raised, alert) \in Seq(Alert)
      /\ Range(Append(r.raised, alert)) = Range(r.raised) \cup {alert}
  BY <1>1, RangeAppend
<1> HIDE DEF q, e, out, kept, queue
<1>8. q \in Run /\ q.raised = Append(r.raised, alert) /\ q.eng = e
  BY <1>4, <1>5, <1>6, <1>7 DEF Run
<1> QED BY <1>3, <1>6, <1>7, <1>8 DEF q

\* A run q that goes on from run r: nothing raised, and of the engine only the level,
\* the limit and the forecast are new.
GoesOn(q, r) ==
  /\ q \in Run /\ q.raised = r.raised
  /\ q.eng.primed = r.eng.primed /\ q.eng.pending = r.eng.pending

LEMMA NotedFields ==
  ASSUME NEW r \in Run, NEW pct \in Pct
  PROVE  /\ GoesOn(Noted(r, pct), r)
         /\ Noted(r, pct).eng.prev = pct
         /\ Noted(r, pct).eng.level = r.eng.level
         /\ Noted(r, pct).eng.limit = r.eng.limit
<1>1. /\ r.eng \in Engine
      /\ r = [eng |-> r.eng, raised |-> r.raised, out |-> r.out]
  BY DEF Run
<1> DEFINE e == [r.eng EXCEPT !.prev = pct]
<1>2. /\ e \in Engine /\ e.prev = pct /\ e.level = r.eng.level /\ e.limit = r.eng.limit
      /\ e.primed = r.eng.primed /\ e.pending = r.eng.pending
  BY <1>1 DEF Engine
<1>3. Noted(r, pct) = [r EXCEPT !.eng = e]
  BY <1>1 DEF Noted, Run, Engine
<1> HIDE DEF e
<1>4. Noted(r, pct) \in Run /\ Noted(r, pct).eng = e /\ Noted(r, pct).raised = r.raised
  BY <1>1, <1>2, <1>3 DEF Run
<1> QED BY <1>2, <1>4 DEF GoesOn

LEMMA EngineSet ==
  ASSUME NEW r \in Run, NEW e \in Engine, NEW q, q = [r EXCEPT !.eng = e],
         e.primed = r.eng.primed, e.pending = r.eng.pending
  PROVE  GoesOn(q, r) /\ q.eng = e
  BY DEF Run, GoesOn

LEMMA LevelType == \A pct \in Pct : Level(pct) \in 0..3
  BY DEF Pct, Level, Limit

\* The evaluation of the tier, on a run that has raised nothing yet.
LEMMA EvalTierSound ==
  ASSUME NEW r \in Run, r.raised = <<>>, NEW pct \in Pct, NEW suppressed \in BOOLEAN,
         Len(r.eng.pending) <= MaxPending, r.eng.limit => r.eng.level = 3
  PROVE  LET q == EvalTier(r, pct, suppressed) IN
         /\ Sound(r.eng, q)
         /\ q.eng.prev # None /\ q.eng.primed = r.eng.primed
         /\ Len(q.eng.pending) <= MaxPending
<1> DEFINE q == EvalTier(r, pct, suppressed)
           lvl == Level(pct)
<1>1. /\ r.eng \in Engine /\ r.raised \in Seq(Alert) /\ r.out \in Seq(Alert)
      /\ lvl \in 0..3 /\ r.eng.level \in 0..3 /\ r.eng.limit \in BOOLEAN
      /\ pct # None /\ Range(r.raised) = {} /\ Rank(r.eng) \in 0..4
  <2>1. r.eng \in Engine
    BY DEF Run
  <2> QED BY <2>1, LevelType, NoneAssumption, RankType DEF Run, Engine, Range
<1>2. ASSUME NEW base \in Run, base.raised = r.raised,
             base.eng.prev = pct, base.eng.primed = r.eng.primed,
             base.eng.pending = r.eng.pending,
             base.eng.limit => base.eng.level = 3,
             NEW alert \in Alert,
             Severity(alert) <= Rank(base.eng),
             alert # "reset" /\ r.eng.prev # None =>
               /\ Rank(base.eng) >= Rank(r.eng)
               /\ Severity(alert) > 0 => Severity(alert) > Rank(r.eng),
             q = Dispatch(base, alert, suppressed)
      PROVE  /\ Sound(r.eng, q)
             /\ q.eng.prev # None /\ q.eng.primed = r.eng.primed
             /\ Len(q.eng.pending) <= MaxPending
  <2>1. /\ q \in Run /\ Range(q.raised) = {alert}
        /\ q.eng.level = base.eng.level /\ q.eng.limit = base.eng.limit
        /\ q.eng.prev = pct /\ q.eng.primed = r.eng.primed
        /\ Len(q.eng.pending) <= MaxPending
    <3> HIDE DEF q
    <3> QED BY <1>1, <1>2, DispatchRaises
  <2>2. Rank(q.eng) = Rank(base.eng)
    BY <2>1 DEF Rank
  <2> HIDE DEF q
  <2> QED BY <1>1, <1>2, <2>1, <2>2 DEF Sound
<1>3. ASSUME q \in Run, q.raised = r.raised,
             q.eng.prev = pct, q.eng.primed = r.eng.primed,
             q.eng.pending = r.eng.pending,
             q.eng.limit => q.eng.level = 3,
             r.eng.prev # None => Rank(q.eng) >= Rank(r.eng)
      PROVE  /\ Sound(r.eng, q)
             /\ q.eng.prev # None /\ q.eng.primed = r.eng.primed
             /\ Len(q.eng.pending) <= MaxPending
  <2> HIDE DEF q
  <2> QED BY <1>1, <1>3 DEF Sound
<1>4. CASE r.eng.prev = None
  <2> DEFINE lim == pct = Limit
             set == [r EXCEPT !.eng.level = lvl, !.eng.limit = lim]
  <2>1. q = Noted(set, pct)
    BY <1>4 DEF EvalTier
  <2>2. lim \in BOOLEAN /\ (lim => lvl = 3)
    BY DEF Level, Limit
  <2> HIDE DEF q, lvl, lim, set
  <2>3. /\ q \in Run /\ q.raised = r.raised /\ q.eng.prev = pct
        /\ q.eng.primed = r.eng.primed /\ q.eng.pending = r.eng.pending
        /\ q.eng.level = lvl /\ q.eng.limit = lim
    <3> DEFINE e == [r.eng EXCEPT !.level = lvl, !.limit = lim]
    <3>1. /\ e \in Engine /\ e.level = lvl /\ e.limit = lim
          /\ e.primed = r.eng.primed /\ e.pending = r.eng.pending
      BY <1>1, <2>2 DEF Engine
    <3>2. set = [r EXCEPT !.eng = e]
      BY <1>1 DEF Run, Engine, set
    <3> HIDE DEF e, set
    <3>3. GoesOn(set, r) /\ set.eng = e
      BY <3>1, <3>2, EngineSet
    <3> QED BY <3>1, <3>3, <2>1, NotedFields DEF GoesOn
  <2> QED BY <1>3, <1>4, <2>2, <2>3 DEF q
<1>5. CASE r.eng.prev # None /\ r.eng.prev > 0 /\ pct = 0
  <2> DEFINE set == [r EXCEPT !.eng.level = lvl, !.eng.limit = FALSE,
                              !.eng.forecast = FALSE]
             base == Noted(set, pct)
  <2>1. q = Dispatch(base, "reset", suppressed)
    BY <1>5 DEF EvalTier
  <2>2. /\ base \in Run /\ base.raised = r.raised /\ base.eng.prev = pct
        /\ base.eng.primed = r.eng.primed /\ base.eng.pending = r.eng.pending
        /\ base.eng.level = lvl /\ base.eng.limit = FALSE
    <3> HIDE DEF lvl
    <3> DEFINE e == [r.eng EXCEPT !.level = lvl, !.limit = FALSE, !.forecast = FALSE]
    <3>1. /\ e \in Engine /\ e.level = lvl /\ e.limit = FALSE
          /\ e.primed = r.eng.primed /\ e.pending = r.eng.pending
      BY <1>1 DEF Engine
    <3>2. set = [r EXCEPT !.eng = e]
      BY <1>1 DEF Run, Engine, set
    <3> HIDE DEF e, set
    <3>3. GoesOn(set, r) /\ set.eng = e
      BY <3>1, <3>2, EngineSet
    <3> QED BY <3>1, <3>3, NotedFields DEF GoesOn
  <2>3. "reset" \in Alert /\ Severity("reset") = 0
    BY DEF Alert, Severity
  <2>4. Severity("reset") <= Rank(base.eng)
    <3> HIDE DEF base, lvl
    <3> QED BY <1>1, <2>2, <2>3 DEF Rank
  <2> HIDE DEF q, base, lvl
  <2> QED BY <1>2, <2>1, <2>2, <2>3, <2>4 DEF q
<1>6. CASE /\ r.eng.prev # None /\ ~(r.eng.prev > 0 /\ pct = 0)
           /\ pct = Limit /\ ~r.eng.limit
  <2> DEFINE set == [r EXCEPT !.eng.level = 3, !.eng.limit = TRUE]
             base == Noted(set, pct)
  <2>1. q = Dispatch(base, "limit", suppressed)
    BY <1>6 DEF EvalTier
  <2>2. /\ base \in Run /\ base.raised = r.raised /\ base.eng.prev = pct
        /\ base.eng.primed = r.eng.primed /\ base.eng.pending = r.eng.pending
        /\ base.eng.level = 3 /\ base.eng.limit = TRUE
    <3> DEFINE e == [r.eng EXCEPT !.level = 3, !.limit = TRUE]
    <3> HIDE DEF lvl
    <3>0. 3 \in 0..3 /\ r.eng \in Engine
      BY <1>1
    <3>1. /\ e \in Engine /\ e.level = 3 /\ e.limit = TRUE
          /\ e.primed = r.eng.primed /\ e.pending = r.eng.pending
      BY <3>0 DEF Engine
    <3>2. set = [r EXCEPT !.eng = e]
      BY <1>1 DEF Run, Engine, set
    <3> HIDE DEF e, set
    <3>3. GoesOn(set, r) /\ set.eng = e
      BY <3>1, <3>2, EngineSet
    <3> QED BY <3>1, <3>3, NotedFields DEF GoesOn
  <2>3. "limit" \in Alert /\ Severity("limit") = 4
    BY DEF Alert, Severity
  <2>4. Rank(base.eng) = 4 /\ Rank(r.eng) <= 3
    <3> HIDE DEF base
    <3> QED BY <1>1, <1>6, <2>2 DEF Rank
  <2> HIDE DEF q, base
  <2> QED BY <1>1, <1>2, <2>1, <2>2, <2>3, <2>4 DEF q
<1>7. CASE /\ r.eng.prev # None /\ ~(r.eng.prev > 0 /\ pct = 0)
           /\ ~(pct = Limit /\ ~r.eng.limit) /\ lvl > r.eng.level
  <2> DEFINE set == [r EXCEPT !.eng.level = lvl]
             base == Noted(set, pct)
  <2>1. q = Dispatch(base, Threshold(lvl), suppressed)
    BY <1>7 DEF EvalTier
  <2>2. /\ base \in Run /\ base.raised = r.raised /\ base.eng.prev = pct
        /\ base.eng.primed = r.eng.primed /\ base.eng.pending = r.eng.pending
        /\ base.eng.level = lvl /\ base.eng.limit = r.eng.limit
    <3> HIDE DEF lvl
    <3> DEFINE e == [r.eng EXCEPT !.level = lvl]
    <3>1. /\ e \in Engine /\ e.level = lvl /\ e.limit = r.eng.limit
          /\ e.primed = r.eng.primed /\ e.pending = r.eng.pending
      BY <1>1 DEF Engine
    <3>2. set = [r EXCEPT !.eng = e]
      BY <1>1 DEF Run, Engine, set
    <3> HIDE DEF e, set
    <3>3. GoesOn(set, r) /\ set.eng = e
      BY <3>1, <3>2, EngineSet
    <3> QED BY <3>1, <3>3, NotedFields DEF GoesOn
  <2>3. lvl \in 1..3 /\ ~r.eng.limit
    <3> HIDE DEF lvl
    <3> QED BY <1>1, <1>7
  <2>4. /\ Threshold(lvl) \in Alert /\ Severity(Threshold(lvl)) = lvl
        /\ Threshold(lvl) # "reset"
    <3> HIDE DEF lvl
    <3>1. lvl = 1 \/ lvl = 2 \/ lvl = 3
      BY <2>3
    <3> QED BY <3>1 DEF Threshold, Alert, Severity
  <2>5. Rank(base.eng) = lvl /\ Rank(r.eng) = r.eng.level
    <3> HIDE DEF base, lvl
    <3> QED BY <2>2, <2>3 DEF Rank
  <2>6. /\ Severity(Threshold(lvl)) <= Rank(base.eng)
        /\ Rank(base.eng) >= Rank(r.eng) /\ Severity(Threshold(lvl)) > Rank(r.eng)
        /\ base.eng.limit => base.eng.level = 3
    <3> HIDE DEF base, lvl
    <3> QED BY <1>1, <1>7, <2>2, <2>3, <2>4, <2>5
  <2> HIDE DEF q, base, lvl
  <2> QED BY <1>2, <2>1, <2>2, <2>4, <2>6 DEF q
<1>8. CASE /\ r.eng.prev # None /\ ~(r.eng.prev > 0 /\ pct = 0)
           /\ ~(pct = Limit /\ ~r.eng.limit) /\ ~(lvl > r.eng.level)
  <2>1. q = Noted(r, pct)
    BY <1>8 DEF EvalTier
  <2> HIDE DEF q, lvl
  <2>2. /\ q \in Run /\ q.raised = r.raised /\ q.eng.prev = pct
        /\ q.eng.primed = r.eng.primed /\ q.eng.pending = r.eng.pending
        /\ q.eng.level = r.eng.level /\ q.eng.limit = r.eng.limit
    BY <2>1, NotedFields DEF GoesOn
  <2>3. Rank(q.eng) = Rank(r.eng)
    BY <2>2 DEF Rank
  <2> QED BY <1>1, <1>3, <2>2, <2>3 DEF q
<1> HIDE DEF q, lvl
<1> QED BY <1>4, <1>5, <1>6, <1>7, <1>8 DEF q

\* The forecast and the budget raise alerts that are not about the tier's level.
LEMMA EvalRestSound ==
  ASSUME NEW r \in Run, NEW answer \in Sample, NEW suppressed \in BOOLEAN,
         Len(r.eng.pending) <= MaxPending
  PROVE  LET q == EvalBudget(EvalForecast(r, answer, suppressed), answer, suppressed) IN
         /\ q \in Run /\ Range(r.raised) \subseteq Range(q.raised)
         /\ Range(q.raised) \subseteq Range(r.raised) \cup {"forecast", "budget"}
         /\ q.eng.level = r.eng.level /\ q.eng.limit = r.eng.limit
         /\ q.eng.prev = r.eng.prev /\ q.eng.primed = r.eng.primed
         /\ Len(q.eng.pending) <= MaxPending
<1> DEFINE Same(q, p) ==
      /\ q \in Run /\ Range(p.raised) \subseteq Range(q.raised)
      /\ Range(q.raised) \subseteq Range(p.raised) \cup {"forecast", "budget"}
      /\ q.eng.level = p.eng.level /\ q.eng.limit = p.eng.limit
      /\ q.eng.prev = p.eng.prev /\ q.eng.primed = p.eng.primed
      /\ Len(q.eng.pending) <= MaxPending
<1>1. ASSUME NEW p \in Run, Len(p.eng.pending) <= MaxPending
      PROVE  /\ Same(p, p)
             /\ Same([p EXCEPT !.eng.forecast = TRUE], p)
             /\ \A b \in BOOLEAN : Same([p EXCEPT !.eng.budget = b], p)
  <2>1. /\ p.eng \in Engine
        /\ p = [eng |-> p.eng, raised |-> p.raised, out |-> p.out]
    BY DEF Run
  <2>2. ASSUME NEW e \in Engine, NEW q, q = [p EXCEPT !.eng = e],
               e.level = p.eng.level, e.limit = p.eng.limit, e.prev = p.eng.prev,
               e.primed = p.eng.primed, e.pending = p.eng.pending
        PROVE  Same(q, p)
    <3>1. GoesOn(q, p) /\ q.eng = e
      BY <2>2, EngineSet
    <3> QED BY <1>1, <2>2, <3>1 DEF GoesOn
  <2>3. Same([p EXCEPT !.eng.forecast = TRUE], p)
    <3> DEFINE e == [p.eng EXCEPT !.forecast = TRUE]
               q == [p EXCEPT !.eng.forecast = TRUE]
    <3>1. /\ e \in Engine /\ e.level = p.eng.level /\ e.limit = p.eng.limit
          /\ e.prev = p.eng.prev /\ e.primed = p.eng.primed /\ e.pending = p.eng.pending
      BY <2>1 DEF Engine
    <3>2. q = [p EXCEPT !.eng = e]
      BY <2>1 DEF Run, Engine
    <3> HIDE DEF e, q, Same
    <3>3. Same(q, p)
      BY <2>2, <3>1, <3>2
    <3> QED BY <3>3 DEF q
  <2>4. ASSUME NEW b \in BOOLEAN
        PROVE  Same([p EXCEPT !.eng.budget = b], p)
    <3> DEFINE e == [p.eng EXCEPT !.budget = b]
               q == [p EXCEPT !.eng.budget = b]
    <3>1. /\ e \in Engine /\ e.level = p.eng.level /\ e.limit = p.eng.limit
          /\ e.prev = p.eng.prev /\ e.primed = p.eng.primed /\ e.pending = p.eng.pending
      BY <2>1 DEF Engine
    <3>2. q = [p EXCEPT !.eng = e]
      BY <2>1 DEF Run, Engine
    <3> HIDE DEF e, q, Same
    <3>3. Same(q, p)
      BY <2>2, <3>1, <3>2
    <3> QED BY <3>3 DEF q
  <2> HIDE DEF Same
  <2>5. Same(p, p)
    BY <1>1 DEF Same
  <2> QED BY <2>3, <2>4, <2>5
<1>2. ASSUME NEW p \in Run, NEW q, Same(q, p), NEW alert \in {"forecast", "budget"}
      PROVE  Same(Dispatch(q, alert, suppressed), p)
  <2>1. alert \in Alert
    BY DEF Alert
  <2> DEFINE d == Dispatch(q, alert, suppressed)
  <2>2. /\ d \in Run /\ Range(d.raised) = Range(q.raised) \cup {alert}
        /\ d.eng.level = q.eng.level /\ d.eng.limit = q.eng.limit
        /\ d.eng.prev = q.eng.prev /\ d.eng.primed = q.eng.primed
        /\ Len(d.eng.pending) <= MaxPending
    <3>1. q \in Run /\ Len(q.eng.pending) <= MaxPending
      BY <1>2
    <3> HIDE DEF Same
    <3> QED BY <2>1, <3>1, DispatchRaises
  <2> HIDE DEF d
  <2>3. Same(d, p)
    BY <1>2, <2>2
  <2> QED BY <2>3 DEF d
<1> DEFINE f == EvalForecast(r, answer, suppressed)
           g == EvalBudget(f, answer, suppressed)
<1> HIDE DEF Same
<1>3. Same(f, r)
  <2>1. CASE r.eng.forecast \/ answer.pct = Limit \/ ~answer.soon
    BY <1>1, <2>1 DEF EvalForecast
  <2>2. CASE ~(r.eng.forecast \/ answer.pct = Limit \/ ~answer.soon)
    <3>1. f = Dispatch([r EXCEPT !.eng.forecast = TRUE], "forecast", suppressed)
      BY <2>2 DEF EvalForecast
    <3> DEFINE h == [r EXCEPT !.eng.forecast = TRUE]
    <3>2. Same(h, r)
      BY <1>1
    <3> HIDE DEF h, f
    <3>3. f = Dispatch(h, "forecast", suppressed)
      BY <3>1 DEF h
    <3> QED BY <1>2, <3>2, <3>3
  <2> QED BY <2>1, <2>2
<1> HIDE DEF f
<1>4. f \in Run /\ Len(f.eng.pending) <= MaxPending
  BY <1>3 DEF Same
<1>5. Same(g, f)
  <2>1. CASE ~answer.over
    <3>1. g = [f EXCEPT !.eng.budget = FALSE]
      BY <2>1 DEF EvalBudget
    <3> DEFINE h == [f EXCEPT !.eng.budget = FALSE]
    <3>2. Same(h, f)
      BY <1>1, <1>4
    <3> HIDE DEF h, g
    <3> QED BY <3>1, <3>2 DEF h
  <2>2. CASE answer.over /\ f.eng.budget
    BY <1>1, <1>4, <2>2 DEF EvalBudget
  <2>3. CASE answer.over /\ ~f.eng.budget
    <3>1. g = Dispatch([f EXCEPT !.eng.budget = TRUE], "budget", suppressed)
      BY <2>3 DEF EvalBudget
    <3> DEFINE h == [f EXCEPT !.eng.budget = TRUE]
    <3>2. Same(h, f)
      BY <1>1, <1>4
    <3> HIDE DEF h, g
    <3>3. g = Dispatch(h, "budget", suppressed)
      BY <3>1 DEF h
    <3> QED BY <1>2, <1>4, <3>2, <3>3
  <2> QED BY <2>1, <2>2, <2>3
<1>6. Same(g, r)
  <2> HIDE DEF g
  <2> QED BY <1>3, <1>5 DEF Same
<1> HIDE DEF g
<1> QED BY <1>6 DEF f, g, Same

LEMMA FlushPendingKeeps ==
  ASSUME NEW e \in Engine, NEW suppressed \in BOOLEAN, Len(e.pending) <= MaxPending
  PROVE  LET q == FlushPending([eng |-> e, raised |-> <<>>, out |-> <<>>], suppressed) IN
         /\ q \in Run /\ q.raised = <<>>
         /\ q.eng.level = e.level /\ q.eng.limit = e.limit
         /\ q.eng.prev = e.prev /\ q.eng.primed = e.primed
         /\ Len(q.eng.pending) <= MaxPending
<1> DEFINE r == [eng |-> e, raised |-> <<>>, out |-> <<>>]
           q == FlushPending(r, suppressed)
           d == [e EXCEPT !.pending = <<>>]
<1>1. /\ e.pending \in Seq(Alert) /\ <<>> \in Seq(Alert) /\ Len(<<>>) = 0
      /\ <<>> \o e.pending \in Seq(Alert)
  BY DEF Engine
<1>2. CASE suppressed
  BY <1>1, <1>2 DEF FlushPending, Run
<1>3. CASE ~suppressed
  <2>1. q = [eng |-> d, raised |-> <<>>, out |-> <<>> \o e.pending]
    BY <1>3 DEF FlushPending
  <2>2. /\ d \in Engine /\ d.level = e.level /\ d.limit = e.limit /\ d.prev = e.prev
        /\ d.primed = e.primed /\ d.pending = <<>>
    BY <1>1 DEF Engine
  <2> HIDE DEF q, d
  <2>3. q \in Run /\ q.raised = <<>> /\ q.eng = d
    BY <1>1, <2>1, <2>2 DEF Run
  <2>4. 0 <= MaxPending
    BY PendingAssumption
  <2> QED BY <1>1, <2>2, <2>3, <2>4 DEF q, r
<1> QED BY <1>2, <1>3

LEMMA EvaluateSound ==
  ASSUME NEW e \in Engine, NEW answer \in Sample, NEW suppressed \in BOOLEAN,
         Len(e.pending) <= MaxPending, e.limit => e.level = 3
  PROVE  LET q == Evaluate(e, answer, suppressed) IN
         /\ Sound(e, q) /\ q.eng.primed /\ q.eng.prev # None
         /\ Len(q.eng.pending) <= MaxPending
<1> DEFINE r == FlushPending([eng |-> e, raised |-> <<>>, out |-> <<>>], suppressed)
           t == EvalTier(r, answer.pct, suppressed)
           q == Evaluate(e, answer, suppressed)
<1>1. /\ r \in Run /\ r.raised = <<>> /\ r.eng.level = e.level /\ r.eng.limit = e.limit
      /\ r.eng.prev = e.prev /\ r.eng.primed = e.primed /\ Len(r.eng.pending) <= MaxPending
  BY FlushPendingKeeps
<1>2. q = IF ~t.eng.primed THEN [t EXCEPT !.eng.primed = TRUE]
          ELSE EvalBudget(EvalForecast(t, answer, suppressed), answer, suppressed)
  BY DEF Evaluate
<1>3. answer.pct \in Pct
  BY DEF Sample
<1> HIDE DEF r, q
<1>4. /\ Sound(r.eng, t) /\ t.eng.prev # None /\ Len(t.eng.pending) <= MaxPending
  BY <1>1, <1>3, EvalTierSound
<1>5. Rank(r.eng) = Rank(e)
  BY <1>1 DEF Rank
<1> HIDE DEF t
<1>6. /\ t \in Run /\ t.eng \in Engine /\ Rank(t.eng) \in 0..4
      /\ \A a \in Range(t.raised) : a \in Alert
  BY <1>4, RankType, RangeType DEF Sound, Run
<1>7. CASE ~t.eng.primed
  <2> DEFINE d == [t.eng EXCEPT !.primed = TRUE]
  <2>1. /\ d \in Engine /\ d.level = t.eng.level /\ d.limit = t.eng.limit
        /\ d.prev = t.eng.prev /\ d.primed /\ d.pending = t.eng.pending
    BY <1>6 DEF Engine
  <2>2. t = [eng |-> t.eng, raised |-> t.raised, out |-> t.out]
    BY <1>6 DEF Run
  <2>3. q = [t EXCEPT !.eng = d]
    BY <1>2, <1>6, <1>7, <2>2 DEF Run, Engine
  <2> HIDE DEF d
  <2>4. q \in Run /\ q.eng = d /\ q.raised = t.raised
    BY <1>6, <2>1, <2>3 DEF Run
  <2>5. Rank(q.eng) = Rank(t.eng)
    BY <2>1, <2>4 DEF Rank
  <2>6. Sound(e, q)
    BY <1>1, <1>4, <1>5, <2>1, <2>4, <2>5 DEF Sound
  <2> QED BY <1>4, <2>1, <2>4, <2>6 DEF q
<1>8. CASE t.eng.primed
  <2>1. /\ q \in Run /\ Range(t.raised) \subseteq Range(q.raised)
        /\ Range(q.raised) \subseteq Range(t.raised) \cup {"forecast", "budget"}
        /\ q.eng.level = t.eng.level /\ q.eng.limit = t.eng.limit
        /\ q.eng.prev = t.eng.prev /\ q.eng.primed = t.eng.primed
        /\ Len(q.eng.pending) <= MaxPending
    BY <1>2, <1>4, <1>6, <1>8, EvalRestSound
  <2>2. Rank(q.eng) = Rank(t.eng)
    BY <2>1 DEF Rank
  <2>3. Severity("forecast") = 0 /\ Severity("budget") = 0
    BY DEF Severity
  <2>4. Sound(e, q)
    <3>1. \A a \in Range(q.raised) : Severity(a) <= Rank(q.eng)
      BY <1>4, <1>6, <2>1, <2>2, <2>3 DEF Sound
    <3>2. ASSUME e.prev # None, "reset" \notin Range(q.raised)
          PROVE  /\ Rank(q.eng) >= Rank(e)
                 /\ \A a \in Range(q.raised) : Severity(a) > 0 => Severity(a) > Rank(e)
      BY <1>1, <1>4, <1>5, <2>1, <2>2, <2>3, <3>2 DEF Sound
    <3> QED BY <1>4, <2>1, <3>1, <3>2 DEF Sound
  <2> QED BY <1>4, <1>8, <2>1, <2>4 DEF q
<1> QED BY <1>7, <1>8

\* The engine counts every alert that was raised since the last reset.  Escalates is not
\* inductive without this: an engine that has forgotten an alert raises it again.
Accounted ==
  /\ engine \in Engine /\ Len(engine.pending) <= MaxPending
  /\ engine.limit => engine.level = 3
  /\ engine.primed => engine.prev # None
  /\ told \subseteq Alert /\ news \in Seq(Alert) /\ owed \in Seq(Alert)
  /\ \A a \in told \cup Range(news) : Severity(a) <= Rank(engine)

AlertInv == Accounted /\ quiet \in BOOLEAN /\ Escalates

LEMMA FreshSound ==
  ASSUME engine = Fresh, told = {}, news = <<>>, owed = <<>>
  PROVE  Accounted /\ Escalates
<1>1. <<>> \in Seq(Alert) /\ Len(<<>>) = 0 /\ 0 <= MaxPending
  BY PendingAssumption
<1>2. Range(news) = {}
  BY DEF Range
<1> QED BY <1>1, <1>2 DEF Accounted, Escalates, Fresh, Engine

\* What is owed are alerts.
LEMMA OwingType ==
  ASSUME owed \in Seq(Alert), NEW raised \in Seq(Alert), NEW out
  PROVE  Owing(raised, out) \in Seq(Alert)
<1> DEFINE all == owed \o raised
<1>1. all \in Seq(Alert) /\ <<>> \in Seq(Alert)
  OBVIOUS
<1> HIDE DEF all
<1>2. ASSUME Len(all) > MaxPending
      PROVE  SubSeq(all, Len(all) - MaxPending + 1, Len(all)) \in Seq(Alert)
  <2>1. Len(all) \in Nat /\ MaxPending \in Nat /\ Len(all) - MaxPending + 1 \in 1..Len(all) + 1
    BY <1>1, <1>2, PendingAssumption
  <2> QED BY <1>1, <2>1
<1> QED BY <1>1, <1>2 DEF Owing, all

LEMMA JudgeAlertsSound ==
  ASSUME AlertInv, sample \in Sample, JudgeAlerts
  PROVE  Accounted' /\ Escalates'
<1>1. CASE ~mine.notify
  BY <1>1 DEF JudgeAlerts, AlertInv, Accounted, Escalates
<1>2. CASE mine.notify
  <2> DEFINE q == Evaluate(engine, sample, quiet)
  <2>1. /\ engine' = q.eng /\ news' = q.raised
        /\ told' = IF "reset" \in Range(q.raised) \/ ~engine.primed THEN {}
                   ELSE told \cup Range(news)
        /\ owed' = Owing(q.raised, q.out)
    BY <1>2 DEF JudgeAlerts
  <2>2. /\ Sound(engine, q) /\ q.eng.primed /\ q.eng.prev # None
        /\ Len(q.eng.pending) <= MaxPending
    BY EvaluateSound DEF AlertInv, Accounted
  <2> HIDE DEF q
  <2>3. /\ q.eng \in Engine /\ q.raised \in Seq(Alert) /\ Range(q.raised) \subseteq Alert
        /\ Range(news) \subseteq Alert /\ Rank(engine) \in 0..4 /\ Rank(q.eng) \in 0..4
    BY <2>2, RankType, RangeType DEF Sound, Run, AlertInv, Accounted
  <2>3a. owed' \in Seq(Alert)
    BY <2>1, <2>3, OwingType DEF AlertInv, Accounted
  <2>4. CASE "reset" \in Range(q.raised) \/ ~engine.primed
    <3>1. told' = {}
      BY <2>1, <2>4
    <3> QED BY <2>3a, <2>1, <2>2, <2>3, <3>1 DEF Sound, Accounted, Escalates
  <2>5. CASE ~("reset" \in Range(q.raised) \/ ~engine.primed)
    <3>1. told' = told \cup Range(news)
      BY <2>1, <2>5
    <3>2. /\ Rank(q.eng) >= Rank(engine)
          /\ \A a \in Range(q.raised) : Severity(a) > 0 => Severity(a) > Rank(engine)
      BY <2>2, <2>5 DEF Sound, AlertInv, Accounted
    <3>3. \A b \in told' : Severity(b) <= Rank(engine) /\ b \in Alert
      BY <2>3, <3>1 DEF AlertInv, Accounted
    <3>4. Accounted'
      <4>1. \A a \in told' \cup Range(q.raised) : Severity(a) <= Rank(q.eng)
        BY <2>2, <2>3, <3>2, <3>3, SeverityType DEF Sound
      <4>2. told' \subseteq Alert
        BY <3>3
      <4> QED BY <2>1, <2>2, <2>3, <2>3a, <4>1, <4>2 DEF Accounted, Sound
    <3>5. Escalates'
      <4> SUFFICES ASSUME NEW a \in Range(q.raised), NEW b \in told', Severity(a) > 0
                   PROVE  Severity(a) > Severity(b)
        BY <2>1 DEF Escalates, Severity
      <4> QED BY <2>3, <3>2, <3>3, SeverityType
    <3> QED BY <3>4, <3>5
  <2> QED BY <2>4, <2>5
<1> QED BY <1>1, <1>2

LEMMA AlertStepInv == AlertInv /\ Types /\ [Next]_vars => AlertInv'
<1> SUFFICES ASSUME AlertInv, Types, [Next]_vars PROVE AlertInv'
  OBVIOUS
<1>1. CASE Judge
  BY <1>1, JudgeAlertsSound DEF Judge, AlertInv, Types
<1>2. CASE Configure
  <2>1. CASE UNCHANGED alertVars
    BY <1>2, <2>1 DEF Configure, AlertInv, Accounted, Escalates
  <2>2. CASE engine' = Fresh /\ told' = {} /\ news' = <<>> /\ owed' = <<>>
    <3>1. <<>> \in Seq(Alert) /\ Len(<<>>) = 0 /\ 0 <= MaxPending /\ Range(<<>>) = {}
      BY PendingAssumption DEF Range
    <3> QED BY <1>2, <2>2, <3>1 DEF Configure, AlertInv, Accounted, Escalates, Fresh, Engine
  <2> QED BY <1>2, <2>1, <2>2 DEF Configure
<1>3. CASE UNCHANGED alertVars /\ quiet' \in BOOLEAN
  BY <1>3 DEF AlertInv, Accounted, Escalates
<1>4. quiet \in BOOLEAN
  BY DEF AlertInv
<1> QED BY <1>1, <1>2, <1>3, <1>4 DEF Next, Cycle, Wake, Fetch, FetchFails, Resolve,
      ResolveFails, Start, StartNoProject, StartFails, Deadline, Use, WindowEnds,
      ProjectDeleted, QuietBegins, QuietEnds, Turn

\* Between two resets of the window every alert on the tier is more severe than all
\* before it (eval_tier, engine.rs), whatever the percentage does, whatever is muted,
\* queued or lost from a full queue, and however often the settings change.
THEOREM AlertsEscalate == Spec => []Escalates
<1>1. Init => AlertInv
  <2> SUFFICES ASSUME Init PROVE AlertInv
    OBVIOUS
  <2>1. engine = Fresh /\ told = {} /\ news = <<>> /\ owed = <<>> /\ quiet \in BOOLEAN
    BY DEF Init
  <2> QED BY <2>1, FreshSound DEF AlertInv
<1>2. AlertInv => Escalates
  BY DEF AlertInv
<1>3. StartInv => Types
  BY DEF StartInv
<1> QED BY <1>1, <1>2, <1>3, AlertStepInv, StartInitInv, StartStepInv, PTL DEF Spec

(***************************************************************************)
(* Types.                                                                  *)
(***************************************************************************)
\* What TypeOK says beside the two invariants above: a deadline is that of a pending
\* start, the flags are flags and the counters stay within their bounds.
Counters ==
  /\ ctx.due => ctx.attempt > 0
  /\ retried \in BOOLEAN /\ alive \in BOOLEAN
  /\ faults \in 0..MaxFaults /\ changes \in 0..MaxChanges /\ turns \in 0..MaxTurns

LEMMA CountersStep == Counters /\ Types /\ [Next]_vars => Counters'
<1> SUFFICES ASSUME Counters, Types, [Next]_vars PROVE Counters'
  OBVIOUS
<1>0. MaxFaults \in Nat /\ MaxChanges \in Nat /\ MaxTurns \in Nat
  BY BoundsAssumption
<1>1. /\ ctx.done \in BOOLEAN /\ ctx.attempt \in Nat /\ ctx.due \in BOOLEAN
      /\ ctx = [done |-> ctx.done, attempt |-> ctx.attempt, due |-> ctx.due]
  BY BoundsAssumption DEF Types, Context
<1>2. ctx' = ctx \/ ctx' = Idle(FALSE) \/ ctx' = Idle(TRUE) \/ ctx'.due = FALSE
        \/ (ctx'.attempt = ctx.attempt /\ ctx.attempt > 0)
        \/ (ctx'.attempt > 0)
      => (ctx'.due => ctx'.attempt > 0)
  BY <1>1 DEF Counters, Idle
<1>3. CASE Judge
  <2>1. \/ ctx' = Idle(FALSE) \/ ctx' = ctx
        \/ ctx' = [ctx EXCEPT !.attempt = IF @ = 0 THEN 1 ELSE @]
    BY <1>3 DEF Judge, JudgeStart, Countdown
  <2>2. ctx' = Idle(FALSE) \/ ctx' = ctx \/ ctx'.attempt > 0
    <3>1. CASE ctx' = [ctx EXCEPT !.attempt = IF @ = 0 THEN 1 ELSE @]
      <4>1. ctx'.attempt = IF ctx.attempt = 0 THEN 1 ELSE ctx.attempt
        BY <1>1, <3>1
      <4>2. CASE ctx.attempt = 0
        BY <4>1, <4>2
      <4>3. CASE ctx.attempt # 0
        <5>1. ctx'.attempt = ctx.attempt /\ ctx.attempt \in Nat
          BY <1>1, <4>1, <4>3
        <5>2. \A n \in Nat : n # 0 => n > 0
          OBVIOUS
        <5>3. ctx.attempt > 0
          BY <4>3, <5>1, <5>2
        <5> QED BY <5>1, <5>3
      <4> QED BY <4>2, <4>3
    <3> QED BY <2>1, <3>1
  <2>3. retried' \in BOOLEAN
    BY <1>3 DEF Judge, JudgeStart, Countdown, Counters
  <2> QED BY <1>2, <1>3, <2>2, <2>3 DEF Judge, Counters
<1>4. ASSUME Failed PROVE ctx' = Idle(TRUE) \/ ctx'.due = FALSE
  BY <1>1, <1>4 DEF Failed
<1>5. ASSUME Fail PROVE faults' \in 0..MaxFaults
  BY <1>0, <1>5 DEF Fail, Counters
<1>6. CASE ResolveFails \/ StartFails \/ StartNoProject \/ FetchFails
  BY <1>2, <1>4, <1>5, <1>6 DEF ResolveFails, StartFails, StartNoProject, FetchFails, Counters
<1>7. CASE Start \/ Wake \/ Fetch \/ Resolve
  BY <1>2, <1>7 DEF Start, Wake, Fetch, Resolve, Counters
<1>8. CASE Deadline
  <2>1. ctx'.attempt = ctx.attempt /\ ctx.attempt > 0
    BY <1>1, <1>8 DEF Deadline
  <2> QED BY <1>8, <2>1 DEF Deadline, Counters
<1>9. CASE Configure
  BY <1>0, <1>9 DEF Configure, Counters
<1>10. CASE Use \/ WindowEnds \/ ProjectDeleted \/ QuietBegins \/ QuietEnds
  <2>1. turns' \in 0..MaxTurns
    BY <1>0, <1>10
       DEF Use, WindowEnds, ProjectDeleted, QuietBegins, QuietEnds, Turn, Counters
  <2>2. /\ UNCHANGED <<ctx, retried, faults, changes>>
        /\ alive' = alive \/ alive' = FALSE
    BY <1>10 DEF Use, WindowEnds, ProjectDeleted, QuietBegins, QuietEnds, Turn
  <2> QED BY <2>1, <2>2 DEF Counters
<1>11. CASE UNCHANGED vars
  BY <1>11 DEF Counters
<1> QED BY <1>3, <1>6, <1>7, <1>8, <1>9, <1>10, <1>11 DEF Next, Cycle

\* The variables keep their types; the queue of suppressed alerts keeps within MAX_PENDING.
THEOREM TypeCorrect == Spec => []TypeOK
<1>1. Init => AlertInv /\ Counters
  <2> SUFFICES ASSUME Init PROVE AlertInv /\ Counters
    OBVIOUS
  <2>1. engine = Fresh /\ told = {} /\ news = <<>> /\ owed = <<>> /\ quiet \in BOOLEAN
    BY DEF Init
  <2>2. MaxFaults \in Nat /\ MaxChanges \in Nat /\ MaxTurns \in Nat
    BY BoundsAssumption
  <2>3. /\ ctx = Idle(FALSE) /\ retried = FALSE /\ alive = TRUE
        /\ faults = 0 /\ changes = 0 /\ turns = 0
    BY DEF Init
  <2>4. ctx.due = FALSE
    BY <2>3 DEF Idle
  <2>5. faults \in 0..MaxFaults /\ changes \in 0..MaxChanges /\ turns \in 0..MaxTurns
    BY <2>2, <2>3
  <2>6. Counters
    BY <2>3, <2>4, <2>5 DEF Counters
  <2> QED BY <2>1, <2>6, FreshSound DEF AlertInv
<1>2. StartInv /\ AlertInv /\ Counters => TypeOK
  BY DEF StartInv, Types, AlertInv, Accounted, Counters, TypeOK
<1>3. StartInv => Types
  BY DEF StartInv
<1> QED
  BY <1>1, <1>2, <1>3, AlertStepInv, CountersStep, StartInitInv, StartStepInv, PTL DEF Spec
=============================================================================
