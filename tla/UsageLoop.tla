----------------------------- MODULE UsageLoop -----------------------------
(***************************************************************************)
(* The usage poll loop of the tray app (spawn_poll_loop, run_cycle and     *)
(* auto_start of src-tauri/src/lib.rs): it copies the settings, asks the   *)
(* server for the usage, has the alert engine judge the answer and, when   *)
(* no window runs, starts one after a countdown.  The window configures it *)
(* at any time, and the user works on.                                     *)
(*                                                                         *)
(* Time is not counted: a deadline passes, a sleep ends, quiet hours begin *)
(* and end at any moment.                                                  *)
(***************************************************************************)
EXTENDS AlertRules

CONSTANTS
  MaxAttempts,  \* AUTO_START_MAX_ATTEMPTS
  MaxFaults,    \* bound: requests that fail
  MaxChanges,   \* bound: changes of the settings
  MaxTurns,     \* bound: changes of the account and the clock
  Usages        \* the usage of a running window that is explored

ASSUME UsagesAssumption == Usages \subseteq {s \in Sample : s.active}
ASSUME BoundsAssumption ==
  MaxAttempts \in Nat \ {0} /\ {MaxFaults, MaxChanges, MaxTurns} \subseteq Nat

VARIABLES
  cfg,      \* the shared AppConfig
  mine,     \* the copy of this cycle
  pc,       \* where the loop is
  sample,   \* what the server answered in this cycle
  ctx,      \* AutoStartCtx
  retried,  \* tried_reresolve
  engine,   \* the shared AlertEngine
  quiet,    \* alerts are suppressed: quiet hours, or muted
  server,   \* the usage of the account
  alive,    \* the project that the settings name exists on the server
  told,     \* tier alerts since the last reset, without those of the last evaluation
  news,     \* what the last evaluation raised
  owed,     \* alerts raised while suppressed that the user has not been shown since
  tries,    \* starts tried since the loop last saw a window or auto-start off
  served,   \* starts the server carried out in this window
  faults, changes, turns

loopVars == <<mine, pc, sample, ctx, retried>>
alertVars == <<engine, told, news, owed>>
countVars == <<tries, served>>
bounds == <<faults, changes, turns>>
vars == <<cfg, loopVars, alertVars, quiet, server, alive, countVars, bounds>>

\* project: is a project id known
Settings == [notify : BOOLEAN, auto : BOOLEAN, project : BOOLEAN]

\* attempt 0 is AutoStartPhase::Idle; due: the deadline of the pending one has passed.
Context == [done : BOOLEAN, attempt : 0..MaxAttempts, due : BOOLEAN]
Idle(done) == [done |-> done, attempt |-> 0, due |-> FALSE]

TypeOK ==
  /\ cfg \in Settings /\ mine \in Settings
  /\ pc \in {"sleep", "fetch", "judge", "resolve", "start"}
  /\ sample \in Sample /\ server \in Sample
  /\ ctx \in Context /\ (ctx.due => ctx.attempt > 0)
  /\ retried \in BOOLEAN /\ quiet \in BOOLEAN /\ alive \in BOOLEAN
  /\ engine \in Engine /\ Len(engine.pending) <= MaxPending
  /\ told \subseteq Alert /\ news \in Seq(Alert) /\ owed \in Seq(Alert)
  /\ faults \in 0..MaxFaults /\ changes \in 0..MaxChanges /\ turns \in 0..MaxTurns

NoUsage == [active |-> FALSE, pct |-> 0, soon |-> FALSE, over |-> FALSE]

Init ==
  /\ cfg \in {s \in Settings : s.notify} /\ mine = cfg
  /\ pc = "sleep"
  /\ server = NoUsage
  /\ sample = server
  /\ ctx = Idle(FALSE)
  /\ retried = FALSE
  /\ engine = Fresh
  /\ quiet = FALSE
  /\ alive = TRUE
  /\ told = {} /\ news = <<>> /\ owed = <<>>
  /\ tries = 0 /\ served = 0
  /\ faults = 0 /\ changes = 0 /\ turns = 0

(***************************************************************************)
(* The settings.                                                           *)
(***************************************************************************)
\* configure: the settings are replaced, the engine is reset when notifications are off,
\* the loop is woken.  The project id is the window's own, which may be older or newer than
\* the one the app has.
Configure ==
  /\ changes < MaxChanges
  /\ changes' = changes + 1
  /\ \E c \in Settings :
       /\ c # cfg
       /\ cfg' = c
       /\ IF c.notify THEN UNCHANGED alertVars
          ELSE engine' = Fresh /\ told' = {} /\ news' = <<>> /\ owed' = <<>>
  /\ UNCHANGED <<loopVars, quiet, server, alive, countVars, faults, turns>>

(***************************************************************************)
(* One cycle of the loop.                                                  *)
(***************************************************************************)
Wake ==
  /\ pc = "sleep"
  /\ mine' = cfg
  /\ pc' = "fetch"
  /\ UNCHANGED <<cfg, sample, ctx, retried, alertVars, quiet, server, alive, countVars,
                 bounds>>

Fetch ==
  /\ pc = "fetch"
  /\ sample' = server
  /\ pc' = "judge"
  /\ UNCHANGED <<cfg, mine, ctx, retried, alertVars, quiet, server, alive, countVars,
                 bounds>>

Fail == faults < MaxFaults /\ faults' = faults + 1

FetchFails ==
  /\ pc = "fetch" /\ Fail
  /\ pc' = "sleep"
  /\ UNCHANGED <<cfg, mine, sample, ctx, retried, alertVars, quiet, server, alive,
                 countVars, changes, turns>>

\* What the user has still to be told after an evaluation that raised and returned these
\* alerts.  Only the last MaxPending of those suppressed are ever told.
Owing(raised, out) ==
  LET all == owed \o raised IN
  IF ~quiet THEN IF IsPrefix(owed, out) THEN <<>> ELSE owed
  ELSE IF Len(all) > MaxPending THEN SubSeq(all, Len(all) - MaxPending + 1, Len(all))
  ELSE all

\* The alerts, by the settings of this cycle.
JudgeAlerts ==
  IF mine.notify
  THEN LET r == Evaluate(engine, sample, quiet) IN
       /\ engine' = r.eng
       /\ news' = r.raised
       /\ told' = IF "reset" \in Range(r.raised) \/ ~engine.primed THEN {}
                  ELSE told \cup Range(news)
       /\ owed' = Owing(r.raised, r.out)
  ELSE UNCHANGED alertVars

\* Mutant of Countdown: a deadline that has passed begins another countdown.
CountdownAgain ==
  /\ pc' = "sleep"
  /\ ctx' = [ctx EXCEPT !.attempt = 1, !.due = FALSE]
  /\ UNCHANGED <<retried, tries>>

\* No window runs and none was tried to the end: begin a countdown, wait for its end,
\* or start a window.
Countdown ==
  IF ctx.attempt = 0 \/ ~ctx.due
  THEN /\ pc' = "sleep"
       /\ ctx' = [ctx EXCEPT !.attempt = IF @ = 0 THEN 1 ELSE @]
       /\ UNCHANGED <<retried, tries>>
  ELSE /\ pc' = IF mine.project THEN "start" ELSE "resolve"
       /\ retried' = FALSE
       /\ tries' = tries + 1
       /\ UNCHANGED ctx

\* Mutant of JudgeStart: a pending start is not called off when a window runs.
JudgeStartBlind ==
  IF ~mine.auto \/ (sample.active /\ ctx.attempt = 0)
  THEN pc' = "sleep" /\ ctx' = Idle(FALSE) /\ tries' = 0 /\ UNCHANGED retried
  ELSE IF ctx.done THEN pc' = "sleep" /\ UNCHANGED <<ctx, retried, tries>>
  ELSE Countdown

\* Auto-start off, or a window runs: a pending start is called off.
JudgeStart ==
  IF ~mine.auto \/ sample.active
  THEN pc' = "sleep" /\ ctx' = Idle(FALSE) /\ tries' = 0 /\ UNCHANGED retried
  ELSE IF ctx.done THEN pc' = "sleep" /\ UNCHANGED <<ctx, retried, tries>>
  ELSE Countdown

Judge ==
  /\ pc = "judge"
  /\ JudgeAlerts
  /\ JudgeStart
  /\ UNCHANGED <<cfg, mine, sample, quiet, server, alive, served, bounds>>

\* auto_start returned false: another try in five minutes, or none in this window.
Failed ==
  /\ pc' = "sleep"
  /\ ctx' = IF ctx.attempt >= MaxAttempts THEN Idle(TRUE)
            ELSE [ctx EXCEPT !.attempt = @ + 1, !.due = FALSE]

\* resolve_project: the id goes to the shared settings, whatever they are by now.
Resolve ==
  /\ pc = "resolve"
  /\ cfg' = [cfg EXCEPT !.project = TRUE]
  /\ alive' = TRUE
  /\ pc' = "start"
  /\ UNCHANGED <<mine, sample, ctx, retried, alertVars, quiet, server, countVars, bounds>>

ResolveFails ==
  /\ pc = "resolve" /\ Fail
  /\ Failed
  /\ UNCHANGED <<cfg, mine, sample, retried, alertVars, quiet, server, alive, countVars,
                 changes, turns>>

\* The server carries the start out: a window runs.
Serve == server' = [server EXCEPT !.active = TRUE] /\ served' = served + 1

Start ==
  /\ pc = "start" /\ alive
  /\ Serve
  /\ ctx' = Idle(TRUE)
  /\ pc' = "sleep"
  /\ UNCHANGED <<cfg, mine, sample, retried, alertVars, quiet, alive, tries, bounds>>

\* The project is gone: it is resolved again, once.
StartNoProject ==
  /\ pc = "start" /\ ~alive
  /\ IF retried THEN Failed /\ UNCHANGED retried
                ELSE retried' = TRUE /\ pc' = "resolve" /\ UNCHANGED ctx
  /\ UNCHANGED <<cfg, mine, sample, alertVars, quiet, server, alive, countVars, bounds>>

\* The request fails, or its answer is lost after the server has carried it out.
StartFails ==
  /\ pc = "start" /\ alive /\ Fail
  /\ Failed
  /\ Serve \/ UNCHANGED <<server, served>>
  /\ UNCHANGED <<cfg, mine, sample, retried, alertVars, quiet, alive, tries, changes,
                 turns>>

Deadline ==
  /\ ctx.attempt > 0 /\ ~ctx.due
  /\ ctx' = [ctx EXCEPT !.due = TRUE]
  /\ UNCHANGED <<cfg, mine, pc, sample, retried, alertVars, quiet, server, alive,
                 countVars, bounds>>

(***************************************************************************)
(* The account and the clock.                                              *)
(***************************************************************************)
Turn ==
  /\ turns < MaxTurns
  /\ turns' = turns + 1
  /\ UNCHANGED <<cfg, loopVars, alertVars, tries, faults, changes>>

\* The user works: the percentage moves, with it the forecast and the budget.
Use ==
  /\ Turn
  /\ \E s \in Usages \ {server} : server' = s
  /\ UNCHANGED <<quiet, alive, served>>

WindowEnds ==
  /\ Turn /\ server.active
  /\ server' = [NoUsage EXCEPT !.over = server.over]
  /\ served' = 0
  /\ UNCHANGED <<quiet, alive>>

ProjectDeleted ==
  /\ Turn /\ alive
  /\ alive' = FALSE
  /\ UNCHANGED <<quiet, server, served>>

QuietBegins == Turn /\ ~quiet /\ quiet' = TRUE /\ UNCHANGED <<server, alive, served>>

QuietEnds ==
  /\ quiet /\ quiet' = FALSE
  /\ UNCHANGED <<cfg, loopVars, alertVars, server, alive, countVars, bounds>>

Cycle == Wake \/ Fetch \/ Judge \/ Resolve \/ Start \/ StartNoProject

Next ==
  \/ Configure
  \/ Cycle \/ FetchFails \/ ResolveFails \/ StartFails \/ Deadline
  \/ Use \/ WindowEnds \/ ProjectDeleted \/ QuietBegins \/ QuietEnds

Spec == Init /\ [][Next]_vars

\* The loop goes on, deadlines pass, quiet hours end.  Requests fail at most MaxFaults
\* times, so the server answers in the end.
FairSpec == Spec /\ WF_vars(Cycle) /\ WF_vars(Deadline) /\ WF_vars(QuietEnds)

(***************************************************************************)
(* Properties.                                                             *)
(***************************************************************************)
\* Between two resets of the window every alert about the tier is more severe than all
\* before it, however the percentage moves, whatever is queued meanwhile.
Severity(a) == CASE a = "threshold1" -> 1 [] a = "threshold2" -> 2
                 [] a = "threshold3" -> 3 [] a = "limit" -> 4 [] OTHER -> 0
Escalates ==
  \A a \in Range(news), b \in told :
    Severity(a) > 0 /\ Severity(b) > 0 => Severity(a) > Severity(b)

\* A window is started by the loop at most once, also when the answer to the start was
\* lost and the loop counts it as failed; and after MaxAttempts tries the loop gives up
\* until a window runs or auto-start is switched off and on.
StartsBounded == served <= 1 /\ tries <= MaxAttempts

\* A countdown ends: in a start, because a window runs, or because auto-start is off.
CountdownEnds == ctx.attempt > 0 ~> ctx.attempt = 0

\* An alert raised while alerts are suppressed is shown once when they no longer are.  Two
\* kinds are never shown: those that more than MaxPending later ones push out of the
\* queue, and those queued when notifications are switched off.
Delivered ==
  /\ [](engine.pending = owed)
  /\ owed # <<>> ~> owed = <<>> \/ ~cfg.notify
=============================================================================
