----------------------------- MODULE AlertRules -----------------------------
(***************************************************************************)
(* The alert engine (src-tauri/src/analytics/alerts/engine.rs): what one   *)
(* evaluation of a usage sample does to the engine and which alerts it     *)
(* raises.  One tier, the five-hour one, with the forecast and the daily   *)
(* budget; every kind of alert is switched on.                             *)
(*                                                                         *)
(* A percentage is what it means to the rules: 0 is at most RESET_EPSILON, *)
(* 1 below the first threshold, 2 to 4 in the three buckets above, 5 at    *)
(* the limit.                                                              *)
(***************************************************************************)
EXTENDS Integers, Sequences, SequencesExt

CONSTANTS
  MaxPending,  \* MAX_PENDING: alerts kept while alerts are suppressed
  None         \* a tier that was not seen yet
ASSUME PendingAssumption == MaxPending \in Nat \ {0}

Pct == 0..5
ASSUME NoneAssumption == None \notin Pct
Limit == 5
Level(pct) == IF pct <= 1 THEN 0 ELSE IF pct < Limit THEN pct - 1 ELSE 3

Alert == {"threshold1", "threshold2", "threshold3", "limit", "reset", "forecast", "budget"}
Threshold(level) == <<"threshold1", "threshold2", "threshold3">>[level]

Engine == [level    : 0..3,                \* TierState.fired_level
           limit    : BOOLEAN,             \* TierState.fired_limit
           prev     : Pct \cup {None},     \* TierState.prev_percent
           forecast : BOOLEAN,             \* fired_forecast
           budget   : BOOLEAN,             \* fired_budget
           primed   : BOOLEAN,
           pending  : Seq(Alert)]

\* new, and reset
Fresh == [level |-> 0, limit |-> FALSE, prev |-> None, forecast |-> FALSE,
          budget |-> FALSE, primed |-> FALSE, pending |-> <<>>]

Sample == [active : BOOLEAN,   \* the five-hour window runs
           pct    : Pct,
           soon   : BOOLEAN,   \* at this rate the limit comes within forecast_minutes
           over   : BOOLEAN]   \* today's consumption is over the daily budget

\* An evaluation under way: the engine, what it raised, what it returns.
Run == [eng : Engine, raised : Seq(Alert), out : Seq(Alert)]

\* Raised, and returned or, while alerts are suppressed, queued; a full queue loses its
\* oldest alert.
Dispatch(r, alert, suppressed) ==
  LET queue == Append(r.eng.pending, alert) IN
  [r EXCEPT !.raised = Append(@, alert),
            !.out = IF suppressed THEN @ ELSE Append(@, alert),
            !.eng.pending = IF ~suppressed THEN @
                            ELSE IF Len(queue) > MaxPending THEN Tail(queue) ELSE queue]

\* Mutant of FlushPending: the queue is emptied and nobody is told.
FlushPendingLost(r, suppressed) ==
  IF suppressed THEN r ELSE [r EXCEPT !.eng.pending = <<>>]

\* One alert is returned as it is, several as one catch-up that lists them.
FlushPending(r, suppressed) ==
  IF suppressed THEN r
  ELSE [r EXCEPT !.out = @ \o r.eng.pending, !.eng.pending = <<>>]

Noted(r, pct) == [r EXCEPT !.eng.prev = pct]

\* Mutant of EvalTier: the level follows the percentage down as well.
EvalTierFollows(r, pct, suppressed) ==
  IF r.eng.prev = None \/ Level(pct) <= r.eng.level
  THEN Noted([r EXCEPT !.eng.level = Level(pct)], pct)
  ELSE Dispatch(Noted([r EXCEPT !.eng.level = Level(pct)], pct),
                Threshold(Level(pct)), suppressed)

\* A tier seen for the first time is noted only.  A fall to nothing is the reset of the
\* window; the limit goes before the thresholds, and each is told once.
EvalTier(r, pct, suppressed) ==
  LET e == r.eng IN
  IF e.prev = None
  THEN Noted([r EXCEPT !.eng.level = Level(pct), !.eng.limit = pct = Limit], pct)
  ELSE IF e.prev > 0 /\ pct = 0
  THEN Dispatch(Noted([r EXCEPT !.eng.level = Level(pct), !.eng.limit = FALSE,
                                !.eng.forecast = FALSE], pct), "reset", suppressed)
  ELSE IF pct = Limit /\ ~e.limit
  THEN Dispatch(Noted([r EXCEPT !.eng.level = 3, !.eng.limit = TRUE], pct),
                "limit", suppressed)
  ELSE IF Level(pct) > e.level
  THEN Dispatch(Noted([r EXCEPT !.eng.level = Level(pct)], pct),
                Threshold(Level(pct)), suppressed)
  ELSE Noted(r, pct)

EvalForecast(r, sample, suppressed) ==
  IF r.eng.forecast \/ sample.pct = Limit \/ ~sample.soon THEN r
  ELSE Dispatch([r EXCEPT !.eng.forecast = TRUE], "forecast", suppressed)

\* Told once; spending less than the budget, on another day, arms it again.
EvalBudget(r, sample, suppressed) ==
  IF ~sample.over THEN [r EXCEPT !.eng.budget = FALSE]
  ELSE IF r.eng.budget THEN r
  ELSE Dispatch([r EXCEPT !.eng.budget = TRUE], "budget", suppressed)

\* The first evaluation notes the tier and stops there.
Evaluate(eng, sample, suppressed) ==
  LET flushed == FlushPending([eng |-> eng, raised |-> <<>>, out |-> <<>>], suppressed)
      tiers == EvalTier(flushed, sample.pct, suppressed)
  IN  IF ~tiers.eng.primed THEN [tiers EXCEPT !.eng.primed = TRUE]
      ELSE EvalBudget(EvalForecast(tiers, sample, suppressed), sample, suppressed)
=============================================================================
