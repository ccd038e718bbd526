------------------------------- MODULE Runner -------------------------------
(***************************************************************************)
(* The headless runner of a change (scripts/cli/process/run.mjs): a loop   *)
(* that takes the nodes whose prerequisites are closed, works on several   *)
(* of them at once, checks what they did and moves them on the board by    *)
(* the CLI.  It works on a copy of the board that it took when it started  *)
(* and never reads it again; people move tasks meanwhile, commands are     *)
(* refused, the process is interrupted or dies and is started again.       *)
(*                                                                         *)
(* A worker, a reviewer and a check may answer anything.  A step costs 1.  *)
(***************************************************************************)
EXTENDS RedGate, FiniteSetsExt

\* Node: the numbers of the tasks of the change
CONSTANTS
  Output,    \* what steps declare to produce
  Plans,     \* the changes explored
  MaxLimit,  \* bound: the largest retry limit of a plan
  MaxRuns,   \* bound: runs started
  MaxTrouble \* bound: moves by people, refusals, file errors, interruptions and deaths

Status == {"backlog", "queue", "in_progress", "review", "done"}
Limit == 0..MaxLimit \cup {None}

\* kind - auto:  a check may close it
\*        gate:  a worker does the work, a person closes it
\*        hand:  nothing for a worker to do (sensitive, or nothing to produce)
\*        empty: manual, with nothing to produce and nothing to check
Declared == [deps : SUBSET Node, kind : {"auto", "gate", "hand", "empty"},
             produces : SUBSET Output, red : BOOLEAN, flow : BOOLEAN,
             limit : Limit, on_issue : Node \cup {None}, budget : Limit]
\* A run asks for a group budget; None stands for one that it cannot use up.
Change == [node : [Node -> Declared], budget : Limit, parallel : Nat \ {0}]

ASSUME RunnerAssumption ==
  /\ Node \subseteq Nat \ {0} /\ IsFiniteSet(Node)
  /\ None \notin Nat
  /\ Plans \subseteq Change
  /\ {MaxLimit, MaxRuns, MaxTrouble} \subseteq Nat

VARIABLES
  plan,      \* the change: its nodes, its group budget, its parallel limit
  board,     \* the rows of the board
  pc,        \* the process: off, recovering, or running
  copy,      \* the run's clone of the rows
  att,       \* ctx.attempts
  route,     \* the high route of a node's worker: not taken, due, on this attempt, taken
  gated,     \* ctx.gated
  pending,   \* the node of ctx.pendingGate, or None
  expired,   \* ctx.expired
  spent,     \* ctx.nodeSpent
  stop,      \* ctx.stop
  interrupted,
  wave,      \* the nodes of the wave whose results are not applied yet
  step,      \* where the step of a node of the wave is
  result,    \* how it ended
  tries,     \* attempts that were begun, since ever
  refunds,   \* attempts that were recorded as mechanical
  slips,     \* attempts whose entry into in_progress the board did not see
  touched,   \* nodes that people moved during this run
  runs, moves, faults

ctx == <<copy, att, route, gated, pending, expired, spent, stop, interrupted>>
steps == <<wave, step, result>>
ghosts == <<tries, refunds, slips>>
bounds == <<runs, moves, faults>>
vars == <<plan, board, pc, ctx, steps, ghosts, touched, bounds, gateVars>>

Row == [status  : Status,
        entered : Nat,           \* the in_progress entries of status_history
        mech    : SUBSET Nat,    \* the attempts that are recorded as mechanical
        tail    : BOOLEAN,       \* the last attempt recorded failed its check
        card    : BOOLEAN]       \* a decision card was written
Stops == {"none", "end", "gate", "retry", "budget", "empty-frontier", "mechanics",
          "outcome", "convergence", "flow-cannot"}

D(t) == plan.node[t]
AttemptsSoFar(row) == Max({0, row.entered - Cardinality(row.mech)})
Running(t) == t \in wave /\ step[t] \notin {"begin", "ended"}

TypeOK ==
  /\ GateTypeOK
  /\ plan \in Plans
  /\ board \in [Node -> Row] /\ copy \in [Node -> Row]
  /\ pc \in {"off", "recover", "on"}
  /\ att \in [Node -> Nat \cup {None}]
  /\ route \in [Node -> {"plain", "due", "high", "used"}]
  /\ gated \subseteq Node /\ expired \subseteq Node /\ pending \in Node \cup {None}
  /\ stop.kind \in Stops /\ stop.node \in Node \cup {None}
  /\ wave \subseteq Node /\ Cardinality(wave) <= plan.parallel
  /\ \A s, t \in wave : s # t /\ Running(s) /\ Running(t) =>
       D(s).produces \cap D(t).produces = {} /\ ~D(s).red
  /\ touched \subseteq Node

NoStop == [kind |-> "none", node |-> None]
Context(rows) ==
  /\ copy' = rows
  /\ att' = [t \in Node |-> None]
  /\ route' = [t \in Node |-> "plain"]
  /\ gated' = {} /\ pending' = None
  /\ expired' = {t \in Node : rows[t].status = "backlog"}
  /\ spent' = [t \in Node |-> 0]
  /\ stop' = NoStop /\ interrupted' = FALSE
  /\ wave' = {}
  /\ step' = [t \in Node |-> "begin"] /\ result' = [t \in Node |-> "none"]
  /\ touched' = {}

NewRow == [status |-> "queue", entered |-> 0, mech |-> {}, tail |-> FALSE, card |-> FALSE]

Init ==
  /\ GateInit
  /\ plan \in Plans
  /\ board = [t \in Node |-> NewRow] /\ copy = board
  /\ pc = "off"
  /\ att = [t \in Node |-> None]
  /\ route = [t \in Node |-> "plain"]
  /\ gated = {} /\ expired = {} /\ pending = None
  /\ spent = [t \in Node |-> 0]
  /\ stop = NoStop /\ interrupted = FALSE
  /\ wave = {}
  /\ step = [t \in Node |-> "begin"] /\ result = [t \in Node |-> "none"]
  /\ tries = [t \in Node |-> 0] /\ refunds = tries /\ slips = tries
  /\ touched = {}
  /\ runs = 0 /\ moves = 0 /\ faults = 0

(***************************************************************************)
(* Commands to the board.                                                  *)
(***************************************************************************)
Closed(rows, t) == \A d \in D(t).deps : rows[d].status = "done"

\* todos set status: a status that the row has already leaves no entry.
Written(rows, t, s) ==
  IF rows[t].status = s THEN rows
  ELSE [rows EXCEPT ![t].status = s,
                    ![t].entered = IF s = "in_progress" THEN @ + 1 ELSE @]

Answer(ok, b, c, f) == [ok |-> ok, board |-> b, copy |-> c, faults |-> f]

\* Mutant of Moves: a refusal is taken for a move.
MovesUnheard(t, s) ==
  LET moved == [copy EXCEPT ![t].status = s] IN
  IF copy[t].status = s THEN {Answer(TRUE, board, copy, faults)}
  ELSE IF s = "done" /\ ~Closed(board, t) THEN {Answer(TRUE, board, moved, faults)}
  ELSE {Answer(TRUE, Written(board, t, s), moved, faults)}
       \cup {Answer(TRUE, board, moved, f) : f \in {faults + 1} \cap 0..(MaxTrouble - moves)}

\* moveTo: what may come of it.  The command is spared when the copy has the status; done
\* is refused while the board has an open prerequisite; any command may fail.
Moves(t, s) ==
  IF copy[t].status = s THEN {Answer(TRUE, board, copy, faults)}
  ELSE IF s = "done" /\ ~Closed(board, t) THEN {Answer(FALSE, board, copy, faults)}
  ELSE {Answer(TRUE, Written(board, t, s), [copy EXCEPT ![t].status = s], faults)}
       \cup {Answer(FALSE, board, copy, f) : f \in {faults + 1} \cap 0..(MaxTrouble - moves)}

\* recordAttempt: the record of an attempt replaces an earlier one of its number.
Recorded(rows, t, mechanical, tail) ==
  [rows EXCEPT ![t].mech = IF mechanical THEN @ \cup {att[t]} ELSE @ \ {att[t]},
               ![t].tail = tail]

\* finishAttempt: the step has ended; b and c are the rows before the record.
End(t, kind, b, c, tail) ==
  /\ board' = Recorded(b, t, kind = "mechanics", tail)
  /\ copy' = [c EXCEPT ![t].mech = IF kind = "mechanics" THEN @ \cup {att[t]} ELSE @,
                       ![t].tail = tail]
  /\ refunds' = [refunds EXCEPT ![t] = IF kind = "mechanics" THEN @ + 1 ELSE @]
  /\ step' = [step EXCEPT ![t] = "ended"]
  /\ result' = [result EXCEPT ![t] = kind]

\* It ends without a move of the node.
EndHere(t, kind, tail) == End(t, kind, board, copy, tail) /\ UNCHANGED faults

Phase(t, p) == step' = [step EXCEPT ![t] = p]

(***************************************************************************)
(* The process.                                                            *)
(***************************************************************************)
\* run --go: what a gate that was cut off left is put back first.
StartRun ==
  /\ pc = "off" /\ runs < MaxRuns
  /\ runs' = runs + 1
  /\ pc' = "recover"
  /\ RecoveryBegins
  /\ UNCHANGED <<plan, board, ctx, steps, ghosts, touched, moves, faults>>

\* buildRunContext: the board is cloned.
LoadBoard ==
  /\ pc = "recover" /\ gate = "idle" /\ due = {}
  /\ pc' = "on"
  /\ Context(board)
  /\ UNCHANGED <<plan, board, ghosts, bounds, gateVars>>

\* SIGINT or SIGTERM
Interrupt ==
  /\ pc = "on" /\ ~interrupted /\ moves + faults < MaxTrouble
  /\ interrupted' = TRUE
  /\ faults' = faults + 1
  /\ UNCHANGED <<plan, board, pc, copy, att, route, gated, pending, expired, spent,
                 stop, steps, ghosts, touched, runs, moves, gateVars>>

\* The process dies, and with it all that it knows.
Die ==
  /\ pc # "off" /\ moves + faults < MaxTrouble
  /\ faults' = faults + 1
  /\ pc' = "off"
  /\ Context(board)
  /\ GateDies
  /\ UNCHANGED <<plan, board, ghosts, runs, moves>>

\* Somebody moves a task, with --force or in the application: nothing is checked.
PersonMoves ==
  /\ moves + faults < MaxTrouble
  /\ moves' = moves + 1
  /\ \E t \in Node : \E s \in Status \ {"backlog", board[t].status} :
       board' = Written(board, t, s) /\ touched' = touched \cup {t}
  /\ UNCHANGED <<plan, pc, ctx, steps, ghosts, runs, faults, gateVars>>

(***************************************************************************)
(* The head of the loop.                                                   *)
(***************************************************************************)
AtHead == pc = "on" /\ wave = {} /\ stop.kind = "none"

\* isNodeParked
NodeParked(t) ==
  \/ D(t).limit # None /\ AttemptsSoFar(copy[t]) >= D(t).limit
  \/ copy[t].status = "review" /\ D(t).kind # "empty"

\* expireParkedSteps, for a node that has been parked for long enough by its card, its
\* entry into review or, for want of both, its creation.  How long is not modelled.
Expire(t) ==
  /\ AtHead /\ ~interrupted
  /\ copy[t].status \notin {"done", "backlog"} /\ t \notin expired
  /\ NodeParked(t) /\ (copy[t].card \/ copy[t].status = "review")
  /\ \E m \in Moves(t, "backlog") :
       /\ m.ok
       /\ board' = m.board /\ copy' = m.copy /\ faults' = m.faults
  /\ expired' = expired \cup {t}
  /\ gated' = gated \ {t}
  /\ pending' = IF pending = t THEN None ELSE pending
  /\ UNCHANGED <<plan, pc, att, route, spent, stop, interrupted, steps, ghosts,
                 touched, runs, moves, gateVars>>

Frontier == {t \in Node \ expired : copy[t].status # "done" /\ Closed(copy, t)}
InReview(t) == copy[t].status = "review" /\ D(t).kind # "empty"
Spent == MapThenSumSet(LAMBDA t : spent[t], Node)

\* Mutant of BuildWave: steps that write the same file run at once.
BuildWaveTogether(ready) ==
  {{t \in ready : Cardinality({s \in ready : s < t}) < plan.parallel}}

\* In the order of numbers, up to the parallel limit and to the first node with a red
\* gate, without two that declare the same output: exactly one W is such a wave.
IsWave(ready, W) ==
  \A t \in ready : t \in W <=>
    /\ \A s \in ready : s <= t => ~D(s).red
    /\ Cardinality({s \in W : s < t}) < plan.parallel
    /\ \A s \in W : s < t => D(s).produces \cap D(t).produces = {}

\* Mutant of BuildWave: a node with a red gate never gets a wave of its own.
BuildWaveRedLast(ready) == {W \in SUBSET ready : IsWave(ready, W)}

\* buildWave: a node with a red gate runs alone.
BuildWave(ready) == IF D(Min(ready)).red THEN {{Min(ready)}}
                    ELSE {W \in SUBSET ready : IsWave(ready, W)}

Stop(kind, node) == stop' = IF stop.kind = "none" THEN [kind |-> kind, node |-> node] ELSE stop

\* One round of the loop: to stop, to end, or to begin a wave.
Round ==
  /\ AtHead
  /\ LET held == {t \in Frontier : InReview(t)} \ gated
         gate0 == IF pending = None /\ held # {} THEN Min(held) ELSE pending
         runnable == Frontier \ (gated \cup held)
     IN  IF interrupted THEN Stop("mechanics", None) /\ UNCHANGED <<gated, pending, wave>>
         ELSE /\ gated' = gated \cup held /\ pending' = gate0
              /\ IF runnable = {} THEN
                   /\ IF gate0 # None THEN Stop("gate", gate0)
                      ELSE IF \A t \in Node : copy[t].status = "done" \/ t \in expired
                      THEN Stop("end", None)
                      ELSE Stop("empty-frontier", None)
                   /\ UNCHANGED wave
                 ELSE IF plan.budget # None /\ Spent > plan.budget
                 THEN Stop("budget", Min(runnable)) /\ UNCHANGED wave
                 ELSE wave' \in BuildWave(runnable) /\ UNCHANGED stop
  /\ step' = [t \in Node |-> "begin"] /\ result' = [t \in Node |-> "none"]
  /\ UNCHANGED <<plan, board, pc, copy, att, route, expired, spent, interrupted, ghosts,
                 touched, bounds, gateVars>>

\* attachDecisionCard, and the end of the process.
Leave ==
  /\ pc = "on" /\ wave = {} /\ stop.kind # "none"
  /\ pc' = "off"
  /\ board' = [t \in Node |-> IF t = stop.node THEN [board[t] EXCEPT !.card = TRUE]
                              ELSE board[t]]
  /\ Context(board')
  /\ UNCHANGED <<plan, ghosts, bounds, gateVars>>

(***************************************************************************)
(* The step of one node of the wave.                                       *)
(***************************************************************************)
In(t, p) == pc = "on" /\ t \in wave /\ step[t] = p
stepRest == <<plan, pc, gated, pending, expired, spent, stop, interrupted, wave, touched,
              runs, moves>>

\* A manual node with nothing to approve is closed at once.
Skip(t) ==
  /\ In(t, "begin") /\ D(t).kind = "empty"
  /\ \E m \in Moves(t, "done") :
       /\ board' = m.board /\ copy' = m.copy /\ faults' = m.faults
       /\ result' = [result EXCEPT ![t] = IF m.ok THEN "gate-skipped" ELSE "undecided"]
  /\ Phase(t, "ended")
  /\ UNCHANGED <<stepRest, att, route, ghosts, gateVars>>

Before(t) == IF att[t] = None THEN AttemptsSoFar(copy[t]) ELSE att[t]

\* Mutant of Spare: the attempt after the last one is allowed.
SpareOneMore(t) == D(t).limit # None => Before(t) <= D(t).limit

\* Attempt M+1 never starts.
Spare(t) == D(t).limit # None => Before(t) + 1 <= D(t).limit

Exhausted(t) ==
  /\ In(t, "begin") /\ D(t).kind # "empty" /\ ~Spare(t)
  /\ Phase(t, "ended") /\ result' = [result EXCEPT ![t] = "retry-exhausted"]
  /\ UNCHANGED <<stepRest, board, copy, att, route, ghosts, faults, gateVars>>

\* beginStep: the base of a step with a red gate is recorded (that of other steps only
\* informs); the move to in_progress may be refused, the step goes on.
Begin(t) ==
  /\ In(t, "begin") /\ D(t).kind # "empty" /\ Spare(t)
  /\ att' = [att EXCEPT ![t] = Before(t) + 1]
  /\ route' = [route EXCEPT ![t] = CASE @ = "due" -> "high" [] @ = "high" -> "used"
                                     [] OTHER -> @]
  /\ \E m \in Moves(t, "in_progress") :
       /\ board' = m.board /\ copy' = m.copy /\ faults' = m.faults
       /\ slips' = [slips EXCEPT ![t] = IF board'[t].entered = board[t].entered
                                        THEN @ + 1 ELSE @]
  /\ tries' = [tries EXCEPT ![t] = @ + 1]
  /\ Phase(t, IF D(t).kind = "hand" THEN "gate" ELSE "work")
  /\ IF D(t).red /\ base[t] = None THEN RecordBase(t) ELSE UNCHANGED gateVars
  /\ UNCHANGED <<stepRest, result, refunds>>

\* The worker and the reviewer: the step goes on to its checks, to the person who closes
\* it, or ends here; an exception ends it as mechanical (runChange).  The last attempt's
\* snapshots and rollbacks are not modelled.
Work(t) ==
  /\ In(t, "work")
  /\ IF D(t).red THEN \E S \in {{}, File} : Produce(S, tries[t]) ELSE UNCHANGED gateVars
  /\ UNCHANGED <<stepRest, att, route, tries, slips>>
  /\ IF interrupted THEN EndHere(t, "mechanics", FALSE)
     ELSE \/ \E kind \in {"issue", "convergence", "mechanics"} : EndHere(t, kind, FALSE)
          \/ /\ Phase(t, IF D(t).kind = "gate" THEN "gate"
                         ELSE IF D(t).red THEN "red" ELSE "check")
             /\ UNCHANGED <<board, copy, faults, refunds, result>>

\* A gate stops at review, whatever the answer of the board.
ToPerson(t) ==
  /\ In(t, "gate")
  /\ \E m \in Moves(t, "review") : End(t, "gate", m.board, m.copy, FALSE) /\ faults' = m.faults
  /\ UNCHANGED <<stepRest, att, route, tries, slips, gateVars>>

\* No test or no production file was changed.
RedRefused(t) ==
  /\ In(t, "red")
  /\ EndHere(t, "issue", FALSE)
  /\ UNCHANGED <<stepRest, att, route, tries, slips, gateVars>>

RedBegins(t) ==
  /\ In(t, "red")
  /\ Mark(t)
  /\ Phase(t, "reverted")
  /\ UNCHANGED <<stepRest, board, copy, att, route, result, ghosts, faults>>

RedEnds(t) ==
  /\ In(t, "reverted") /\ gate = "idle"
  /\ IF verdict = "ok"
     THEN Phase(t, "check") /\ UNCHANGED <<board, copy, result, refunds, faults>>
     ELSE EndHere(t, "issue", FALSE)
  /\ UNCHANGED <<stepRest, att, route, tries, slips, gateVars>>

\* The gate and the recovery, when nothing fails.
GateGoesOn ==
  /\ pc # "off"
  /\ \/ Tested \/ Clear \/ \E f \in File : Revert(f) \/ Restore(f)
     \/ \E t \in Node : Recover(t)
  /\ UNCHANGED <<plan, board, pc, ctx, steps, ghosts, touched, bounds>>

GateFails ==
  /\ pc # "off" /\ moves + faults < MaxTrouble
  /\ faults' = faults + 1
  /\ RevertFails \/ RestoreRefused \/ ClearFails \/ \E f \in File : RestoreFails(f)
  /\ UNCHANGED <<plan, board, pc, ctx, steps, ghosts, touched, runs, moves>>

\* The flow gate, the declared check, and the outcome by the board's rules; the check or
\* the outcome may throw.
Check(t) ==
  /\ In(t, "check")
  /\ IF interrupted THEN EndHere(t, "mechanics", FALSE)
     ELSE \/ D(t).flow /\ EndHere(t, "flow-cannot", FALSE)
          \/ \E kind \in {"issue", "mechanics"}, tail \in BOOLEAN : EndHere(t, kind, tail)
          \/ EndHere(t, "convergence", TRUE)
          \/ EndHere(t, "undecided", FALSE)
          \/ Phase(t, "close") /\ UNCHANGED <<board, copy, faults, refunds, result>>
  /\ UNCHANGED <<stepRest, att, route, tries, slips, gateVars>>

\* It failed as in the attempt before, with an approved review: the attempt is given back.
CheckRepeats(t) ==
  /\ In(t, "check") /\ ~interrupted /\ copy[t].tail
  /\ EndHere(t, "mechanics", TRUE)
  /\ att' = [att EXCEPT ![t] = Max({0, @ - 1})]
  /\ UNCHANGED <<stepRest, route, tries, slips, gateVars>>

\* Done, if the board agrees.
Close(t) ==
  /\ In(t, "close")
  /\ \E m \in Moves(t, "done") :
       End(t, IF m.ok THEN "done" ELSE "undecided", m.board, m.copy, FALSE) /\ faults' = m.faults
  /\ UNCHANGED <<stepRest, att, route, tries, slips, gateVars>>

(***************************************************************************)
(* The results, in the order of numbers, when the whole wave has ended.    *)
(***************************************************************************)
Applying(t) ==
  pc = "on" /\ wave # {} /\ t = Min(wave) /\ \A s \in wave : step[s] \in {"ended", "requeue"}

Costs(t) == IF result[t] \in {"retry-exhausted", "gate-skipped"} \/ D(t).kind \in {"hand", "empty"}
            THEN 0 ELSE 1

Applied(t) ==
  /\ wave' = wave \ {t}
  /\ spent' = [spent EXCEPT ![t] = @ + Costs(t)]
  /\ UNCHANGED <<step, result>>

\* The node goes to s, if the board agrees; in any case its result is applied.
MoveOn(t, s) ==
  \E m \in Moves(t, s) : board' = m.board /\ copy' = m.copy /\ faults' = m.faults

applyRest == <<plan, pc, att, expired, interrupted, ghosts, touched, runs, moves, gateVars>>

ParkKind(kind) ==
  CASE kind = "mechanics" -> "mechanics"
    [] kind = "undecided" -> "outcome"
    [] kind = "retry-exhausted" -> "retry"
    [] OTHER -> kind

\* deferGate: the run goes on with the other nodes.
ApplyGate(t) ==
  /\ Applying(t) /\ result[t] = "gate"
  /\ gated' = gated \cup {t}
  /\ pending' = IF pending = None THEN t ELSE pending
  /\ Applied(t)
  /\ UNCHANGED <<applyRest, board, copy, route, stop, faults>>

\* A node that the run cannot decide goes to a person, and the run stops.
ApplyPark(t) ==
  /\ Applying(t)
  /\ result[t] \in {"flow-cannot", "retry-exhausted", "undecided", "mechanics", "convergence"}
  /\ MoveOn(t, "review")
  /\ Stop(ParkKind(result[t]), t)
  /\ Applied(t)
  /\ UNCHANGED <<applyRest, route, gated, pending>>

Overrun(t) == D(t).budget # None /\ spent[t] + Costs(t) > D(t).budget

ApplyDone(t) ==
  /\ Applying(t) /\ result[t] \in {"done", "gate-skipped"}
  /\ IF Overrun(t) THEN Stop("budget", t) ELSE UNCHANGED stop
  /\ Applied(t)
  /\ UNCHANGED <<applyRest, board, copy, route, gated, pending, faults>>

\* An issue that allows no further attempt.
ApplyIssueStop(t) ==
  /\ Applying(t) /\ result[t] = "issue" /\ step[t] = "ended"
  /\ IF Overrun(t) THEN Stop("budget", t)
     ELSE IF route[t] = "high" THEN Stop("convergence", t)
     ELSE (D(t).limit # None => att[t] >= D(t).limit) /\ Stop("retry", t)
  /\ MoveOn(t, "review")
  /\ Applied(t)
  /\ UNCHANGED <<applyRest, route, gated, pending>>

\* applyIssue: the target is opened again, then the node, whatever the board answers.
\* The next attempt may take the high route.
ApplyIssue(t) ==
  /\ Applying(t) /\ result[t] = "issue" /\ step[t] = "ended"
  /\ ~Overrun(t) /\ route[t] # "high" /\ D(t).limit # None /\ att[t] < D(t).limit
  /\ \/ UNCHANGED route
     \/ route[t] = "plain" /\ route' = [route EXCEPT ![t] = "due"]
  /\ IF D(t).on_issue = None
     THEN MoveOn(t, "queue") /\ Applied(t)
     ELSE MoveOn(D(t).on_issue, "queue") /\ Phase(t, "requeue") /\ UNCHANGED <<wave, spent, result>>
  /\ UNCHANGED <<applyRest, gated, pending, stop>>

Requeue(t) ==
  /\ Applying(t) /\ step[t] = "requeue"
  /\ MoveOn(t, "queue")
  /\ Applied(t)
  /\ UNCHANGED <<applyRest, route, gated, pending, stop>>

(***************************************************************************)
(* The specification.                                                      *)
(***************************************************************************)
NodeStep(t) ==
  \/ Skip(t) \/ Exhausted(t) \/ Begin(t) \/ Work(t) \/ ToPerson(t)
  \/ RedRefused(t) \/ RedBegins(t) \/ RedEnds(t) \/ Check(t) \/ CheckRepeats(t) \/ Close(t)
  \/ ApplyGate(t) \/ ApplyPark(t) \/ ApplyDone(t) \/ ApplyIssueStop(t) \/ ApplyIssue(t)
  \/ Requeue(t)

RunStep ==
  \/ LoadBoard \/ Round \/ Leave \/ GateGoesOn
  \/ \E t \in Node : Expire(t) \/ NodeStep(t)

Next == StartRun \/ RunStep \/ Interrupt \/ Die \/ PersonMoves \/ GateFails

Spec == Init /\ [][Next]_vars

\* A run that was started goes on: workers, reviewers and checks have a time limit, and
\* the loop awaits nothing else.
FairSpec == Spec /\ WF_vars(RunStep)

(***************************************************************************)
(* Properties.                                                             *)
(***************************************************************************)
\* The limit over all runs of a change: of the attempts that were begun and not recorded as
\* mechanical a node has at most as many as its limit allows, and one more for every time
\* that a command was refused, a run was cut off or somebody moved a task: then the board
\* may not see an attempt begin.  Nothing else costs it one, however many runs there are.
AttemptLimit ==
  \A t \in Node : D(t).limit # None => tries[t] - refunds[t] <= D(t).limit + moves + faults

\* "Invariant: attempt M+1 NEVER starts" (run.mjs:1048), whatever happens: of the attempts
\* that were begun, without those recorded as mechanical.
NeverPastLimit == \A t \in Node : D(t).limit # None => tries[t] - refunds[t] <= D(t).limit

\* A run on a board on which people move tasks too.  Of those that nobody has moved since
\* it started it knows the status.  It closes none that a person has to close.  It takes a
\* task out of a person's hands, or opens a closed one, only as the target of another's
\* issue, as a gate with nothing to approve, because it was parked for too long, or because
\* it works on the task itself: what a person then does to it, the run does not see and
\* moves over.
HandsOff ==
  [][pc = "on" /\ moves' = moves =>
       \A t \in Node :
         /\ t \notin touched => board'[t].status = copy'[t].status
         /\ board[t].status # "done" /\ board'[t].status = "done" =>
              D(t).kind \in {"auto", "empty"} /\ Closed(board, t)
         /\ board[t].status \in {"review", "done"} /\ board'[t].status # board[t].status =>
              \/ t \in touched \cap wave \/ D(t).kind = "empty" \/ t \in expired'
              \/ \E s \in wave : result[s] = "issue" /\ D(s).on_issue = t
    ]_vars

\* A run comes to its end: whatever the workers answer, the loop does not go round for
\* ever, and no wave waits for a step that waits for another.
RunEnds == (pc = "on") ~> (pc = "off")
=============================================================================
