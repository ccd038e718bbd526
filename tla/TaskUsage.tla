----------------------------- MODULE TaskUsage -----------------------------
(***************************************************************************)
(* What a task cost: the journal of which session worked on which task     *)
(* (task-sessions.jsonl, appended by the CLI, the runner and the hook of   *)
(* sessions) folded into blocks (board/task_sessions.rs) and joined with   *)
(* the messages that Transcripts has read so far; sessions without a       *)
(* journal are judged by other evidence (task_cost/task_cost.rs).  Every   *)
(* message counts for one: tokens and prices are not modelled.             *)
(***************************************************************************)
EXTENDS Transcripts, SequencesExt

CONSTANTS
  Task, Project,
  Desks(_)   \* what surrounds the logs of a day: the boards and evidence explored

Sources == {"take", "auto", "run-step"}
Event == [ts : Stamp, session : Session, task : Task, event : {"start", "end"},
          source : Sources]

\* A reference in a transcript: an id, or a number as it was typed.
Ref == [task : Task] \cup [number : Nat]

\* A task of the board; history: the times of its status_history, and whether it was set
\* to in_progress.
Card == [number : Nat, project : Project \cup {None},
         history : Seq([at : Stamp, busy : BOOLEAN])]
Evidence == [moves : SUBSET Ref, touched : SUBSET Ref, mentions : SUBSET Ref]

\* order: of the rows in the file; project: of each session; evidence: of task-attribution.json, None if it is not listed;
\* events: what may be appended to the journal; binds: bound on their number.
Desk == [board : [Task -> Card \cup {None}], order : Seq(Task),
         project : [Session -> Project \cup {None}],
         evidence : [Session -> Evidence \cup {None}], events : SUBSET Event, binds : Nat]

\* A span of a session; to is 0 while it is open.
Block == [task : Task, from : Stamp, to : Stamp \cup {0}, source : Sources]

ASSUME UsageAssumption ==
  /\ \A d \in Days : Desks(d) \subseteq Desk
  /\ IsFiniteSet(Id) /\ IsFiniteSet(Task)
  /\ None \notin Event \cup Block

VARIABLES
  desk,
  journal

vars == <<transcriptVars, desk, journal>>

Init == TranscriptInit /\ desk \in Desks(day) /\ journal = <<>>

\* appendTaskSessionEvent: the time is taken before the wait for the data directory, so
\* that the journal is not in the order of time.
Bind ==
  /\ Len(journal) < desk.binds
  /\ \E e \in desk.events : journal' = Append(journal, e)
  /\ UNCHANGED <<transcriptVars, desk>>

Next == Bind \/ (TranscriptNext /\ UNCHANGED <<desk, journal>>)

Spec == Init /\ [][Next]_vars

\* Windows are opened and refreshed again, and a command that was begun goes on: some
\* command always takes another step.
Commands == UNCHANGED <<desk, journal>> /\ \E p \in day.passes : PassStep(p)

FairSpec == Spec /\ WF_vars(Commands)

(***************************************************************************)
(* Blocks.                                                                 *)
(***************************************************************************)
Places(s) == {i \in DOMAIN journal : journal[i].session = s}
Before(i, j) == journal[i].ts < journal[j].ts \/ (journal[i].ts = journal[j].ts /\ i < j)

\* The places of a session's events by their time, those of one time as they stand.
Sorted(q) == \A i, j \in DOMAIN q : i < j => Before(q[i], q[j])
Order(s) == CHOOSE q \in [1..Cardinality(Places(s)) -> Places(s)] : Sorted(q)
EventsOf(s) == [k \in DOMAIN Order(s) |-> journal[Order(s)[k]]]

Messages(s) == {x \in Id : rows["usage"][x] # None /\ rows["usage"][x].session = s}
Times(s) == {rows["usage"][x].at : x \in Messages(s)}

\* Mutant of Closes: by any end.
ClosesAny(b, e) == TRUE

\* A session works on one task at a time: an open block is closed by a start of any task
\* or by an end of its own.
Closes(b, e) == e.event = "start" \/ e.task = b.task

\* Mutant of Fold: a start closes the open block without keeping it.
FoldDropping(acc, e) ==
  LET closing == acc.open # None /\ Closes(acc.open, e) IN
  [done |-> IF closing /\ e.event = "end"
            THEN Append(acc.done, [acc.open EXCEPT !.to = e.ts]) ELSE acc.done,
   open |-> IF e.event = "start"
            THEN [task |-> e.task, from |-> e.ts, to |-> 0, source |-> e.source]
            ELSE IF closing THEN None ELSE acc.open]

Fold(acc, e) ==
  LET closing == acc.open # None /\ Closes(acc.open, e) IN
  [done |-> IF closing THEN Append(acc.done, [acc.open EXCEPT !.to = e.ts]) ELSE acc.done,
   open |-> IF e.event = "start"
            THEN [task |-> e.task, from |-> e.ts, to |-> 0, source |-> e.source]
            ELSE IF closing THEN None ELSE acc.open]

\* blocks: what is still open ends with the last message of the session that is known.
Blocks(s) ==
  LET acc == FoldLeft(Fold, [done |-> <<>>, open |-> None], EventsOf(s))
  IN IF acc.open = None THEN acc.done
     ELSE Append(acc.done, [acc.open EXCEPT !.to = Max(Times(s) \cup {acc.open.from})])

\* block_totals: both ends are inclusive.
InBlock(b, x) == b.from <= rows["usage"][x].at /\ rows["usage"][x].at <= b.to

\* open_run_step_starts of the keep-awake worker: the steps of a run that go on.
Reopen(open, e) ==
  IF e.event = "start" THEN e
  ELSE IF open # None /\ open.task = e.task THEN None ELSE open
OpenStep(s) ==
  LET e == FoldLeft(Reopen, None, EventsOf(s))
  IN IF e # None /\ e.source = "run-step" THEN {e.ts} ELSE {}

(***************************************************************************)
(* Costs.                                                                  *)
(***************************************************************************)
OnBoard == {t \in Task : desk.board[t] # None}

\* The task of the first row that is one of S, if there is one.
FirstRow(S) ==
  {desk.order[i] : i \in {j \in DOMAIN desk.order :
     desk.order[j] \in S /\ \A k \in 1..(j - 1) : desk.order[k] \notin S}}

\* Mutant of Named: a number means any task.
NamedAnywhere(r, project) ==
  IF "task" \in DOMAIN r THEN {r.task} \cap OnBoard
  ELSE FirstRow({t \in OnBoard : desk.board[t].number = r.number})

\* resolve_idx: a number means the first task of that number of the session's own project,
\* or of none.
Named(r, project) ==
  IF "task" \in DOMAIN r THEN {r.task} \cap OnBoard
  ELSE FirstRow({t \in OnBoard : desk.board[t].number = r.number
                                  /\ desk.board[t].project \in {None, project}})

Resolve(refs, project) == UNION {Named(r, project) : r \in refs}

\* in_progress_spans and overlaps, for a session with messages.
BusyDuring(t, s) ==
  LET h == desk.board[t].history IN
  \E i \in DOMAIN h :
    /\ h[i].busy
    /\ i < Len(h) => Min(Times(s)) < h[i + 1].at
    /\ h[i].at < Max(Times(s))

\* One task is charged, several are ambiguous, none is no evidence.
Verdict(tasks) == IF Cardinality(tasks) > 1 THEN "ambiguous"
                  ELSE IF tasks = {} THEN "none" ELSE "charged"

\* judge and judge_journal: the tasks that the strongest evidence names.
Judged(s) ==
  LET bound == {b.task : b \in Range(Blocks(s))}
      ev == desk.evidence[s]
      own == desk.project[s]
      moved == Resolve(ev.moves, own)
      touched == Resolve(ev.touched, own)
  IN IF bound # {} THEN bound \cap OnBoard
     ELSE IF ev = None THEN {}
     ELSE IF moved # {} THEN moved
     ELSE IF touched # {} THEN touched
     ELSE IF own = None THEN {}
     ELSE {t \in Resolve(ev.mentions, own) :
             desk.board[t].project = own /\ BusyDuring(t, s)}

\* compute: per task, and what is ambiguous.
Seen == {s \in Session : Messages(s) # {}}
Sum(S) == MapThenSumSet(LAMBDA s : Cardinality(Messages(s)), S)
ChargedTo(t) == {s \in Seen : Verdict(Judged(s)) = "charged" /\ t \in Judged(s)}
Doubtful == {s \in Seen : Verdict(Judged(s)) = "ambiguous"}
Cost(t) == Sum(ChargedTo(t))
Ambiguous == Sum(Doubtful)

(***************************************************************************)
(* Properties.                                                             *)
(***************************************************************************)
\* Start i ends when its session later starts any task or ends this one.
Ends(k, i) ==
  /\ journal[k].session = journal[i].session /\ Before(i, k)
  /\ journal[k].event = "start" \/ journal[k].task = journal[i].task

StartsOf(s) == {i \in DOMAIN journal : journal[i].session = s /\ journal[i].event = "start"}

WorkedOn(s, t, at) ==
  \E i \in StartsOf(s) :
    /\ journal[i].task = t /\ journal[i].ts <= at
    /\ \A k \in DOMAIN journal : Ends(k, i) => at <= journal[k].ts

\* Whatever the order in which events were appended and however much of the logs has been
\* read: a message counts for the tasks that its session was bound to at its time, both
\* ends included, and for no other; and the keep-awake worker, which folds the journal by
\* itself, sees a step of a run as long as its block is open.
BlocksFollowWork ==
  \A s \in Session :
    LET blocks == Range(Blocks(s)) IN
    /\ \A x \in Messages(s), t \in Task :
         (\E b \in blocks : b.task = t /\ InBlock(b, x))
           <=> WorkedOn(s, t, rows["usage"][x].at)
    /\ OpenStep(s) = {journal[i].ts : i \in {k \in StartsOf(s) :
                        journal[k].source = "run-step" /\ \A l \in DOMAIN journal : ~Ends(l, k)}}

\* The two views of a cost agree: a message in a block of a task of the board is charged
\* to that task or its session is ambiguous.  Every message whose session is judged is in
\* one sum: that of one task, or of what is ambiguous.  A session that neither the journal
\* nor an id binds to a task pays for none of another project, whatever number it names.
CostsAgree ==
  /\ \A s \in Seen :
       /\ \A b \in Range(Blocks(s)) : b.task \in OnBoard =>
            \/ Verdict(Judged(s)) = "ambiguous"
            \/ Judged(s) = {b.task}
       /\ \A t \in Judged(s) :
            \/ desk.board[t].project \in {None, desk.project[s]}
            \/ \E i \in StartsOf(s) : journal[i].task = t
            \/ [task |-> t] \in desk.evidence[s].moves \cup desk.evidence[s].touched
  /\ \A t, u \in OnBoard : t # u => ChargedTo(t) \cap ChargedTo(u) = {}
  /\ MapThenSumSet(Cost, OnBoard) + Ambiguous
       = Cardinality(UNION {Messages(s) : s \in {r \in Seen : Judged(r) # {}}})
=============================================================================
