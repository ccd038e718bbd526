---------------------------- MODULE Transcripts ----------------------------
(***************************************************************************)
(* The reading of other programs' logs into the statistics database: the   *)
(* command ingest_cc_usage (lib.rs, analytics/cc.rs, analytics/codex.rs)   *)
(* reads the transcripts of Claude Code and then the rollouts of Codex,    *)
(* each file from where the last reading ended.  Windows give the command  *)
(* when they load, without waiting for one another.  The second reader,    *)
(* latest_limits, looks in the rollouts for the newest snapshot of the     *)
(* subscription limits and keeps offsets of its own.                       *)
(*                                                                         *)
(* The logs only grow, a line at a time, and a reader may see half of the  *)
(* last line.  A size is 2 for a line, 1 for half a line.                  *)
(***************************************************************************)
EXTENDS Integers, Sequences, FiniteSetsExt

CONSTANTS
  File,       \* logs
  Codex,      \* those that are rollouts of Codex
  Pass,       \* commands ingest_cc_usage
  Id,         \* message ids
  Session, Model, Stamp,
  None,
  Days        \* what is explored: who writes and who reads

Tables == {"usage", "result", "turn"}

\* A line of a log.  A "session" or "model" line of a rollout sets the context of those
\* that follow; a row has a table, and a session and a model of its own if it is Claude's.
Line == [kind : Tables \cup {"session", "model"}, id : Id, at : Stamp,
         session : Session \cup {None}, model : Model \cup {None}, limits : BOOLEAN]
Row == [session : Session \cup {None}, model : Model \cup {None}, at : Stamp]

\* logs: what each file that is there will hold; halves: those that may be seen with half a
\* line; passes: the commands that are given; limits: is the second reader used; faults:
\* bound on failed calls and ends of the application.
IsDay(d) ==
  /\ DOMAIN d.logs \subseteq File /\ d.logs \in [DOMAIN d.logs -> Seq(Line)]
  /\ d.halves \subseteq File /\ d.passes \subseteq Pass /\ d.limits \in BOOLEAN /\ d.faults \in Nat

ASSUME TranscriptsAssumption ==
  /\ Codex \subseteq File /\ IsFiniteSet(File)
  /\ \A d \in Days : IsDay(d)
  /\ Stamp \subseteq Nat \ {0}
  /\ None \notin Session \cup Model \cup Row \cup File

VARIABLES
  day,     \* the element of Days that this behaviour explores
  len,     \* complete lines of each file
  torn,    \* the files that end in half a line
  rows,    \* the tables of the database
  state,   \* cc_files
  pc, store, saw, todo, job,   \* of each command
  short,   \* files whose last saved state is of a reading that failed
  lim,     \* the second reader
  kept,    \* its table, codex_limit_files
  faults

logVars == <<day, len, torn>>
passVars == <<pc, store, saw, todo, job>>
limVars == <<lim, kept>>
transcriptVars == <<logVars, rows, state, passVars, short, limVars, faults>>

log(f) == day.logs[f]
Logs == DOMAIN day.logs
Size(f) == 2 * len[f] + (IF f \in torn THEN 1 ELSE 0)
OfStore(s) == IF s = "codex" THEN Logs \cap Codex ELSE Logs \ Codex

(***************************************************************************)
(* Parsing.                                                                *)
(***************************************************************************)
Unset == [session |-> None, model |-> None]
Context == [session : Session \cup {None}, model : Model \cup {None}]

\* The lines of a kind among lines m+1..n.
Of(s, m, n, kind) == {i \in (m + 1)..n : s[i].kind = kind}

\* The context after lines m+1..n, which are read in context c.
After(s, c, m, n) ==
  LET ses == Of(s, m, n, "session")
      mod == Of(s, m, n, "model")
  IN [session |-> IF ses = {} THEN c.session ELSE s[Max(ses)].session,
      model |-> IF mod = {} THEN c.model ELSE s[Max(mod)].model]

\* The row of a line that is read in context c.
RowOf(l, c) == [session |-> IF l.session = None THEN c.session ELSE l.session,
                model |-> IF l.model = None THEN c.model ELSE l.model,
                at |-> l.at]

\* INSERT OR IGNORE of the rows of lines m+1..n, in their order: an id keeps its first row.
Upsert(table, t, s, c, m, n) ==
  [x \in Id |->
     LET hits == {i \in Of(s, m, n, t) : s[i].id = x}
     IN IF table[x] # None \/ hits = {} THEN table[x]
        ELSE RowOf(s[Min(hits)], After(s, c, m, Min(hits)))]

(***************************************************************************)
(* Types and initial states.                                               *)
(***************************************************************************)
\* size: of the file when the reading began; offset: complete lines read; ctx: after them.
State == [size : Nat, offset : Nat, ctx : Context]
Job == [file : File, size : Nat, from : Nat, ctx : Context, to : Nat, due : SUBSET Tables,
        cut : BOOLEAN]

Snapshot == [size : Nat, offset : Nat, snap : Stamp \cup {0}]

TypeOK ==
  /\ day \in Days
  /\ len \in [File -> Nat] /\ \A f \in Logs : len[f] <= Len(log(f))
  /\ torn \subseteq File
  /\ rows \in [Tables -> [Id -> Row \cup {None}]]
  /\ state \in [File -> State \cup {None}]
  /\ pc \in [Pass -> {"idle", "visit", "read", "store"}]
  /\ store \in [Pass -> {"claude", "codex"}]
  /\ saw \in [Pass -> [File -> State \cup {None}]]
  /\ todo \in [Pass -> SUBSET File]
  /\ job \in [Pass -> Job \cup {None}]
  /\ \A p \in Pass : pc[p] \in {"read", "store"} => job[p] # None
  /\ short \subseteq File
  /\ kept \in [File -> Snapshot \cup {None}]
  /\ faults \in 0..day.faults

Unseen == [f \in File |-> None]
NoReading == [pc |-> "idle", saw |-> Unseen, todo |-> {}, job |-> None,
              newest |-> 0, must |-> 0, missed |-> FALSE]

TranscriptInit ==
  /\ day \in Days
  /\ len = [f \in File |-> 0] /\ torn = {}
  /\ rows = [t \in Tables |-> [x \in Id |-> None]]
  /\ state = Unseen
  /\ pc = [p \in Pass |-> "idle"] /\ store = [p \in Pass |-> "claude"]
  /\ saw = [p \in Pass |-> Unseen]
  /\ todo = [p \in Pass |-> {}] /\ job = [p \in Pass |-> None]
  /\ short = {}
  /\ lim = NoReading /\ kept = Unseen
  /\ faults = 0

(***************************************************************************)
(* The programs that write the logs.                                       *)
(***************************************************************************)
Grow(f) ==
  /\ f \in Logs /\ len[f] < Len(log(f))
  /\ \/ f \in day.halves \ torn /\ torn' = torn \cup {f} /\ UNCHANGED len
     \/ torn' = torn \ {f} /\ len' = [len EXCEPT ![f] = @ + 1]
  /\ UNCHANGED <<day, rows, state, passVars, short, limVars, faults>>

(***************************************************************************)
(* ingest_cc_usage.                                                        *)
(***************************************************************************)
Fail == faults < day.faults /\ faults' = faults + 1

\* The saved states of all files are read, and the files are listed.
Enter(p, s) ==
  /\ pc' = [pc EXCEPT ![p] = "visit"]
  /\ store' = [store EXCEPT ![p] = s]
  /\ saw' = [saw EXCEPT ![p] = state]
  /\ todo' = [todo EXCEPT ![p] = OfStore(s)]
  /\ UNCHANGED <<logVars, rows, state, job, short, limVars, faults>>

Begin(p) == p \in day.passes /\ pc[p] = "idle" /\ Enter(p, "claude")

Rollouts(p) == pc[p] = "visit" /\ todo[p] = {} /\ store[p] = "claude" /\ Enter(p, "codex")

\* What commands P know is gone.
Leave(P) ==
  /\ pc' = [p \in Pass |-> IF p \in P THEN "idle" ELSE pc[p]]
  /\ store' = [p \in Pass |-> IF p \in P THEN "claude" ELSE store[p]]
  /\ saw' = [p \in Pass |-> IF p \in P THEN Unseen ELSE saw[p]]
  /\ todo' = [p \in Pass |-> IF p \in P THEN {} ELSE todo[p]]
  /\ job' = [p \in Pass |-> IF p \in P THEN None ELSE job[p]]

Finish(p) ==
  /\ pc[p] = "visit" /\ todo[p] = {} /\ store[p] = "codex"
  /\ Leave({p})
  /\ UNCHANGED <<logVars, rows, state, short, limVars, faults>>

\* Where to read on in a file that has grown since `old`, and in which context.
Resumes(old, size) == old # None /\ size > old.size /\ 2 * old.offset <= old.size

\* Mutant of Plan: a rollout is read on in an empty context.
PlanForgetful(f, old) ==
  LET on == Resumes(old, Size(f))
      at == IF on THEN old.offset ELSE 0
  IN [file |-> f, size |-> Size(f), from |-> at, ctx |-> Unset,
      to |-> at, due |-> {}, cut |-> FALSE]

Plan(f, old) ==
  LET on == Resumes(old, Size(f))
      at == IF on THEN old.offset ELSE 0
  IN [file |-> f, size |-> Size(f), from |-> at, ctx |-> IF on THEN old.ctx ELSE Unset,
      to |-> at, due |-> {}, cut |-> FALSE]

Unchanged(old, size) == old # None /\ old.size = size

\* A file of the saved size has not changed; one that cannot be looked at is left out.
Visit(p, f) ==
  /\ pc[p] = "visit" /\ f \in todo[p]
  /\ todo' = [todo EXCEPT ![p] = @ \ {f}]
  /\ \/ Unchanged(saw[p][f], Size(f)) /\ UNCHANGED <<pc, job, faults>>
     \/ Fail /\ UNCHANGED <<pc, job>>
     \/ /\ ~Unchanged(saw[p][f], Size(f))
        /\ job' = [job EXCEPT ![p] = Plan(f, saw[p][f])]
        /\ pc' = [pc EXCEPT ![p] = "read"]
        /\ UNCHANGED faults
  /\ UNCHANGED <<logVars, rows, state, store, saw, short, limVars>>

\* The complete lines that are there by now; a reading that fails ends early.
Read(p) ==
  /\ pc[p] = "read"
  /\ LET f == job[p].file IN
     \E n \in job[p].from..len[f] :
       /\ IF n = len[f] THEN UNCHANGED faults ELSE Fail
       /\ job' = [job EXCEPT ![p].to = n, ![p].cut = n < len[f],
                    ![p].due = {t \in Tables : Of(log(f), job[p].from, n, t) # {}}]
  /\ pc' = [pc EXCEPT ![p] = "store"]
  /\ UNCHANGED <<logVars, rows, state, store, saw, todo, short, limVars>>

\* The tables are written in this order, each in a transaction of its own.
First(due) == IF "usage" \in due THEN "usage" ELSE IF "result" \in due THEN "result" ELSE "turn"

Insert(p) ==
  /\ pc[p] = "store" /\ job[p].due # {}
  /\ LET j == job[p]
         t == First(j.due)
     IN /\ rows' = [rows EXCEPT ![t] = Upsert(@, t, log(j.file), j.ctx, j.from, j.to)]
        /\ job' = [job EXCEPT ![p].due = @ \ {t}]
  /\ UNCHANGED <<logVars, state, pc, store, saw, todo, short, limVars, faults>>

\* Mutant of Saved: the size at the time of saving.
SavedLate(j) == [size |-> Size(j.file), offset |-> j.to,
                 ctx |-> After(log(j.file), j.ctx, j.from, j.to)]

\* cc_set_file_state: the size is the one seen before the file was read.
Saved(j) == [size |-> j.size, offset |-> j.to,
             ctx |-> After(log(j.file), j.ctx, j.from, j.to)]

Save(p) ==
  /\ pc[p] = "store" /\ job[p].due = {}
  /\ LET j == job[p] IN
     /\ state' = [state EXCEPT ![j.file] = Saved(j)]
     /\ short' = IF j.cut THEN short \cup {j.file} ELSE short \ {j.file}
  /\ pc' = [pc EXCEPT ![p] = "visit"]
  /\ job' = [job EXCEPT ![p] = None]
  /\ UNCHANGED <<logVars, rows, store, saw, todo, limVars, faults>>

\* A call of the database fails: the command ends with the error.
Abort(p) ==
  /\ pc[p] = "store" \/ (pc[p] = "visit" /\ todo[p] = {} /\ store[p] = "claude")
  /\ Fail
  /\ Leave({p})
  /\ UNCHANGED <<logVars, rows, state, short, limVars>>

(***************************************************************************)
(* latest_limits, one call at a time (PASS_LOCK).                          *)
(***************************************************************************)
Newest(S) == Max(S \cup {0})
Snaps(f, m, n) == {log(f)[i].at : i \in {k \in (m + 1)..n : log(f)[k].limits}}

\* Table rows that cannot be read count as none.
LimitsBegin ==
  /\ day.limits /\ lim.pc = "idle"
  /\ \E known \in {kept, Unseen} :
       /\ IF known = kept THEN UNCHANGED faults ELSE Fail
       /\ lim' = [NoReading EXCEPT !.pc = "visit", !.todo = OfStore("codex"), !.saw = known,
                    !.must = Newest(UNION {Snaps(f, 0, len[f]) : f \in OfStore("codex")})]
  /\ UNCHANGED <<logVars, rows, state, passVars, short, kept>>

Reusable(old) == old # None /\ 2 * old.offset <= old.size

LimitsVisit(f) ==
  /\ lim.pc = "visit" /\ f \in lim.todo
  /\ LET old == lim.saw[f]
         on == Reusable(old) /\ Size(f) > old.size
     IN IF Reusable(old) /\ old.size = Size(f)
        THEN lim' = [lim EXCEPT !.todo = @ \ {f}, !.newest = Newest({@, old.snap})]
        ELSE lim' = [lim EXCEPT !.todo = @ \ {f}, !.pc = "scan",
                       !.job = [file |-> f, size |-> Size(f),
                                from |-> IF on THEN old.offset ELSE 0,
                                prior |-> IF on THEN old.snap ELSE 0]]
  /\ UNCHANGED <<logVars, rows, state, passVars, short, kept, faults>>

\* A file that cannot be looked at or read is left out of this answer.
LimitsMiss(f) ==
  /\ Fail
  /\ \/ lim.pc = "visit" /\ f \in lim.todo
     \/ lim.pc = "scan" /\ f = lim.job.file
  /\ lim' = [lim EXCEPT !.pc = "visit", !.todo = @ \ {f}, !.missed = TRUE]
  /\ UNCHANGED <<logVars, rows, state, passVars, short, kept>>

\* Mutant of Scanned: the snapshot of the new lines only.
ScannedAnew(j) == [size |-> j.size, offset |-> len[j.file],
                   snap |-> Newest(Snaps(j.file, j.from, len[j.file]))]

\* What is kept of a scanned file: the newest snapshot by its own time.
Scanned(j) == [size |-> j.size, offset |-> len[j.file],
               snap |-> Newest({j.prior} \cup Snaps(j.file, j.from, len[j.file]))]

\* An error of the database on saving is ignored.
LimitsScan ==
  /\ lim.pc = "scan"
  /\ LET j == lim.job IN
     /\ \/ kept' = [kept EXCEPT ![j.file] = Scanned(j)] /\ UNCHANGED faults
        \/ Fail /\ UNCHANGED kept
     /\ lim' = [lim EXCEPT !.pc = "visit", !.newest = Newest({@, Scanned(j).snap})]
  /\ UNCHANGED <<logVars, rows, state, passVars, short>>

LimitsEnd ==
  /\ lim.pc = "visit" /\ lim.todo = {}
  /\ lim' = [lim EXCEPT !.pc = "idle"]
  /\ UNCHANGED <<logVars, rows, state, passVars, short, kept, faults>>

(***************************************************************************)
(* The specification.                                                      *)
(***************************************************************************)
\* The application ends; the database keeps what was written.
Exit ==
  /\ Fail
  /\ Leave(Pass)
  /\ lim' = NoReading
  /\ UNCHANGED <<logVars, rows, state, short, kept>>

PassStep(p) ==
  \/ Begin(p) \/ Rollouts(p) \/ Finish(p) \/ (\E f \in File : Visit(p, f)) \/ Read(p) \/ Insert(p)
  \/ Save(p)

LimitsStep == LimitsBegin \/ LimitsScan \/ LimitsEnd \/ \E f \in File : LimitsVisit(f)

TranscriptNext ==
  \/ \E f \in File : Grow(f) \/ LimitsMiss(f)
  \/ \E p \in Pass : PassStep(p) \/ Abort(p)
  \/ LimitsStep
  \/ Exit

(***************************************************************************)
(* Properties.                                                             *)
(***************************************************************************)
Covered(f, n) == \A i \in 1..n : log(f)[i].kind \in Tables => rows[log(f)[i].kind][log(f)[i].id] # None

\* A file of the saved size is not opened again and a longer one is read from the saved
\* offset, so the offset may never pass a line whose row is missing: not when two commands
\* read the file at once, when a call fails between two tables, when the application ends.
NothingSkipped == \A f \in Logs : state[f] # None => Covered(f, state[f].offset)

\* The row that a reading of file f from its beginning gives for line i.
FullRow(f, i) == RowOf(log(f)[i], After(log(f), Unset, 0, i))

FirstOf(f, t, x, i) ==
  /\ i \in 1..len[f] /\ log(f)[i].kind = t /\ log(f)[i].id = x
  /\ \A k \in 1..(i - 1) : ~(log(f)[k].kind = t /\ log(f)[k].id = x)

\* A rollout names its session and model once, lines before the rows they belong to: a
\* row is that of the first line of its id in some file read from its beginning, whatever
\* readings it was found by.
RowsTrue ==
  \A t \in Tables, x \in Id : rows[t][x] # None =>
    \E f \in Logs : \E i \in 1..len[f] : FirstOf(f, t, x, i) /\ rows[t][x] = FullRow(f, i)

\* What the database and its offsets say of the logs is true.
StoreTrue == NothingSkipped /\ RowsTrue

\* When windows go on giving the command, every complete line ends up in the database,
\* but for those of a file whose last reading failed: its size is saved all the same, so
\* that they have to wait for the file to grow.
Counted ==
  <>[](day.passes # {} => \A f \in Logs : Covered(f, len[f]) \/ f \in short)

\* An answer of latest_limits is as new as every snapshot that was complete when it was
\* asked for, in whichever rollout and at whichever place, unless a file was left out.
LimitsNewest == lim.pc = "idle" /\ ~lim.missed => lim.newest >= lim.must
=============================================================================
