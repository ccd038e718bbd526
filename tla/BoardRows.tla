----------------------------- MODULE BoardRows -----------------------------
(***************************************************************************)
(* The rows of todos.json and the pure functions on them                   *)
(* (src-tauri/src/board/todos.rs): numbers, dependency edges, the merge of *)
(* an edited row into the stored one, the merge of an imported file.       *)
(*                                                                         *)
(* A board maps the id of every task to its row, or to None.  A row keeps  *)
(* the fields the rules tell apart; text is the set of task numbers that   *)
(* it mentions, a time of update is Local once somebody edits the task on  *)
(* this machine.  One declaration stands for each of those of a task: they *)
(* are merged alike and apart.  links and on_issue, which block nothing,   *)
(* are left out.                                                           *)
(***************************************************************************)
EXTENDS Integers, Sequences, FiniteSets, SequencesExt

CONSTANTS
  Task,      \* ids of tasks
  Status,    \* the columns in use, "done" among them
  Project,   \* project boards; one of them may stand for "no project"
  Comment,   \* ids of comments
  Stamp,     \* the times of update of rows edited elsewhere
  Local,     \* the time of update of a row edited here
  Undated,   \* that of a row that has none: a list written by hand
  Declaration, \* what the CLI may declare of a task
  None       \* no row, nothing declared

Row == [number   : Nat,              \* 0 when not assigned
        status   : Status,
        log      : Seq(Status),      \* status_history
        project  : Project,
        deps     : SUBSET Task,      \* depends_on
        comments : SUBSET Comment,
        declared : Declaration \cup {None}, \* produces, verify...: set by the CLI only
        cites    : SUBSET Nat,       \* the t#N of the text
        stamp    : Stamp \cup {Local, Undated}] \* updated_at

ASSUME RowAssumption ==
  /\ "done" \in Status /\ IsFiniteSet(Task)
  /\ Local \notin Stamp /\ Undated \notin Stamp \cup {Local}
  /\ None \notin Row /\ None \notin Declaration

IsBoard(b) == b \in [Task -> Row \cup {None}]

On(b) == {t \in Task : b[t] # None}
Without(b, t) == [b EXCEPT ![t] = None]

(***************************************************************************)
(* Numbers.                                                                *)
(***************************************************************************)
NumbersOf(b) == {b[t].number : t \in On(b)} \ {0}
MaxNumber(b) == Max(NumbersOf(b) \cup {0})

\* The boards that ensure_numbers may leave: the tasks without a number take the
\* next ones.  Times of creation are not modelled, so any order is possible.
EnsureNumbers(b) ==
  LET bare == {t \in On(b) : b[t].number = 0} IN
  {[t \in Task |-> IF t \in bare THEN [b[t] EXCEPT !.number = MaxNumber(b) + n[t]]
                                 ELSE b[t]]
     : n \in {f \in [bare -> 1..Cardinality(bare)] :
                \A s, t \in bare : s # t => f[s] # f[t]}}

(***************************************************************************)
(* Dependencies.                                                           *)
(***************************************************************************)
Deps(b, t) == IF b[t] = None THEN {} ELSE b[t].deps

\* target is start, or can be reached from it: it is in every set that holds start
\* and all that its members depend on.
DepReaches(b, start, target) ==
  \A S \in SUBSET Task :
    start \in S /\ (\A s \in S : Deps(b, s) \subseteq S) => target \in S

\* Mutant of DepAllowed: the search runs along the new edge, not against it.
DepAllowedForward(b, from, on) ==
  /\ from # on
  /\ {from, on} \subseteq On(b)
  /\ b[from].project = b[on].project
  /\ ~DepReaches(b, from, on)

DepAllowed(b, from, on) ==
  /\ from # on
  /\ {from, on} \subseteq On(b)
  /\ b[from].project = b[on].project
  /\ ~DepReaches(b, on, from)

\* add_dep: a rejected edge leaves the board alone.
AddEdge(b, from, on) ==
  IF DepAllowed(b, from, on) /\ on \notin b[from].deps
  THEN [b EXCEPT ![from].deps = @ \cup {on}, ![from].stamp = Local]
  ELSE b

\* remove_dep
RemoveEdge(b, from, on) ==
  IF on \in Deps(b, from)
  THEN [b EXCEPT ![from].deps = @ \ {on}, ![from].stamp = Local]
  ELSE b

Acyclic(b) == \A t \in Task : \A d \in Deps(b, t) : ~DepReaches(b, d, t)

\* Mutant of Blocking: a prerequisite that was deleted blocks.
BlockingOrGone(b, t) ==
  {d \in b[t].deps : IF b[d] = None THEN TRUE ELSE b[d].status # "done"}

\* directPrereqs: the prerequisites that are still on the board, those that are open.
Blocking(b, t) == {d \in b[t].deps : d \in On(b) /\ b[d].status # "done"}

\* A task can be worked on: it is open and nothing that it depends on is.
IsReadyNode(b, t) == b[t].status # "done" /\ Blocking(b, t) = {}

(***************************************************************************)
(* upsert: a row sent by the window over the stored one.                   *)
(***************************************************************************)
Entered(log, old, new) == IF new # old THEN Append(log, new) ELSE log

\* Mutant of Merged: the discussion and the declarations come from the window.
MergedAsSent(old, sent) ==
  [sent EXCEPT !.number = IF @ = 0 THEN old.number ELSE @,
               !.log = Entered(IF @ = <<>> THEN old.log ELSE @, old.status, sent.status),
               !.stamp = Local]

Merged(old, sent) ==
  [sent EXCEPT !.number = IF @ = 0 THEN old.number ELSE @,
               !.declared = IF @ = None THEN old.declared ELSE @,
               !.log = Entered(IF @ = <<>> THEN old.log ELSE @, old.status, sent.status),
               !.comments = old.comments,
               !.stamp = Local]

Upsert(b, t, sent) ==
  [b EXCEPT ![t] =
     IF @ # None THEN Merged(@, sent)
     ELSE [sent EXCEPT !.number = IF @ = 0 THEN MaxNumber(b) + 1 ELSE @,
                       !.stamp = Local]]

\* set_status, and the CLI's own move
Moved(row, status) == [row EXCEPT !.status = status, !.stamp = Local,
                                  !.log = Entered(@, row.status, status)]

(***************************************************************************)
(* merge_import.  A file is a function from the ids it holds to their rows. *)
(***************************************************************************)
\* The rows that the board holds in the same version.
Unchanged(b, file) ==
  {t \in DOMAIN file : b[t] # None /\ b[t].stamp = file[t].stamp}
Planned(b, file) == DOMAIN file \ Unchanged(b, file)

\* The rows that need an id of their own, theirs being taken by another version.
Forked(b, file) == Planned(b, file) \cap On(b)

\* Mutant of ImportOrders: the last number comes first.
ImportOrdersDescending(file, S) ==
  {q \in SetToSeqs(S) :
     \A i, j \in DOMAIN q : i < j => file[q[i]].number >= file[q[j]].number}

\* By number, so that rows without one come first, then by id.  Ids have no order here:
\* rows of one number may come in any.
ImportOrders(file, S) ==
  {q \in SetToSeqs(S) :
     \A i, j \in DOMAIN q : i < j => file[q[i]].number <= file[q[j]].number}

\* The edges of the rows, row by row; those of one row in any order.
EdgeOrders(file, order) ==
  {q \in SetToSeqs(UNION {{t} \X file[t].deps : t \in Range(order)}) :
     \A i, j \in DOMAIN q : i < j =>
       \E k, l \in DOMAIN order : k <= l /\ order[k] = q[i][1] /\ order[l] = q[j][1]}

\* Pass 1: the numbers that the planned rows get, one by one.
Place(file, acc, t) ==
  LET collides == file[t].number \in acc.taken \cup {0}
      n == IF collides THEN acc.next ELSE file[t].number
  IN  [of    |-> [acc.of EXCEPT ![t] = n],
       taken |-> acc.taken \cup {n},
       next  |-> IF collides THEN acc.next + 1 ELSE acc.next]

ImportNumbers(b, file, order) ==
  FoldLeft(LAMBDA acc, t : Place(file, acc, t),
           [of    |-> [t \in DOMAIN file |-> IF b[t] = None THEN 0 ELSE b[t].number],
            taken |-> NumbersOf(b),
            next  |-> MaxNumber(b) + 1],
           order).of

\* Mutant of RefTarget: the texts are taken as they are.
RefTargetKept(file, numbers, n) == n

\* The number that a reference t#n of the file has on the merged board: where a row of
\* that number moved, the last of them.  A later row gets a higher number.
RefTarget(file, numbers, n) ==
  LET moved == {numbers[t] : t \in {u \in DOMAIN file : file[u].number = n /\ n > 0}} \ {n}
  IN  IF moved = {} THEN n ELSE Max(moved)

\* fork gives every forked id its new one.
FinalId(fork, t) == IF t \in DOMAIN fork THEN fork[t] ELSE t
Arrived(b, file, fork) == {FinalId(fork, t) : t \in Planned(b, file)}
Source(b, file, fork, id) == CHOOSE t \in Planned(b, file) : FinalId(fork, t) = id

\* Pass 2: the rows under their final ids, without their edges.
Placed(b, file, fork, numbers) ==
  [id \in Task |->
     LET src == Source(b, file, fork, id)
     IN IF id \notin Arrived(b, file, fork) THEN b[id]
        ELSE [file[src] EXCEPT !.number = numbers[src], !.deps = {},
                               !.cites = {RefTarget(file, numbers, n) : n \in @}]]

\* Pass 3: their edges, then the times of update that the file says, where it says one.
Linked(b, fork, edges) ==
  FoldLeft(LAMBDA c, e : AddEdge(c, FinalId(fork, e[1]), FinalId(fork, e[2])), b, edges)

MergeImport(b, file, fork, order, edges) ==
  LET linked == Linked(Placed(b, file, fork, ImportNumbers(b, file, order)), fork, edges)
  IN  [id \in Task |->
         IF id \in Arrived(b, file, fork)
         THEN LET said == file[Source(b, file, fork, id)].stamp
              IN  [linked[id] EXCEPT !.stamp = IF said = Undated THEN @ ELSE said]
         ELSE linked[id]]
=============================================================================
