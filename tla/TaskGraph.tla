----------------------------- MODULE TaskGraph -----------------------------
(***************************************************************************)
(* The task board under everyone who edits it: the commands of the app     *)
(* (src-tauri/src/lib.rs over board/todos.rs), the CLI                     *)
(* (scripts/cli/board/todos.mjs), an import, a restore, and the detail     *)
(* view of the task window, which sends back a whole row that it read      *)
(* earlier (windows/TodoWindow.vue).                                       *)
(*                                                                         *)
(* Every write is one transaction under the board lock (modules BoardLock, *)
(* BoardStore), so one step here.                                          *)
(***************************************************************************)
EXTENDS BoardRows

CONSTANTS
  Starts,   \* the boards a session may start from
  Files,    \* the files a user may import
  MaxOps    \* bound: how many operations change the board

ASSUME StartsAssumption == \A b \in Starts : IsBoard(b)
ASSUME FilesAssumption ==
  \A f \in Files : /\ DOMAIN f \subseteq Task
                   /\ \A t \in DOMAIN f : f[t] \in Row /\ f[t].stamp # Local
ASSUME OpsAssumption == MaxOps \in Nat

VARIABLES
  board,    \* todos.json
  backup,   \* the newest file of backups/, or None
  detail,   \* detailRecord: the task the window shows and its row as read, or None
  report,   \* what the last operation imported, or None
  ops       \* how many operations are left

vars == <<board, backup, detail, report, ops>>

TypeOK ==
  /\ IsBoard(board)
  /\ backup = None \/ IsBoard(backup)
  /\ detail = None \/ detail \in [task : Task, row : Row]
  /\ report = None \/ /\ report.file \in Files
                      /\ report.into \in [DOMAIN report.file -> Task]
  /\ ops \in 0..MaxOps

Init ==
  /\ board \in Starts
  /\ backup = None
  /\ detail = None
  /\ report = None
  /\ ops = MaxOps

(***************************************************************************)
(* Writing.                                                                *)
(***************************************************************************)
\* The end of a transaction that is no import: b is the new board.
Store(b) ==
  /\ ops > 0
  /\ ops' = ops - 1
  /\ board' = b
  /\ report' = None

\* What the mutation of an app command gets: the board, every task numbered.
Loaded == EnsureNumbers(board)

\* A command of the window answers with the row, and a detail view that shows the
\* task reads it again.
Refreshed(t, b) ==
  IF detail # None /\ detail.task = t /\ b[t] # None
  THEN [detail EXCEPT !.row = b[t]] ELSE detail

(***************************************************************************)
(* The window.                                                             *)
(***************************************************************************)
OpenDetail(t) ==
  /\ board[t] # None
  /\ detail' = [task |-> t, row |-> board[t]]
  /\ UNCHANGED <<board, backup, report, ops>>

\* The form of a new task: an id, no number, no history.
AppAdd(t, project) ==
  /\ board[t] = None
  /\ \E b \in Loaded, s \in Status :
       Store(Upsert(b, t,
         [number |-> 0, status |-> s, log |-> <<>>, project |-> project, deps |-> {},
          comments |-> {}, declared |-> None, cites |-> {}, stamp |-> Local]))
  /\ UNCHANGED <<backup, detail>>

\* saveDetail sends the row of the list overlaid with the record of the detail view;
\* an empty list of the record is not in it.  The list has followed the board, or
\* is still what it was when the view was opened.  What was sent becomes the record.
Sent(list, status, project) ==
  [detail.row EXCEPT !.status = status, !.project = project,
                     !.deps = IF @ = {} THEN list.deps ELSE @,
                     !.log = IF @ = <<>> THEN list.log ELSE @]

SaveDetail(status, project) ==
  /\ detail # None
  /\ \E b \in Loaded, list \in {board[detail.task], detail.row} \ {None} :
       LET sent == Sent(list, status, project) IN
       /\ Store(Upsert(b, detail.task, sent))
       /\ detail' = [detail EXCEPT !.row = sent]
  /\ UNCHANGED backup

AppSetStatus(t, status) ==
  /\ board[t] # None
  /\ \E b \in Loaded :
       LET c == [b EXCEPT ![t] = Moved(@, status)] IN
       Store(c) /\ detail' = Refreshed(t, c)
  /\ UNCHANGED backup

AppDelete(t) ==
  /\ board[t] # None
  /\ \E b \in Loaded : Store(Without(b, t))
  /\ detail' = IF detail # None /\ detail.task = t THEN None ELSE detail
  /\ UNCHANGED backup

AppComment(t, c) ==
  /\ board[t] # None
  /\ \A u \in On(board) : c \notin board[u].comments
  /\ \E b \in Loaded :
       LET d == [b EXCEPT ![t].comments = @ \cup {c}, ![t].stamp = Local] IN
       Store(d) /\ detail' = Refreshed(t, d)
  /\ UNCHANGED backup

RemoveComment(t, c) ==
  /\ board[t] # None /\ c \in board[t].comments
  /\ \E b \in Loaded :
       LET d == [b EXCEPT ![t].comments = @ \ {c}, ![t].stamp = Local] IN
       Store(d) /\ detail' = Refreshed(t, d)
  /\ UNCHANGED backup

AppAddDep(from, on) ==
  /\ \E b \in Loaded : b[from] # None /\ Store(AddEdge(b, from, on))
  /\ UNCHANGED <<backup, detail>>

AppRemoveDep(from, on) ==
  /\ on \in Deps(board, from)
  /\ \E b \in Loaded : Store(RemoveEdge(b, from, on))
  /\ UNCHANGED <<backup, detail>>

(***************************************************************************)
(* The CLI.                                                                *)
(***************************************************************************)
CliAdd(t, project) ==
  /\ board[t] = None
  /\ \E s \in Status :
       Store([board EXCEPT ![t] =
         [number |-> MaxNumber(board) + 1, status |-> s, log |-> <<s>>,
          project |-> project, deps |-> {}, comments |-> {}, declared |-> None,
          cites |-> {}, stamp |-> Local]])
  /\ UNCHANGED <<backup, detail>>

\* set status: done is refused while a direct prerequisite is open, unless forced.
CliSetStatus(t, status, force) ==
  /\ board[t] # None /\ board[t].status # status
  /\ status = "done" /\ ~force => Blocking(board, t) = {}
  /\ Store([board EXCEPT ![t] = Moved(@, status)])
  /\ UNCHANGED <<backup, detail>>

CliSetProject(t, project) ==
  /\ board[t] # None /\ board[t].project # project
  /\ Store([board EXCEPT ![t].project = project, ![t].stamp = Local])
  /\ UNCHANGED <<backup, detail>>

\* set verify, produces, budget...: what only the CLI declares, or withdraws.
CliDeclare(t, d) ==
  /\ board[t] # None /\ board[t].declared # d
  /\ Store([board EXCEPT ![t].declared = d, ![t].stamp = Local])
  /\ UNCHANGED <<backup, detail>>

\* comment add: a detail view that shows the task keeps the row it has read.
CliComment(t, c) ==
  /\ board[t] # None
  /\ \A u \in On(board) : c \notin board[u].comments
  /\ Store([board EXCEPT ![t].comments = @ \cup {c}, ![t].stamp = Local])
  /\ UNCHANGED <<backup, detail>>

CliAddDep(from, on) ==
  /\ DepAllowed(board, from, on) /\ on \notin board[from].deps
  /\ Store(AddEdge(board, from, on))
  /\ UNCHANGED <<backup, detail>>

CliRemoveDep(from, on) ==
  /\ {from, on} \subseteq On(board) /\ on \in board[from].deps
  /\ Store(RemoveEdge(board, from, on))
  /\ UNCHANGED <<backup, detail>>

\* rm --go: the task and the edges that point at it.
CliRemove(t) ==
  /\ board[t] # None
  /\ LET Unlinked(row) == IF row = None \/ t \notin row.deps THEN row
                          ELSE [row EXCEPT !.deps = @ \ {t}, !.stamp = Local]
     IN  Store([u \in Task |-> IF u = t THEN None ELSE Unlinked(board[u])])
  /\ UNCHANGED <<backup, detail>>

(***************************************************************************)
(* Import and restore.                                                     *)
(***************************************************************************)
\* apply_todo_import: a backup, then the merge.  new_id never meets an id in use.
Import(file) ==
  /\ DOMAIN file # {}
  /\ ops > 0
  /\ ops' = ops - 1
  /\ \E b \in Loaded :
       \E fork \in [Forked(b, file) -> Task \ (On(b) \cup DOMAIN file)] :
         /\ \A s, t \in Forked(b, file) : s # t => fork[s] # fork[t]
         /\ \E order \in ImportOrders(file, Planned(b, file)) :
              \E edges \in EdgeOrders(file, order) :
                board' = MergeImport(b, file, fork, order, edges)
         /\ report' = [file |-> file, into |-> [t \in DOMAIN file |-> FinalId(fork, t)]]
  /\ backup' = board
  /\ UNCHANGED detail

\* restore_todo_backup: replace_locked numbers what the backup holds.
Restore ==
  /\ backup # None
  /\ \E b \in EnsureNumbers(backup) : Store(b)
  /\ UNCHANGED <<backup, detail>>

Save == \E s \in Status, p \in Project : SaveDetail(s, p)
AddComment == \E t \in Task, c \in Comment : AppComment(t, c) \/ CliComment(t, c)
Declare == \E t \in Task, d \in Declaration \cup {None} : CliDeclare(t, d)
DropComment == \E t \in Task, c \in Comment : RemoveComment(t, c)
Delete == \E t \in Task : AppDelete(t) \/ CliRemove(t)
ImportSome == \E f \in Files : Import(f)

Next ==
  \/ \E t \in Task : OpenDetail(t)
  \/ \E t \in Task, p \in Project : AppAdd(t, p) \/ CliAdd(t, p) \/ CliSetProject(t, p)
  \/ \E t \in Task, s \in Status :
       AppSetStatus(t, s) \/ \E force \in BOOLEAN : CliSetStatus(t, s, force)
  \/ \E s, t \in Task : \/ AppAddDep(s, t) \/ AppRemoveDep(s, t)
                        \/ CliAddDep(s, t) \/ CliRemoveDep(s, t)
  \/ Declare \/ Save \/ AddComment \/ DropComment \/ Delete \/ ImportSome \/ Restore

Spec == Init /\ [][Next]_vars

(***************************************************************************)
(* Properties.                                                             *)
(***************************************************************************)
\* Only a row sent back by the detail view, or a restore of a board that already
\* had a cycle, closes a cycle of dependencies: add_dep, the CLI's dep add, the edges
\* replayed by an import and every deletion keep an acyclic graph acyclic.
DagKept == [][Acyclic(board) /\ ~Acyclic(board') => Save \/ Restore]_vars

\* No number is given to two tasks by an addition, an import, the numbering of old
\* rows or a deletion, unless the imported file itself has one number twice; a row that
\* the detail view sends back after the task was deleted may bring its old number along.
UniqueNumbers(b) ==
  \A s, t \in On(b) : s # t /\ b[s].number > 0 => b[s].number # b[t].number
NumberedOnce(file) ==
  \A s, t \in DOMAIN file : s # t /\ file[s].number > 0 => file[s].number # file[t].number
NumbersKept ==
  [][UniqueNumbers(board) /\ ~UniqueNumbers(board') =>
       Save \/ Restore \/ \E f \in Files : ~NumberedOnce(f) /\ Import(f)]_vars

\* What a save of the detail view leaves of the work of others on the task.  Comments go
\* only when they are removed.  A declaration, and the history of the status, are as the CLI
\* or somebody else has left them, unless the view had some of its own when it was read:
\* then it puts the older back, which nothing detects.
Overwrites(t) == Save /\ detail.task = t
WorkKept ==
  [][\A t \in On(board) : board'[t] # None =>
       /\ board[t].comments \subseteq board'[t].comments \/ DropComment \/ Restore
       /\ \/ board'[t].declared = board[t].declared \/ Declare \/ Restore
          \/ Overwrites(t) /\ detail.row.declared # None
       /\ \/ IsPrefix(board[t].log, board'[t].log) \/ Restore
          \/ Overwrites(t) /\ detail.row.log # <<>>]_vars

\* The tasks that were on the board are as they were, but for a number they did not
\* have, and every task of the file is there.
OnlyAdds(old, new, r) ==
  /\ \A t \in On(old) :
       \/ new[t] = old[t]
       \/ old[t].number = 0 /\ [new[t] EXCEPT !.number = 0] = old[t]
  /\ \A t \in DOMAIN r.file : new[r.into[t]] # None

\* A reference t#n of an imported text leads to the task it led to in the file, if that
\* says which one it is.
RefsFollow(old, new, r) ==
  NumberedOnce(r.file) => \A s \in Planned(old, r.file), t \in DOMAIN r.file :
    r.file[t].number \in r.file[s].cites \ {0} =>
      new[r.into[t]].number \in new[r.into[s]].cites

\* Importing the same file again adds nothing, unless a task had to be forked; a task that
\* came with dependencies and no time of update has the time of its import, and would be
\* forked then.
Idempotent(new, r) ==
  (\A t \in DOMAIN r.file : r.into[t] = t) =>
    \A t \in Planned(new, r.file) : r.file[t].stamp = Undated /\ new[t].deps # {}

\* An import brings what its file says, once, and nothing else, whatever numbers, ids
\* and references of the two boards collide.
ImportFaithful ==
  [][report' # None =>
       /\ OnlyAdds(board, board', report')
       /\ RefsFollow(board, board', report')
       /\ Idempotent(board', report')]_vars

\* The frontier: while a task is open and the graph is acyclic there is a task to work
\* on, also after deletions that left dependencies pointing nowhere.
Frontier ==
  Acyclic(board) /\ (\E t \in On(board) : board[t].status # "done")
    => \E t \in On(board) : IsReadyNode(board, t)
=============================================================================
