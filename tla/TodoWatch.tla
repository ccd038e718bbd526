----------------------------- MODULE TodoWatch -----------------------------
(***************************************************************************)
(* How the tray app follows its board (src-tauri/src/lib.rs, board/cache.rs *)
(* and the window's src/board/boardStore.ts): the commands of the main     *)
(* thread, the polling watcher thread, the asynchronous commands that only *)
(* read, the cache they share, and the window.  Other programs write the   *)
(* same file.                                                              *)
(*                                                                         *)
(* A write of the board is one atomic step here (BoardStore, which the     *)
(* board lock implements).  The stamp of a file, its modification time and *)
(* length, is its version: two writes never leave the same stamp.          *)
(***************************************************************************)
EXTENDS Naturals, FiniteSets

CONSTANTS
  Task,       \* the tasks that appear on the board
  Reader,     \* threads that run asynchronous commands
  Sessions,   \* the sessions explored: how many commands change a task (own),
              \* how many times other programs write the board (other), may the
              \* window be hidden (hides), do asynchronous commands run (reads),
              \* does the watcher start or is it already polling (startup)
  Garbage,    \* a board that does not parse
  Nothing     \* no snapshot, no operation, a free mutex

Session == [own : Nat, other : Nat, hides : BOOLEAN, reads : BOOLEAN,
            startup : BOOLEAN]
ASSUME SessionAssumption == Sessions \subseteq Session
ASSUME ReaderAssumption == {"main", "watch"} \cap Reader = {}

Status == {"absent", "open", "review"}   \* "review" stands for review and done
Board == [Task -> Status]
Version == Nat \ {0}
Snapshot == [rev : Version, stamp : Version, ver : Version, board : Board]

ASSUME NothingAssumption ==
  /\ {Garbage, Nothing} \cap Board = {} /\ Garbage # Nothing
  /\ Nothing \notin Snapshot \cup {"main", "watch"}

VARIABLES
  file,      \* todos.json: its version and its board
  cache,     \* CacheInner.snapshot, or Nothing
  rev,       \* CacheInner.next_revision
  snap,      \* TodoSnapshot: the statuses last seen, or Nothing
  mutex,     \* the thread that holds TodoSnapshot's mutex, or Nothing
  pc,        \* where each thread is
  stamp,     \* the stamp each thread read, 0 when it needs none
  held,      \* what a thread's transaction returned (version and board), or Nothing
  last,      \* the stamp the watcher polled last
  move,      \* the change the running command makes, or Nothing
  want,      \* what the window is to do: "none", "stale" or "reload"
  shown,     \* the board in the window
  shownRev,  \* its revision
  session,   \* what is left of the session
  mine,      \* the tasks in review that the app itself moved there
  crossed,   \* history: the last version that another program wrote between a
             \* transaction of the app and its install, 0 when there was none
  news       \* history: what other programs wrote is known to the window ("none"),
             \* not yet loaded ("unseen"), or left out of what it was told ("passed")

appVars == <<cache, rev, snap, mutex, pc, stamp, held, last, move, want, shown,
             shownRev>>
winVars == <<want, shown, shownRev>>
vars == <<file, cache, rev, snap, mutex, pc, stamp, held, last, move, want, shown,
          shownRev, session, mine, crossed, news>>
history == <<crossed, news>>

Thread == {"main", "watch"} \cup Reader
NoTasks == [k \in Task |-> "absent"]

Goto(x, phase) == pc' = [pc EXCEPT ![x] = phase]
ReadStamp(x) == stamp' = [stamp EXCEPT ![x] = file.ver]
DropStamp(x) == stamp' = [stamp EXCEPT ![x] = 0]
DropHeld(x) == held' = [held EXCEPT ![x] = Nothing]

\* What is not known to the window by now will not be told.
PassBy == news' = IF news = "none" THEN "none" ELSE "passed"

Init ==
  /\ session \in Sessions
  /\ \E b \in Board : file = [ver |-> 1, board |-> b]
  /\ cache = IF session.startup THEN Nothing
             ELSE [rev |-> 1, stamp |-> 1, ver |-> 1, board |-> file.board]
  /\ rev = IF session.startup THEN 0 ELSE 1
  /\ snap = IF session.startup THEN Nothing ELSE file.board
  /\ mutex = Nothing
  /\ pc = [x \in Thread |-> IF x = "watch" /\ session.startup THEN "start" ELSE "idle"]
  /\ stamp = [x \in Thread |-> 0]
  /\ held = [x \in {"main", "watch"} |-> Nothing]
  /\ last = 1
  /\ move = Nothing
  /\ want = "reload"
  /\ shown = NoTasks
  /\ shownRev = 0
  /\ mine = {}
  /\ crossed = 0
  /\ news = "none"

-----------------------------------------------------------------------------
(* BoardCache.                                                             *)

\* The snapshot has this stamp: it is served without reading the file.
Matches(s) == cache # Nothing /\ cache.stamp = s

\* Mutant of InstallLocked: a board installed anew keeps its revision.
InstallUnnumbered(s, ver, b) ==
  /\ rev' = IF rev = 0 THEN 1 ELSE rev
  /\ cache' = [rev |-> rev', stamp |-> s, ver |-> ver, board |-> b]

\* install_locked: the next revision, whatever it replaces.
InstallLocked(s, ver, b) ==
  /\ rev' = rev + 1
  /\ cache' = [rev |-> rev + 1, stamp |-> s, ver |-> ver, board |-> b]

\* load with the stamp read before the inner lock; the file is read under it.
\* cache' is the snapshot it returns, Nothing when the board is unreadable.
CacheLoad(s) ==
  \/ Matches(s) /\ UNCHANGED <<cache, rev>>
  \/ ~Matches(s) /\ file.board # Garbage /\ InstallLocked(s, file.ver, file.board)
  \/ ~Matches(s) /\ file.board = Garbage /\ cache' = Nothing /\ UNCHANGED rev

\* A write of the app itself.
WriteOwn(b) ==
  /\ file' = [ver |-> file.ver + 1, board |-> b]
  /\ mine' = {k \in Task : b[k] = "review" /\ (k \in mine \/ file.board[k] # "review")}

-----------------------------------------------------------------------------
(* The main thread: one command at a time.                                 *)

\* The commands of the window: set_todo_status moves a card it shows and is
\* answered with the card ("row"); upsert_todo and delete_todo are followed by
\* a reload ("list").
Changes == [task : Task, to : {"open", "review"}, answer : {"row"}]
             \cup [task : Task, to : Status, answer : {"list"}]

\* A command enters write_todos_locked, which takes the mutex.
BeginChange ==
  /\ pc["main"] = "idle" /\ mutex = Nothing
  /\ session.own > 0
  /\ \E c \in Changes :
       /\ c.answer = "row" => shown[c.task] \notin {"absent", c.to}
       /\ move' = c
  /\ session' = [session EXCEPT !.own = @ - 1]
  /\ mutex' = "main"
  /\ Goto("main", "transact")
  /\ UNCHANGED <<file, cache, rev, snap, stamp, held, last, mine, crossed,
                 news>>
  /\ UNCHANGED winVars

\* set_status leaves a board without the task alone.
Changed(b) ==
  IF move.answer = "row" /\ b[move.task] = "absent" THEN b
  ELSE [b EXCEPT ![move.task] = move.to]

\* Mutant of Transact: the board is returned as it was loaded.
TransactReturnsLoaded ==
  /\ pc["main"] = "transact" /\ file.board # Garbage
  /\ WriteOwn(Changed(file.board))
  /\ held' = [held EXCEPT !["main"] = file]
  /\ Goto("main", "install")
  /\ UNCHANGED <<cache, rev, snap, mutex, stamp, last, move, session, crossed,
                 news>>
  /\ UNCHANGED winVars

\* todos::transact: the change is made to the board on disk and written, also
\* when it changes nothing.
Transact ==
  /\ pc["main"] = "transact" /\ file.board # Garbage
  /\ WriteOwn(Changed(file.board))
  /\ held' = [held EXCEPT !["main"] = file']
  /\ Goto("main", "install")
  /\ UNCHANGED <<cache, rev, snap, mutex, stamp, last, move, session, crossed,
                 news>>
  /\ UNCHANGED winVars

\* transact fails (the board lock is busy until the deadline, or the board is
\* unreadable): the command fails; after a failed move the window reloads.
TransactFails ==
  /\ pc["main"] = "transact"
  /\ mutex' = Nothing
  /\ move' = Nothing
  /\ want' = IF move.answer = "row" THEN "reload" ELSE want
  /\ Goto("main", "idle")
  /\ UNCHANGED <<file, cache, rev, snap, stamp, held, last, shown, shownRev,
                 session, mine, crossed, news>>

\* What the window does next: it waits for the row, or reloads.
Answer ==
  IF move.answer = "row" THEN Goto("main", "answer") /\ UNCHANGED <<move, want>>
  ELSE Goto("main", "idle") /\ move' = Nothing /\ want' = "reload"

\* Mutant of Install: the watcher's snapshot is left as it was.
InstallCacheOnly ==
  /\ pc["main"] = "install"
  /\ InstallLocked(file.ver, held["main"].ver, held["main"].board)
  /\ mutex' = Nothing
  /\ Answer
  /\ DropHeld("main")
  /\ UNCHANGED <<file, snap, stamp, last, shown, shownRev, session, mine,
                 crossed, news>>

\* The board lock is free again; the statuses go to the snapshot, the board to
\* the cache with the stamp the file has by now, and the mutex is given back.
Install ==
  /\ pc["main"] = "install"
  /\ snap' = held["main"].board
  /\ InstallLocked(file.ver, held["main"].ver, held["main"].board)
  /\ mutex' = Nothing
  /\ Answer
  /\ DropHeld("main")
  /\ UNCHANGED <<file, stamp, last, shown, shownRev, session, mine, crossed,
                 news>>

\* mutation_payload and get_board load the board from the cache.
BeginLoad ==
  /\ \/ pc["main"] = "answer" /\ Goto("main", "row") /\ UNCHANGED want
     \/ /\ pc["main"] = "idle" /\ want = "reload"
        /\ want' = "none"
        /\ Goto("main", "board")
  /\ ReadStamp("main")
  /\ UNCHANGED <<file, cache, rev, snap, mutex, held, last, move, shown,
                 shownRev, session, mine, crossed, news>>

\* The answer to the command is one row and a revision: applyMutation puts the
\* row in the window, takes the revision over and clears the stale mark.
AnswerRow ==
  /\ pc["main"] = "row"
  /\ CacheLoad(stamp["main"])
  /\ IF cache' = Nothing
     THEN want' = "reload" /\ UNCHANGED <<shown, shownRev, news>>
     ELSE IF cache'.rev <= shownRev
     THEN UNCHANGED winVars /\ UNCHANGED news
     ELSE /\ shownRev' = cache'.rev
          /\ PassBy
          /\ IF cache'.board[move.task] = "absent"
             THEN want' = (IF want = "none" THEN "stale" ELSE want) /\ UNCHANGED shown
             ELSE /\ want' = (IF want = "stale" THEN "none" ELSE want)
                  /\ shown' = IF shown[move.task] = "absent" THEN shown
                              ELSE [shown EXCEPT ![move.task] =
                                      cache'.board[move.task]]
  /\ move' = Nothing
  /\ Goto("main", "idle")
  /\ DropStamp("main")
  /\ UNCHANGED <<file, snap, mutex, held, last, session, mine, crossed>>

\* A snapshot is the board on disk, and no older one is about to be installed.
Current(c) ==
  c # Nothing /\ c.ver = file.ver /\ \A x \in {"main", "watch"} : pc[x] # "install"

\* The answer to get_board replaces the window's board unless it is older; an
\* unreadable board comes as an empty one of revision 0.
AnswerBoard ==
  /\ pc["main"] = "board"
  /\ CacheLoad(stamp["main"])
  /\ LET payload == IF cache' = Nothing THEN [rev |-> 0, board |-> NoTasks]
                    ELSE cache'
     IN IF payload.rev < shownRev THEN UNCHANGED winVars /\ UNCHANGED news
        ELSE /\ shown' = payload.board /\ shownRev' = payload.rev
             /\ news' = IF Current(cache') THEN "none" ELSE "passed"
             /\ want' = IF want = "stale" THEN "none" ELSE want
  /\ Goto("main", "idle")
  /\ DropStamp("main")
  /\ UNCHANGED <<file, snap, mutex, held, last, move, session, mine, crossed>>

\* The window is shown again.
Wake ==
  /\ want = "stale"
  /\ want' = "reload"
  /\ UNCHANGED <<file, cache, rev, snap, mutex, pc, stamp, held, last, move,
                 shown, shownRev, session, mine, crossed, news>>

-----------------------------------------------------------------------------
(* An asynchronous command (get_graph_batch, get_graph_node_detail).       *)

ReaderStamp(r) ==
  /\ pc[r] = "idle" /\ session.reads
  /\ ReadStamp(r)
  /\ Goto(r, "load")
  /\ UNCHANGED <<file, cache, rev, snap, mutex, held, last, move, session,
                 mine, crossed, news>>
  /\ UNCHANGED winVars

ReaderLoad(r) ==
  /\ pc[r] = "load"
  /\ CacheLoad(stamp[r])
  /\ DropStamp(r)
  /\ Goto(r, "idle")
  /\ UNCHANGED <<file, snap, mutex, held, last, move, session, mine, crossed,
                 news>>
  /\ UNCHANGED winVars

-----------------------------------------------------------------------------
(* spawn_todos_watch.                                                      *)

\* Under the mutex, transact_if numbers the tasks that lack a number.
WatchStart ==
  /\ pc["watch"] = "start" /\ mutex = Nothing
  /\ \/ /\ file.board # Garbage
        /\ \/ WriteOwn(file.board)
           \/ UNCHANGED <<file, mine>>
        /\ held' = [held EXCEPT !["watch"] = file']
        /\ mutex' = "watch"
        /\ Goto("watch", "install")
        /\ UNCHANGED snap
     \/ \* the transaction fails: the statuses are read without it
        /\ snap' = IF file.board = Garbage THEN Nothing ELSE file.board
        /\ Goto("watch", "arm")
        /\ UNCHANGED <<file, mine, held, mutex>>
  /\ UNCHANGED <<cache, rev, stamp, last, move, session, crossed, news>>
  /\ UNCHANGED winVars

WatchInstall ==
  /\ pc["watch"] = "install"
  /\ snap' = held["watch"].board
  /\ InstallLocked(file.ver, held["watch"].ver, held["watch"].board)
  /\ mutex' = Nothing
  /\ Goto("watch", "arm")
  /\ DropHeld("watch")
  /\ UNCHANGED <<file, stamp, last, move, session, mine, crossed, news>>
  /\ UNCHANGED winVars

WatchArm ==
  /\ pc["watch"] = "arm"
  /\ last' = file.ver
  /\ PassBy
  /\ Goto("watch", "idle")
  /\ UNCHANGED <<file, cache, rev, snap, mutex, stamp, held, move, session,
                 mine, crossed>>
  /\ UNCHANGED winVars

\* A poll that finds another stamp than the last one.
Poll ==
  /\ pc["watch"] = "idle"
  /\ file.ver # last
  /\ last' = file.ver
  /\ Goto("watch", "peek")
  /\ UNCHANGED <<file, cache, rev, snap, mutex, stamp, held, move, session,
                 mine, crossed, news>>
  /\ UNCHANGED winVars

\* BoardCache::matches reads the stamp once more.
Peek ==
  /\ pc["watch"] = "peek"
  /\ ReadStamp("watch")
  /\ Goto("watch", "compare")
  /\ UNCHANGED <<file, cache, rev, snap, mutex, held, last, move, session,
                 mine, crossed, news>>
  /\ UNCHANGED winVars

\* Mutant of Compare: a changed file is compared, and not told to the window.
CompareSilent ==
  /\ pc["watch"] = "compare"
  /\ Goto("watch", "diff")
  /\ DropStamp("watch")
  /\ UNCHANGED <<file, cache, rev, snap, mutex, held, last, move, session, mine>>
  /\ UNCHANGED winVars
  /\ UNCHANGED history

\* A file the cache knows is no news.  Otherwise todos-file-changed goes to the
\* window: a visible one reloads, a hidden one marks itself stale.
Compare ==
  /\ pc["watch"] = "compare"
  /\ \/ /\ Matches(stamp["watch"])
        /\ Goto("watch", "idle")
        /\ PassBy
        /\ UNCHANGED want
     \/ /\ ~Matches(stamp["watch"])
        /\ \/ want' = "reload"
           \/ session.hides /\ want # "reload" /\ want' = "stale"
        /\ Goto("watch", "diff")
        /\ UNCHANGED news
  /\ DropStamp("watch")
  /\ UNCHANGED <<file, cache, rev, snap, mutex, held, last, move, shown,
                 shownRev, session, mine, crossed>>

LockDiff ==
  /\ pc["watch"] = "diff" /\ mutex = Nothing
  /\ mutex' = "watch"
  /\ ReadStamp("watch")
  /\ Goto("watch", "load")
  /\ UNCHANGED <<file, cache, rev, snap, held, last, move, session, mine,
                 crossed, news>>
  /\ UNCHANGED winVars

\* Tasks for which diff_snapshot gives an alert.
Alerts(b) ==
  IF snap = Nothing THEN {}
  ELSE {k \in Task : b[k] = "review" /\ snap[k] \notin {"absent", "review"}}

\* The board is compared with the snapshot and becomes it.
Diff ==
  /\ pc["watch"] = "load"
  /\ CacheLoad(stamp["watch"])
  /\ snap' = IF cache' = Nothing THEN snap ELSE cache'.board
  /\ mutex' = Nothing
  /\ Goto("watch", "idle")
  /\ DropStamp("watch")
  /\ UNCHANGED <<file, held, last, move, session, mine, crossed, news>>
  /\ UNCHANGED winVars

-----------------------------------------------------------------------------

\* What another program makes of the board: it moves, adds or removes a task,
\* breaks the file, or puts a whole board in the place of a broken one.
Rewritten ==
  IF file.board = Garbage THEN Board
  ELSE {[file.board EXCEPT ![k] = s] : k \in Task, s \in Status} \cup {Garbage}

\* Another program writes.
OtherWrites ==
  /\ session.other > 0
  /\ session' = [session EXCEPT !.other = @ - 1]
  /\ \E b \in Rewritten :
       /\ b # file.board
       /\ file' = [ver |-> file.ver + 1, board |-> b]
       /\ mine' = IF b = Garbage \/ file.board = Garbage THEN {}
                  ELSE {k \in mine : b[k] = "review"}
  /\ crossed' = IF \E x \in {"main", "watch"} : pc[x] = "install"
                THEN file'.ver ELSE crossed
  /\ news' = IF news = "passed" THEN "passed" ELSE "unseen"
  /\ UNCHANGED appVars

Main == BeginChange \/ Transact \/ TransactFails \/ Install \/ BeginLoad \/ AnswerRow
          \/ AnswerBoard
Watch == WatchStart \/ WatchInstall \/ WatchArm \/ Poll \/ Peek \/ Compare \/ LockDiff
           \/ Diff
Read(r) == ReaderStamp(r) \/ ReaderLoad(r)

Next == Main \/ Watch \/ Wake \/ OtherWrites \/ \E r \in Reader : Read(r)

Spec == Init /\ [][Next]_vars

\* The threads run on, and the user looks at the window again.
FairSpec ==
  /\ Spec
  /\ WF_vars(Transact \/ TransactFails \/ Install \/ BeginLoad \/ AnswerRow
               \/ AnswerBoard)
  /\ WF_vars(Watch) /\ WF_vars(Wake)
  /\ \A r \in Reader : WF_vars(ReaderLoad(r))

-----------------------------------------------------------------------------
(* Properties.                                                             *)

TypeOK ==
  /\ file \in [ver : Version, board : Board \cup {Garbage}]
  /\ cache \in Snapshot \cup {Nothing}
  /\ rev \in Nat /\ (cache # Nothing => cache.rev = rev)
  /\ snap \in Board \cup {Nothing}
  /\ mutex \in {"main", "watch", Nothing}
  /\ pc \in [Thread -> {"start", "idle", "transact", "install", "answer", "row",
                        "board", "load", "arm", "peek", "compare", "diff"}]
  /\ stamp \in [Thread -> Nat]
  /\ held \in [{"main", "watch"} -> [ver : Version, board : Board] \cup {Nothing}]
  /\ last \in Version
  /\ move \in Changes \cup {Nothing}
  /\ want \in {"none", "stale", "reload"}
  /\ shown \in Board
  /\ shownRev \in 0..rev
  /\ session \in Session
  /\ mine \in SUBSET Task
  /\ crossed \in Nat
  /\ news \in {"none", "unseen", "passed"}

\* The app never reports its own moves as news: no alert names a task that the
\* app itself moved to review (lib.rs:3131-3134).
NoEcho == [][Diff /\ cache' # Nothing => Alerts(cache'.board) \cap mine = {}]_vars

\* A cached board that has the stamp of the file is the board of the file: what
\* the cache serves without reading is what reading would give.  Excepted is a
\* file that another program wrote between a transaction of the app and its
\* install: the app's own board is then kept under the other's stamp, until
\* the next write (cache.rs:66-69).
CacheCoherent ==
  cache # Nothing /\ cache.stamp = file.ver /\ file.ver # crossed
    => cache.ver = file.ver

\* The window has the revision of the cache.
UpToDate == cache # Nothing /\ shownRev = cache.rev

\* A window at rest that has taken over the revision of the cache shows the
\* board of that revision, also when it was told one row of it only.  Excepted
\* is a window to which the row of its own move came with the revision of a
\* board that other programs had changed too, or that was left out as below.
WindowAtRevision ==
  pc["main"] = "idle" /\ want = "none" /\ UpToDate /\ news # "passed"
    => shown = cache.board

\* What other programs write comes to the window in the end, hidden or not,
\* unless it passes the window by: a command loaded it before the watcher's
\* poll, which then takes it for old; it came before the watcher's first stamp;
\* the answer to a request of the window from before came after the watcher's
\* word and cleared it; the row of an own move brought its revision; or the board
\* was loaded under a stamp as in CacheCoherent.  lib.rs:3428-3429 makes no such
\* exception.
WindowFollows == <>[](file.board = Garbage \/ shown = file.board \/ news = "passed")
=============================================================================
