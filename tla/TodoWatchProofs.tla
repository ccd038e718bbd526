-------------------------- MODULE TodoWatchProofs --------------------------
(***************************************************************************)
(* What the cache, the window and the watcher know of the board, for any   *)
(* number of commands, readers and writes of the application and of others. *)
(*                                                                         *)
(* TypeInv is about the threads: who has a change, a stamp, a board to     *)
(* install, the mutex.  Dated orders the versions that a load and an       *)
(* install have to do with.  Owned follows the moves of the application    *)
(* through file, cache and snapshot.  Agreed is what is known while nobody *)
(* else has written what the window lacks, Synced what is left after that. *)
(***************************************************************************)
EXTENDS TodoWatch, TLAPS

\* A command under way has a change, and the window waits for rows only.
Moving ==
  /\ pc["main"] \in {"transact", "install", "answer", "row"} => move \in Changes
  /\ pc["main"] \in {"answer", "row"} => move.answer = "row"

\* What is to be installed is a board.
Holding ==
  \A x \in {"main", "watch"} :
    pc[x] = "install" => held[x] \in [ver : Version, board : Board]

\* A load has a stamp.
Stamped ==
  \A x \in Thread : pc[x] \in {"row", "board", "load", "compare"} => stamp[x] \in Version

\* Who changes the board or compares the snapshot holds the mutex.
Locked ==
  /\ pc["main"] \in {"transact", "install"} => mutex = "main"
  /\ pc["watch"] \in {"install", "load"} => mutex = "watch"

TypeInv == TypeOK /\ Moving /\ Holding /\ Stamped /\ Locked

USE DEF Version, Snapshot, Board

LEMMA TypedInit == Init => TypeInv
<1> SUFFICES ASSUME Init PROVE TypeInv
  OBVIOUS
<1> USE DEF Init
<1>1. session \in Session
  BY SessionAssumption
<1>2. PICK b \in Board : file = [ver |-> 1, board |-> b]
  OBVIOUS
<1>3. NoTasks \in Board
  BY DEF NoTasks, Status
<1>4. /\ rev \in Nat /\ (cache # Nothing => cache.rev = rev)
      /\ cache \in Snapshot \cup {Nothing}
      /\ snap \in Board \cup {Nothing}
  BY <1>2
<1>5. /\ pc \in [Thread -> {"start", "idle"}]
      /\ pc["main"] = "idle"
  BY DEF Thread
<1>6. TypeOK
  BY <1>1, <1>2, <1>3, <1>4, <1>5 DEF TypeOK
<1>7. "watch" \in Thread
  BY DEF Thread
<1>8. Moving /\ Holding /\ Stamped /\ Locked
  BY <1>5, <1>7 DEF Moving, Holding, Stamped, Locked
<1> QED BY <1>6, <1>8 DEF TypeInv

\* What a load makes of the cache.
LEMMA LoadTyped ==
  ASSUME TypeOK, NEW s \in Version, CacheLoad(s)
  PROVE  /\ cache' \in Snapshot \cup {Nothing} /\ rev' \in Nat
         /\ cache' # Nothing => cache'.rev = rev'
         /\ \/ cache' = cache /\ rev' = rev /\ cache # Nothing
            \/ /\ cache' = [rev |-> rev + 1, stamp |-> s, ver |-> file.ver, board |-> file.board]
               /\ cache' \in Snapshot /\ cache' # Nothing /\ rev' = rev + 1
            \/ file.board = Garbage /\ cache' = Nothing /\ rev' = rev
BY NothingAssumption DEF CacheLoad, InstallLocked, Matches, TypeOK

\* What a command makes of a board.
LEMMA ChangedTyped ==
  ASSUME NEW b \in Board, move \in Changes
  PROVE  Changed(b) \in Board
BY DEF Changed, Changes, Status

\* What other programs make of the file.
LEMMA OthersTyped ==
  ASSUME TypeOK, OtherWrites
  PROVE  /\ file' \in [ver : Version, board : Board \cup {Garbage}] /\ mine' \in SUBSET Task
         /\ file'.ver \in Nat
<1>1. \E b \in Rewritten :
        /\ file' = [ver |-> file.ver + 1, board |-> b]
        /\ mine' = IF b = Garbage \/ file.board = Garbage THEN {}
                   ELSE {k \in mine : b[k] = "review"}
  BY DEF OtherWrites
<1>2. Rewritten \subseteq Board \cup {Garbage}
  <2>1. file.board # Garbage => file.board \in Board
    BY DEF TypeOK
  <2>2. \A k \in Task, s \in Status :
          file.board \in Board => [file.board EXCEPT ![k] = s] \in Board
    OBVIOUS
  <2> QED BY <2>1, <2>2 DEF Rewritten
<1>3. mine \subseteq Task /\ file.ver \in Nat \ {0}
  BY DEF TypeOK
<1> QED BY <1>1, <1>2, <1>3

LEMMA TypedStep == TypeInv /\ [Next]_vars => TypeInv'
<1> SUFFICES ASSUME TypeInv, [Next]_vars PROVE TypeInv'
  OBVIOUS
<1> USE DEF TypeInv, TypeOK, Moving, Holding, Stamped, Locked, Goto, ReadStamp, DropStamp,
            DropHeld, PassBy, history
<1>0. {"main", "watch"} \subseteq Thread /\ Nothing # "main" /\ Nothing # "watch"
  BY NothingAssumption DEF Thread
<1>1. CASE BeginChange
  BY <1>0, <1>1 DEF BeginChange, winVars, Session, Changes
<1>2. CASE Transact
  <2>1. file' \in [ver : Version, board : Board] /\ mine' \in SUBSET Task
    BY <1>2, ChangedTyped DEF Transact, WriteOwn
  <2> QED BY <1>0, <1>2, <2>1 DEF Transact, winVars
<1>3. CASE TransactFails
  BY <1>0, <1>3 DEF TransactFails
<1>4. CASE Install
  <2>1. /\ cache' \in Snapshot \cup {Nothing} /\ rev' \in Nat
        /\ (cache' # Nothing => cache'.rev = rev') /\ snap' \in Board
        /\ shownRev \in 0..rev'
    BY <1>4 DEF Install, InstallLocked
  <2> QED BY <1>0, <1>4, <2>1 DEF Install, Answer
<1>5. CASE BeginLoad
  BY <1>0, <1>5 DEF BeginLoad
<1>6. CASE AnswerRow
  <2>1. /\ cache' \in Snapshot \cup {Nothing} /\ rev' \in Nat /\ rev <= rev'
        /\ cache' # Nothing => cache'.rev = rev'
    BY <1>0, <1>6, LoadTyped DEF AnswerRow
  <2>2. shown' \in Board /\ shownRev' \in 0..rev' /\ want' \in {"none", "stale", "reload"}
    BY <1>6, <2>1 DEF AnswerRow, winVars, Changes
  <2> QED BY <1>0, <1>6, <2>1, <2>2 DEF AnswerRow
<1>7. CASE AnswerBoard
  <2>1. /\ cache' \in Snapshot \cup {Nothing} /\ rev' \in Nat /\ rev <= rev'
        /\ cache' # Nothing => cache'.rev = rev'
    BY <1>0, <1>7, LoadTyped DEF AnswerBoard
  <2>2. shown' \in Board /\ shownRev' \in 0..rev' /\ want' \in {"none", "stale", "reload"}
    BY <1>7, <2>1 DEF AnswerBoard, winVars, NoTasks, Status
  <2> QED BY <1>0, <1>7, <2>1, <2>2 DEF AnswerBoard
<1>8. CASE Wake
  BY <1>0, <1>8 DEF Wake
<1>9. ASSUME NEW r \in Reader, ReaderStamp(r) PROVE TypeInv'
  BY <1>0, <1>9, ReaderAssumption DEF ReaderStamp, winVars, Thread
<1>10. ASSUME NEW r \in Reader, ReaderLoad(r) PROVE TypeInv'
  <2>0. r \in Thread /\ r # "main" /\ r # "watch"
    BY ReaderAssumption DEF Thread
  <2>1. /\ cache' \in Snapshot \cup {Nothing} /\ rev' \in Nat /\ rev <= rev'
        /\ cache' # Nothing => cache'.rev = rev'
    BY <1>10, <2>0, LoadTyped DEF ReaderLoad
  <2> QED BY <1>0, <1>10, <2>0, <2>1 DEF ReaderLoad, winVars
<1>11. CASE WatchStart
  <2>1. /\ file' \in [ver : Version, board : Board \cup {Garbage}]
        /\ file.board # Garbage => file'.board \in Board
        /\ mine' \in SUBSET Task
    BY <1>11 DEF WatchStart, WriteOwn
  <2> QED BY <1>0, <1>11, <2>1 DEF WatchStart, winVars
<1>12. CASE WatchInstall
  <2>1. /\ cache' \in Snapshot \cup {Nothing} /\ rev' \in Nat
        /\ (cache' # Nothing => cache'.rev = rev') /\ snap' \in Board
        /\ shownRev \in 0..rev'
    BY <1>12 DEF WatchInstall, InstallLocked
  <2> QED BY <1>0, <1>12, <2>1 DEF WatchInstall, winVars
<1>13. CASE WatchArm
  BY <1>0, <1>13 DEF WatchArm, winVars
<1>14. CASE Poll
  BY <1>0, <1>14 DEF Poll, winVars
<1>15. CASE Peek
  BY <1>0, <1>15 DEF Peek, winVars
<1>16. CASE Compare
  BY <1>0, <1>16 DEF Compare
<1>17. CASE LockDiff
  BY <1>0, <1>17 DEF LockDiff, winVars
<1>18. CASE Diff
  <2>1. /\ cache' \in Snapshot \cup {Nothing} /\ rev' \in Nat /\ rev <= rev'
        /\ cache' # Nothing => cache'.rev = rev'
    BY <1>0, <1>18, LoadTyped DEF Diff
  <2> QED BY <1>0, <1>18, <2>1 DEF Diff, winVars
<1>19. CASE OtherWrites
  <2>1. file' \in [ver : Version, board : Board \cup {Garbage}] /\ mine' \in SUBSET Task
        /\ file'.ver \in Nat
    BY <1>19, OthersTyped
  <2>2. crossed' \in Nat /\ news' \in {"none", "unseen", "passed"}
    BY <1>19, <2>1 DEF OtherWrites
  <2> QED BY <1>0, <1>19, <2>1, <2>2 DEF OtherWrites, appVars, Session
<1>20. CASE UNCHANGED vars
  BY <1>20 DEF vars
<1> QED
  BY <1>1, <1>2, <1>3, <1>4, <1>5, <1>6, <1>7, <1>8, <1>9, <1>10, <1>11, <1>12, <1>13,
     <1>14, <1>15, <1>16, <1>17, <1>18, <1>19, <1>20 DEF Next, Main, Watch, Read

\* The state of the watcher, the cache and the window stays well-typed, in every session:
\* the cache carries the last revision handed out (cache.rs:61-77), the window none that
\* was not (boardStore.ts), and a command that installs a board has one.
THEOREM WatchTyped == Spec => []TypeOK
<1>1. TypeInv => TypeOK
  BY DEF TypeInv
<1> QED BY <1>1, TypedInit, TypedStep, PTL DEF Spec

-----------------------------------------------------------------------------
(* The versions of stamps, contents and file.                              *)

\* A board to be installed is the one of the file, unless another program has written
\* since its transaction.
Installing(x) ==
  /\ held[x].ver <= file.ver /\ (held[x].ver = file.ver \/ file.ver = crossed)
  /\ held[x].ver = file.ver => held[x].board = file.board

\* No stamp and no contents are newer than the file, and contents of its version are its.
Dated ==
  /\ \A x \in Thread : stamp[x] <= file.ver
  /\ crossed <= file.ver
  /\ cache # Nothing =>
       /\ cache.stamp <= file.ver /\ cache.ver <= file.ver
       /\ cache.ver = file.ver => cache.board = file.board
  /\ CacheCoherent
  /\ \A x \in {"main", "watch"} : pc[x] = "install" => Installing(x)

LEMMA DatedInit == Init => Dated
BY DEF Init, Dated, CacheCoherent, Thread

\* The steps that read or write no file and leave the cache alone.
LEMMA DatedStays ==
  ASSUME TypeInv, Dated, UNCHANGED <<file, cache, crossed>>,
         \A x \in Thread : stamp'[x] \in {stamp[x], 0, file.ver},
         \A x \in {"main", "watch"} :
           pc'[x] = "install" => pc[x] = "install" /\ held'[x] = held[x]
  PROVE  Dated'
BY DEF Dated, CacheCoherent, Installing, TypeInv, TypeOK

\* A load reads what the file holds now, under a stamp read before.
LEMMA DatedLoad ==
  ASSUME TypeInv, Dated, NEW x \in Thread, stamp[x] \in Version, CacheLoad(stamp[x]),
         UNCHANGED <<file, crossed, held>>, stamp' = [stamp EXCEPT ![x] = 0],
         \A y \in {"main", "watch"} : pc'[y] = "install" => pc[y] = "install"
  PROVE  Dated'
<1>1. TypeOK /\ stamp[x] <= file.ver
  BY DEF TypeInv, Dated
<1>2. CASE cache' = cache
  BY <1>1, <1>2 DEF Dated, CacheCoherent, Installing, TypeOK
<1>3. CASE cache' = [rev |-> rev + 1, stamp |-> stamp[x], ver |-> file.ver,
                     board |-> file.board]
  BY <1>1, <1>3 DEF Dated, CacheCoherent, Installing, TypeOK
<1>4. CASE cache' = Nothing
  BY <1>1, <1>4 DEF Dated, CacheCoherent, Installing, TypeOK
<1> QED BY <1>1, <1>2, <1>3, <1>4, LoadTyped

LEMMA DatedStep == TypeInv /\ Dated /\ [Next]_vars => Dated'
<1> SUFFICES ASSUME TypeInv, Dated, [Next]_vars PROVE Dated'
  OBVIOUS
<1>0. /\ {"main", "watch"} \subseteq Thread /\ Nothing # "main" /\ Nothing # "watch"
      /\ TypeOK /\ Locked /\ file.ver \in Version
  BY NothingAssumption DEF Thread, TypeInv, TypeOK
<1> USE DEF Goto, ReadStamp, DropStamp, DropHeld, winVars
<1>1. CASE Transact
  <2>1. /\ file'.ver = file.ver + 1 /\ held'["main"] = file' /\ UNCHANGED <<cache, stamp, crossed>>
        /\ pc' = [pc EXCEPT !["main"] = "install"] /\ pc["watch"] # "install"
    BY <1>0, <1>1 DEF Transact, WriteOwn, Locked, TypeOK
  <2> QED BY <1>0, <2>1 DEF Dated, CacheCoherent, Installing, TypeOK
<1>2. CASE WatchStart
  <2>1. /\ file'.ver \in {file.ver, file.ver + 1} /\ (file'.ver = file.ver => file' = file)
        /\ UNCHANGED <<cache, stamp, crossed>>
        /\ pc'["watch"] = "install" => held'["watch"] = file'
        /\ pc'["main"] = pc["main"] /\ pc["main"] # "install"
    BY <1>0, <1>2 DEF WatchStart, WriteOwn, Locked, TypeOK
  <2>2. \A x \in {"main", "watch"} : pc'[x] = "install" => held'[x] = file'
    BY <1>0, <2>1
  <2>3. CASE file' = file
    BY <1>0, <2>1, <2>2, <2>3 DEF Dated, CacheCoherent, Installing, TypeOK
  <2>4. CASE file'.ver = file.ver + 1
    BY <1>0, <2>1, <2>2, <2>4 DEF Dated, CacheCoherent, Installing, TypeOK
  <2> QED BY <2>1, <2>3, <2>4
<1>3. CASE OtherWrites
  <2>1. /\ file'.ver = file.ver + 1 /\ UNCHANGED <<cache, stamp, held, pc>>
        /\ crossed' \in {crossed, file'.ver}
        /\ \A x \in {"main", "watch"} : pc[x] = "install" => crossed' = file'.ver
    BY <1>3 DEF OtherWrites, appVars
  <2>2. /\ \A x \in Thread : stamp[x] \in Nat
        /\ cache # Nothing => cache.stamp \in Nat /\ cache.ver \in Nat
        /\ file.ver \in Nat /\ crossed \in Nat
        /\ \A x \in {"main", "watch"} : pc[x] = "install" => held[x].ver \in Nat
    BY DEF TypeInv, TypeOK, Holding
  <2>3. \A x \in {"main", "watch"} : pc'[x] = "install" => Installing(x)'
    BY <2>1, <2>2 DEF Dated, Installing
  <2>4. \A x \in Thread : stamp'[x] <= file'.ver
    BY <2>1, <2>2 DEF Dated
  <2>5. crossed' <= file'.ver
    BY <2>1, <2>2 DEF Dated
  <2>6. cache' # Nothing =>
          /\ cache'.stamp <= file'.ver /\ cache'.ver <= file'.ver
          /\ cache'.ver # file'.ver /\ cache'.stamp # file'.ver
    BY <2>1, <2>2 DEF Dated
  <2> QED BY <2>3, <2>4, <2>5, <2>6 DEF Dated, CacheCoherent
<1>4. ASSUME NEW x \in {"main", "watch"}, pc[x] = "install",
             InstallLocked(file.ver, held[x].ver, held[x].board),
             UNCHANGED <<file, stamp, crossed>>, pc'["main"] # "install",
             pc'["watch"] # "install"
      PROVE  Dated'
  <2>1. cache' = [rev |-> rev + 1, stamp |-> file.ver, ver |-> held[x].ver,
                  board |-> held[x].board]
    BY <1>4 DEF InstallLocked
  <2> QED BY <1>0, <1>4, <2>1 DEF Dated, CacheCoherent, Installing, TypeOK
<1>5. CASE Install
  BY <1>0, <1>4, <1>5 DEF Install, Answer, Locked, TypeOK
<1>6. CASE WatchInstall
  BY <1>0, <1>4, <1>6 DEF WatchInstall, Locked, TypeOK
<1>7. CASE AnswerRow \/ AnswerBoard \/ Diff \/ (\E r \in Reader : ReaderLoad(r))
  <2>1. PICK x \in Thread : /\ pc[x] \in {"row", "board", "load"}
                            /\ CacheLoad(stamp[x]) /\ stamp' = [stamp EXCEPT ![x] = 0]
                            /\ pc' = [pc EXCEPT ![x] = "idle"]
                            /\ UNCHANGED <<file, crossed, held>>
    BY <1>0, <1>7 DEF AnswerRow, AnswerBoard, Diff, ReaderLoad, Thread
  <2>2. stamp[x] \in Version
    BY <2>1 DEF TypeInv, Stamped
  <2>3. \A y \in {"main", "watch"} : pc'[y] = "install" => pc[y] = "install"
    BY <1>0, <2>1 DEF TypeOK
  <2> QED BY <2>1, <2>2, <2>3, DatedLoad
<1>8. CASE BeginChange \/ TransactFails \/ BeginLoad \/ Wake \/ WatchArm \/ Poll \/ Peek
             \/ Compare \/ LockDiff \/ (\E r \in Reader : ReaderStamp(r)) \/ UNCHANGED vars
  <2>1. /\ UNCHANGED <<file, cache, crossed>>
        /\ \A x \in {"main", "watch"} :
             pc'[x] = "install" => pc[x] = "install" /\ held'[x] = held[x]
    BY <1>0, <1>8 DEF BeginChange, TransactFails, BeginLoad, Wake, WatchArm, Poll, Peek,
                      Compare, LockDiff, ReaderStamp, vars, history, TypeOK
  <2>2. \A x \in Thread : stamp'[x] \in {stamp[x], 0, file.ver}
    BY <1>0, <1>8 DEF BeginChange, TransactFails, BeginLoad, Wake, WatchArm, Poll, Peek,
                      Compare, LockDiff, ReaderStamp, vars, TypeOK
  <2> QED BY <2>1, <2>2, DatedStays
<1> QED BY <1>1, <1>2, <1>3, <1>5, <1>6, <1>7, <1>8 DEF Next, Main, Watch, Read

-----------------------------------------------------------------------------
(* The moves of the application itself.                                    *)

Reviewed(b) == \A k \in mine : b[k] = "review"

\* What the application moved to review is there in the file, in what is installed, and
\* in cache and snapshot unless a command has yet to install it.
Owned ==
  /\ IF file.board = Garbage THEN mine = {} ELSE Reviewed(file.board)
  /\ \A x \in {"main", "watch"} : pc[x] = "install" => Reviewed(held[x].board)
  /\ pc["main"] # "install" =>
       /\ cache # Nothing => Reviewed(cache.board)
       /\ snap # Nothing => Reviewed(snap)

LEMMA OwnedInit == Init => Owned
BY DEF Init, Owned, Reviewed, Thread

LEMMA OwnedStep == TypeInv /\ Owned /\ [Next]_vars => Owned'
<1> SUFFICES ASSUME TypeInv, Owned, [Next]_vars PROVE Owned'
  OBVIOUS
<1>0. /\ {"main", "watch"} \subseteq Thread /\ Nothing # "main" /\ Nothing # "watch"
      /\ TypeOK /\ Locked /\ {Garbage, Nothing} \cap Board = {} /\ Garbage # Nothing
  BY NothingAssumption DEF Thread, TypeInv
<1> USE DEF Goto, ReadStamp, DropStamp, DropHeld, winVars
<1>1. CASE Transact
  <2>1. /\ file'.board \in Board /\ mine' \subseteq {k \in Task : file'.board[k] = "review"}
        /\ held'["main"] = file' /\ pc' = [pc EXCEPT !["main"] = "install"]
        /\ pc["watch"] # "install"
    BY <1>0, <1>1, ChangedTyped DEF Transact, WriteOwn, Locked, TypeOK, TypeInv, Moving
  <2> QED BY <1>0, <2>1 DEF Owned, Reviewed, TypeOK
<1>2. CASE WatchStart
  <2>1. /\ file'.board = file.board /\ mine' \subseteq mine
        /\ pc'["watch"] = "install" => file.board # Garbage /\ held'["watch"] = file'
        /\ pc'["main"] = pc["main"] /\ pc["main"] # "install" /\ cache' = cache
        /\ snap' \in {snap, Nothing, file.board} /\ snap' # Garbage
    <3>1. \A k \in mine : file.board # Garbage => file.board[k] = "review"
      BY DEF Owned, Reviewed
    <3> QED BY <1>0, <1>2, <3>1 DEF WatchStart, WriteOwn, Locked, TypeOK
  <2> QED BY <1>0, <2>1 DEF Owned, Reviewed, TypeOK
<1>3. CASE OtherWrites
  <2>1. /\ mine' \subseteq mine /\ UNCHANGED <<cache, snap, held, pc>>
        /\ file'.board = Garbage => mine' = {}
        /\ \A k \in mine' : file'.board[k] = "review"
    BY <1>3 DEF OtherWrites, appVars
  <2> QED BY <2>1 DEF Owned, Reviewed
<1>4. CASE Install
  <2>1. /\ cache'.board = held["main"].board /\ snap' = held["main"].board
        /\ pc["main"] = "install" /\ UNCHANGED <<file, mine>> /\ pc["watch"] # "install"
        /\ pc'["main"] # "install" /\ pc'["watch"] = pc["watch"]
    BY <1>0, <1>4 DEF Install, InstallLocked, Answer, Locked, TypeOK
  <2> QED BY <1>0, <2>1 DEF Owned, Reviewed
<1>5. CASE WatchInstall
  <2>1. /\ cache'.board = held["watch"].board /\ snap' = held["watch"].board
        /\ pc["watch"] = "install" /\ UNCHANGED <<file, mine>> /\ pc["main"] # "install"
        /\ pc'["watch"] # "install" /\ pc'["main"] = pc["main"]
    BY <1>0, <1>5 DEF WatchInstall, InstallLocked, Locked, TypeOK
  <2> QED BY <1>0, <2>1 DEF Owned, Reviewed
<1>6. ASSUME NEW x \in Thread, CacheLoad(stamp[x]), stamp[x] \in Version,
             pc["main"] # "install", cache' # Nothing
      PROVE  Reviewed(cache'.board)
  BY <1>0, <1>6, LoadTyped DEF Owned, Reviewed
<1>7. CASE AnswerRow \/ AnswerBoard \/ (\E r \in Reader : ReaderLoad(r))
  <2>1. PICK x \in Thread : /\ pc[x] \in {"row", "board", "load"} /\ CacheLoad(stamp[x])
                            /\ pc' = [pc EXCEPT ![x] = "idle"]
                            /\ UNCHANGED <<file, held, snap, mine>>
                            /\ x # "watch"
    BY <1>0, <1>7, ReaderAssumption DEF AnswerRow, AnswerBoard, ReaderLoad, Thread
  <2>2. stamp[x] \in Version
    BY <2>1 DEF TypeInv, Stamped
  <2>3. pc'["main"] # "install" => pc["main"] # "install"
    BY <1>0, <2>1 DEF TypeOK
  <2>4. pc["main"] # "install" /\ cache' # Nothing => Reviewed(cache'.board)
    BY <1>6, <2>1, <2>2
  <2> QED BY <1>0, <2>1, <2>3, <2>4 DEF Owned, Reviewed, TypeOK
<1>8. CASE Diff
  <2>1. /\ stamp["watch"] \in Version /\ CacheLoad(stamp["watch"]) /\ pc["main"] # "install"
        /\ pc' = [pc EXCEPT !["watch"] = "idle"] /\ UNCHANGED <<file, held, mine>>
        /\ snap' = IF cache' = Nothing THEN snap ELSE cache'.board
    BY <1>0, <1>8 DEF Diff, TypeInv, Stamped, Locked
  <2>2. cache' # Nothing => Reviewed(cache'.board)
    BY <1>0, <1>6, <2>1
  <2> QED BY <1>0, <2>1, <2>2 DEF Owned, Reviewed, TypeOK
<1>9. CASE BeginChange \/ TransactFails \/ BeginLoad \/ Wake \/ WatchArm \/ Poll \/ Peek
             \/ Compare \/ LockDiff \/ (\E r \in Reader : ReaderStamp(r)) \/ UNCHANGED vars
  <2>1. /\ UNCHANGED <<file, cache, snap, held, mine>>
        /\ \A x \in {"main", "watch"} : pc'[x] = "install" => pc[x] = "install"
        /\ pc'["main"] # "install" => pc["main"] # "install"
    BY <1>0, <1>9, ReaderAssumption
       DEF BeginChange, TransactFails, BeginLoad, Wake, WatchArm, Poll, Peek, Compare,
           LockDiff, ReaderStamp, vars, history, TypeOK
  <2> QED BY <2>1 DEF Owned, Reviewed
<1> QED BY <1>1, <1>2, <1>3, <1>4, <1>5, <1>7, <1>8, <1>9 DEF Next, Main, Watch, Read

-----------------------------------------------------------------------------
(* What the window shows.                                                  *)

\* The row a command moves is in the window, and the window has all others.
RowOnly ==
  /\ shown[move.task] # "absent" /\ file.board[move.task] # "absent"
  /\ file.board = [shown EXCEPT ![move.task] = file.board[move.task]]

\* Nobody else has written what the window lacks: what was written is what is
\* installed, the cache has the board unless a command has yet to install it, and so
\* does the window but for a row that is on its way.
Agreed ==
  /\ file.board \in Board
  /\ \A x \in {"main", "watch"} : pc[x] = "install" => held[x] = file
  /\ pc["main"] # "install" /\ cache # Nothing => cache.board = file.board
  /\ pc["main"] \in {"answer", "row"} => cache # Nothing /\ shownRev < rev
  /\ want # "reload" =>
       /\ pc["main"] \in {"idle", "transact"} => shown = file.board
       /\ pc["main"] = "transact" /\ move.answer = "row" => shown[move.task] # "absent"
       /\ pc["main"] \in {"install", "answer", "row"} /\ move.answer = "row" => RowOnly

\* A window that lacks nothing but what it is going to be told shows the board of its
\* revision.
Synced ==
  news # "passed" /\ want # "reload" /\ pc["main"] # "board" /\ UpToDate
    => shown = cache.board

WindowInv == (news = "none" => Agreed) /\ Synced

LEMMA WindowInit == Init => WindowInv
BY DEF Init, WindowInv, Agreed, Synced, Thread

\* What a load gives while the window lacks nothing.
LEMMA AgreedLoad ==
  ASSUME TypeInv, Agreed, NEW x \in Thread, CacheLoad(stamp[x]), stamp[x] \in Version
  PROVE  /\ cache' # Nothing /\ cache'.rev = rev' /\ rev' \in Nat /\ rev <= rev'
         /\ pc["main"] # "install" => cache'.board = file.board
         /\ shownRev < rev => shownRev < rev'
         /\ shownRev <= rev'
BY NothingAssumption, LoadTyped DEF Agreed, TypeInv, TypeOK

\* The answer to get_board brings the window level with a board that is current.
LEMMA BoardAgreed ==
  ASSUME TypeInv, Dated, news = "none" => Agreed, AnswerBoard, news' = "none"
  PROVE  Agreed'
<1> USE DEF Goto, DropStamp, TypeOK
<1>0. "main" \in Thread /\ TypeOK /\ stamp["main"] \in Version /\ CacheLoad(stamp["main"])
      /\ pc["main"] = "board"
  BY DEF Thread, AnswerBoard, TypeInv, Stamped
<1>1. /\ UNCHANGED file /\ pc' = [pc EXCEPT !["main"] = "idle"]
      /\ UNCHANGED held
  BY DEF AnswerBoard
<1>2. \/ cache' = cache /\ rev' = rev /\ cache # Nothing
      \/ /\ cache'.ver = file.ver /\ cache'.board = file.board /\ cache' \in Snapshot
         /\ cache' # Nothing /\ rev' = rev + 1
      \/ file.board = Garbage /\ cache' = Nothing /\ rev' = rev
  BY <1>0, LoadTyped
<1>3. CASE news = "none"
  <2>1. /\ cache' # Nothing /\ cache'.rev = rev' /\ rev' \in Nat /\ shownRev <= rev'
        /\ cache'.board = file.board
    BY <1>0, <1>3, AgreedLoad
  <2>2. ~(cache'.rev < shownRev)
    BY <1>0, <2>1
  <2>3. shown' = file.board
    <3> HIDE DEF TypeOK
    <3> QED BY <2>1, <2>2 DEF AnswerBoard
  <2> QED BY <1>0, <1>1, <1>3, <2>1, <2>3 DEF Agreed
<1>4. CASE news # "none"
  <2>1. shown' = cache'.board /\ Current(cache')
    <3> HIDE DEF TypeOK
    <3> QED BY <1>4 DEF AnswerBoard, Current
  <2>2. /\ cache' # Nothing /\ cache'.ver = file.ver
        /\ \A x \in {"main", "watch"} : pc[x] # "install"
    BY <2>1 DEF Current
  <2>3. cache'.board = file.board /\ cache'.board \in Board
    BY <1>0, <1>2, <2>2 DEF Dated
  <2> QED BY <1>0, <1>1, <2>1, <2>2, <2>3 DEF Agreed
<1> QED BY <1>3, <1>4

\* The steps after which the window lacks nothing.
LEMMA AgreedStep == TypeInv /\ Dated /\ (news = "none" => Agreed) /\ [Next]_vars
                      => (news' = "none" => Agreed')
<1> SUFFICES ASSUME TypeInv, Dated, news = "none" => Agreed, [Next]_vars, news' = "none"
             PROVE  Agreed'
  OBVIOUS
<1>8. CASE AnswerBoard
  BY <1>8, BoardAgreed
<1>20. ~OtherWrites
  BY DEF OtherWrites
<1>22. ASSUME ~AnswerBoard PROVE news = "none"
  BY <1>20, <1>22
     DEF Next, Main, Watch, Read, vars, history, PassBy, BeginChange, Transact,
         TransactFails, Install, BeginLoad, AnswerRow, Wake, ReaderStamp, ReaderLoad,
         WatchStart, WatchInstall, WatchArm, Poll, Peek, Compare, LockDiff, Diff, winVars
<1> SUFFICES ASSUME ~AnswerBoard, Agreed PROVE Agreed'
  BY <1>8, <1>22
<1>0. /\ {"main", "watch"} \subseteq Thread /\ Nothing # "main" /\ Nothing # "watch"
      /\ TypeOK /\ Moving /\ Locked /\ file.board # Garbage
      /\ Nothing \notin Board
  BY NothingAssumption DEF Thread, TypeInv, Agreed
<1> USE DEF Goto, ReadStamp, DropStamp, DropHeld, winVars, TypeOK
<1>1. CASE BeginChange
  BY <1>0, <1>1 DEF BeginChange, Agreed, RowOnly
<1>2. CASE Transact
  <2>1. /\ file' = [ver |-> file.ver + 1, board |-> Changed(file.board)]
        /\ held' = [held EXCEPT !["main"] = file'] /\ pc' = [pc EXCEPT !["main"] = "install"]
        /\ UNCHANGED <<cache, rev, snap, mutex, stamp, last, move, session, want, shown, shownRev>>
        /\ pc["main"] = "transact" /\ move \in Changes /\ pc["watch"] # "install"
    BY <1>0, <1>2 DEF Transact, WriteOwn, Moving, Locked
  <2>2. file'.board \in Board
    BY <1>0, <2>1, ChangedTyped DEF Agreed
  <2>3. want # "reload" /\ move.answer = "row" => RowOnly'
    <3> SUFFICES ASSUME want # "reload", move.answer = "row" PROVE RowOnly'
      OBVIOUS
    <3>1. shown = file.board /\ shown[move.task] # "absent"
      BY <2>1 DEF Agreed
    <3>2. move.task \in Task /\ move.to \in {"open", "review"}
      BY <2>1 DEF Changes
    <3>3. file'.board = [shown EXCEPT ![move.task] = move.to]
      BY <2>1, <3>1 DEF Changed
    <3> QED BY <1>0, <2>1, <3>1, <3>2, <3>3 DEF RowOnly
  <2> QED BY <1>0, <2>1, <2>2, <2>3 DEF Agreed
<1>3. CASE TransactFails
  BY <1>0, <1>3 DEF TransactFails, Agreed, Moving, Changes
<1>4. CASE Install
  <2>1. /\ cache' = [rev |-> rev + 1, stamp |-> file.ver, ver |-> file.ver, board |-> file.board]
        /\ rev' = rev + 1
    BY <1>4 DEF Install, InstallLocked, Agreed
  <2>2. cache' \in Snapshot
    BY <1>0, <2>1 DEF Agreed
  <2>3. cache' # Nothing
    BY <2>2, NothingAssumption
  <2> QED BY <1>0, <1>4, <2>1, <2>3 DEF Install, Answer, Agreed, RowOnly, Moving
<1>5. CASE BeginLoad
  BY <1>0, <1>5 DEF BeginLoad, Agreed, RowOnly
<1>6. ASSUME NEW x \in Thread, CacheLoad(stamp[x]), stamp[x] \in Version
      PROVE  /\ cache' # Nothing /\ cache'.rev = rev' /\ rev' \in Nat /\ rev <= rev'
             /\ pc["main"] # "install" => cache'.board = file.board
             /\ shownRev < rev => shownRev < rev'
             /\ shownRev <= rev'
  BY <1>6, AgreedLoad
<1>7. CASE AnswerRow
  <2>1. stamp["main"] \in Version /\ CacheLoad(stamp["main"]) /\ pc["main"] = "row"
    BY <1>0, <1>7 DEF AnswerRow, TypeInv, Stamped
  <2>2. /\ cache' # Nothing /\ cache'.rev = rev' /\ shownRev < rev'
        /\ cache'.board = file.board
    BY <1>0, <1>6, <2>1 DEF Agreed
  <2>4. ~(cache'.rev <= shownRev)
    BY <1>0, <1>6, <2>1, <2>2
  <2>3. want' # "reload" => want # "reload" /\ shown' = file.board
    BY <1>0, <1>7, <2>1, <2>2, <2>4 DEF AnswerRow, Agreed, RowOnly, Moving
  <2> QED BY <1>0, <1>7, <2>1, <2>2, <2>3 DEF AnswerRow, Agreed
<1>9. CASE Wake
  BY <1>0, <1>9 DEF Wake, Agreed
<1>10. ASSUME NEW r \in Reader, ReaderStamp(r) PROVE Agreed'
  BY <1>0, <1>10, ReaderAssumption DEF ReaderStamp, Agreed, RowOnly
<1>11. ASSUME NEW r \in Reader, ReaderLoad(r) PROVE Agreed'
  <2>1. r \in Thread /\ stamp[r] \in Version /\ CacheLoad(stamp[r]) /\ r # "main" /\ r # "watch"
    BY <1>0, <1>11, ReaderAssumption DEF ReaderLoad, Thread, TypeInv, Stamped
  <2>2. /\ cache' # Nothing /\ cache'.rev = rev'
        /\ pc["main"] # "install" => cache'.board = file.board
        /\ shownRev < rev => shownRev < rev'
    BY <1>6, <2>1
  <2> QED BY <1>0, <1>11, <2>1, <2>2 DEF ReaderLoad, Agreed, RowOnly
<1>12. CASE WatchStart
  <2>1. /\ pc["main"] \notin {"transact", "install"} /\ file'.board = file.board
        /\ pc'["main"] = pc["main"]
        /\ \A x \in {"main", "watch"} : pc'[x] = "install" => held'[x] = file'
    BY <1>0, <1>12 DEF WatchStart, WriteOwn, Locked, Agreed
  <2> QED BY <1>0, <1>12, <2>1 DEF WatchStart, Agreed, RowOnly
<1>13. CASE WatchInstall
  <2>1. /\ cache' = [rev |-> rev + 1, stamp |-> file.ver, ver |-> file.ver, board |-> file.board]
        /\ rev' = rev + 1 /\ cache' # Nothing
        /\ pc'["main"] = pc["main"] /\ pc["main"] # "install"
    BY <1>0, <1>13, NothingAssumption DEF WatchInstall, InstallLocked, Agreed, Locked
  <2> QED BY <1>0, <1>13, <2>1 DEF WatchInstall, Agreed, RowOnly
<1>14. CASE WatchArm
  BY <1>0, <1>14 DEF WatchArm, Agreed, RowOnly
<1>15. CASE Poll
  BY <1>0, <1>15 DEF Poll, Agreed, RowOnly
<1>16. CASE Peek
  BY <1>0, <1>16 DEF Peek, Agreed, RowOnly
<1>17. CASE Compare
  BY <1>0, <1>17 DEF Compare, Agreed, RowOnly
<1>18. CASE LockDiff
  BY <1>0, <1>18 DEF LockDiff, Agreed, RowOnly
<1>19. CASE Diff
  <2>1. stamp["watch"] \in Version /\ CacheLoad(stamp["watch"]) /\ pc["main"] # "install"
    BY <1>0, <1>19 DEF Diff, TypeInv, Stamped, Locked
  <2>2. /\ cache' # Nothing /\ cache'.rev = rev' /\ cache'.board = file.board
        /\ shownRev < rev => shownRev < rev'
    BY <1>0, <1>6, <2>1
  <2> QED BY <1>0, <1>19, <2>1, <2>2 DEF Diff, Agreed, RowOnly
<1>21. CASE UNCHANGED vars
  BY <1>21 DEF vars, Agreed, RowOnly
<1> QED
  BY <1>1, <1>2, <1>3, <1>4, <1>5, <1>7, <1>9, <1>10, <1>11, <1>12, <1>13,
     <1>14, <1>15, <1>16, <1>17, <1>18, <1>19, <1>20, <1>21 DEF Next, Main, Watch, Read

\* What a load leaves of the window's revision.
LEMMA SyncedLoad ==
  ASSUME TypeInv, NEW x \in Thread, CacheLoad(stamp[x]), stamp[x] \in Version
  PROVE  /\ cache' = Nothing \/ (cache'.rev = rev' /\ shownRev <= cache'.rev)
         /\ cache' # Nothing /\ shownRev = cache'.rev => cache' = cache
BY LoadTyped DEF TypeInv, TypeOK

LEMMA SyncedStep == TypeInv /\ Dated /\ WindowInv /\ [Next]_vars => Synced'
<1> SUFFICES ASSUME TypeInv, Dated, WindowInv, [Next]_vars PROVE Synced'
  OBVIOUS
<1>0. /\ "main" \in Thread /\ pc = [x \in Thread |-> pc[x]] /\ rev \in Nat /\ shownRev \in 0..rev
      /\ news \in {"none", "unseen", "passed"}
  BY DEF Thread, TypeInv, TypeOK
<1>1. Synced /\ (news' = "none" => Agreed')
  BY AgreedStep DEF WindowInv
<1> USE DEF Goto
<1>2. CASE AnswerRow
  <2>1. /\ stamp["main"] \in Version /\ CacheLoad(stamp["main"]) /\ pc["main"] = "row"
        /\ pc'["main"] = "idle"
    BY <1>0, <1>2 DEF AnswerRow, TypeInv, Stamped
  <2>2. CASE news' = "none"
    BY <1>1, <2>1, <2>2 DEF Synced, UpToDate, Agreed
  <2>3. CASE news' # "none" /\ news' # "passed"
    <3>1. UNCHANGED <<shown, shownRev, want>> \/ want' = "reload"
      BY <1>0, <1>2, <2>3 DEF AnswerRow, PassBy, winVars
    <3>2. news # "passed"
      BY <1>0, <1>2, <2>3 DEF AnswerRow, PassBy
    <3>3. cache' # Nothing /\ shownRev = cache'.rev => cache' = cache
      BY <1>0, <2>1, SyncedLoad
    <3> QED BY <1>1, <2>1, <3>1, <3>2, <3>3 DEF Synced, UpToDate
  <2> QED BY <2>2, <2>3 DEF Synced
<1>3. CASE AnswerBoard
  <2>1. stamp["main"] \in Version /\ CacheLoad(stamp["main"])
    BY <1>0, <1>3 DEF AnswerBoard, TypeInv, Stamped
  <2>2. CASE cache' = Nothing
    BY <2>2 DEF Synced, UpToDate
  <2>3. CASE cache' # Nothing
    <3>1. ~(cache'.rev < shownRev)
      BY <1>0, <2>1, <2>3, SyncedLoad, LoadTyped DEF TypeInv, TypeOK
    <3>2. shown' = cache'.board
      BY <1>3, <2>3, <3>1 DEF AnswerBoard
    <3> QED BY <3>2 DEF Synced
  <2> QED BY <2>2, <2>3
<1>4. ASSUME ~AnswerRow, ~AnswerBoard
      PROVE  /\ UNCHANGED <<shown, shownRev>>
             /\ want' # "reload" /\ pc'["main"] # "board" =>
                  want # "reload" /\ pc["main"] # "board"
             /\ news' # "passed" => news # "passed"
  BY <1>0, <1>4, ReaderAssumption
     DEF Next, Main, Watch, Read, Thread, vars, appVars, history, winVars, PassBy,
         BeginChange, Transact, TransactFails, Install, Answer, BeginLoad, Wake, ReaderStamp,
         ReaderLoad, WatchStart, WatchInstall, WatchArm, Poll, Peek, Compare, LockDiff, Diff,
         OtherWrites
<1>5. ASSUME ~AnswerRow, ~AnswerBoard, cache' # Nothing, shownRev = cache'.rev
      PROVE  cache' = cache
  <2>1. CASE Install \/ WatchInstall
    <3>1. cache'.rev = rev + 1
      BY <2>1 DEF Install, WatchInstall, InstallLocked
    <3> QED BY <1>0, <1>5, <3>1
  <2>2. CASE Diff \/ (\E r \in Reader : ReaderLoad(r))
    <3>1. PICK x \in Thread : pc[x] = "load" /\ CacheLoad(stamp[x])
      BY <2>2 DEF Diff, ReaderLoad, Thread
    <3>2. stamp[x] \in Version
      BY <3>1 DEF TypeInv, Stamped
    <3> QED BY <1>5, <3>1, <3>2, SyncedLoad
  <2>3. CASE UNCHANGED cache
    BY <2>3
  <2> QED
    BY <1>5, <2>1, <2>2, <2>3
       DEF Next, Main, Watch, Read, vars, appVars, BeginChange, Transact, TransactFails,
           BeginLoad, Wake, ReaderStamp, WatchStart, WatchArm, Poll, Peek, Compare, LockDiff,
           OtherWrites
<1>6. CASE ~AnswerRow /\ ~AnswerBoard
  BY <1>1, <1>4, <1>5, <1>6 DEF Synced, UpToDate
<1> QED BY <1>2, <1>3, <1>6

-----------------------------------------------------------------------------

Inv == TypeInv /\ Dated /\ Owned /\ WindowInv

LEMMA InvInit == Init => Inv
BY TypedInit, DatedInit, OwnedInit, WindowInit DEF Inv

LEMMA InvStep == Inv /\ [Next]_vars => Inv'
BY TypedStep, DatedStep, OwnedStep, AgreedStep, SyncedStep DEF Inv, WindowInv

\* What the cache serves to a caller whose stamp it has is what the file holds
\* (BoardCache::load and install, cache.rs), whoever writes: a stamp read before the file
\* is no newer than the contents, and an install gets a stamp that is not its own only if
\* another program writes between the transaction and the install (Dated).
THEOREM CacheMeansItsStamp == Spec => []CacheCoherent
<1>1. Inv => CacheCoherent
  BY DEF Inv, Dated
<1> QED BY <1>1, InvInit, InvStep, PTL DEF Spec

\* A window at rest shows the board of its revision, though the answer to a move brings it
\* one row only (boardStore.ts, applyMutation) and other programs write as well: it had
\* all the other rows before, unless it is about to reload or what others wrote has
\* passed it by.
THEOREM WindowShowsItsRevision == Spec => []WindowAtRevision
<1>1. Inv => WindowAtRevision
  BY DEF Inv, WindowInv, Synced, WindowAtRevision
<1> QED BY <1>1, InvInit, InvStep, PTL DEF Spec

\* The watcher raises no alert for a task that the application itself moved to review
\* (lib.rs:3131-3134, write_todos_locked), whatever other programs write: whoever compares
\* holds the mutex, and whoever wrote has put the statuses into the snapshot before giving
\* it back.
THEOREM NoEchoOfOneself == Spec => NoEcho
<1>1. ASSUME Inv, Diff
      PROVE  Alerts(cache'.board) \cap mine = {}
  <2>1. pc["main"] # "install"
    BY <1>1, NothingAssumption DEF Inv, Diff, TypeInv, Locked
  <2> QED BY <1>1, <2>1 DEF Inv, Owned, Reviewed, Alerts
<1>2. Inv /\ [Next]_vars => [Diff /\ cache' # Nothing => Alerts(cache'.board) \cap mine = {}]_vars
  BY <1>1
<1> QED BY <1>2, InvInit, InvStep, PTL DEF Spec, NoEcho
=============================================================================
