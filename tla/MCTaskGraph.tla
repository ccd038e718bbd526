---------------------------- MODULE MCTaskGraph ----------------------------
(***************************************************************************)
(* Instances of TaskGraph for TLC.                                         *)
(***************************************************************************)
EXTENDS TaskGraph

CONSTANTS t1, t2, t3, p, q, c1, d1, d2

MCTask == {t1, t2, t3}
MCStatus == {"in_progress", "done"}

Plain(n) == [number |-> n, status |-> "in_progress", log |-> <<"in_progress">>,
             project |-> p, deps |-> {}, comments |-> {}, declared |-> None,
             cites |-> {}, stamp |-> Local]
Board(rows) == [t \in Task |-> IF t \in DOMAIN rows THEN rows[t] ELSE None]

\* One task depends on another, which may be an old row without number and history.
Start(old) == [t \in {t1, t2} |-> IF t = t1 THEN [Plain(1) EXCEPT !.deps = {t2}]
               ELSE IF old THEN [Plain(0) EXCEPT !.log = <<>>] ELSE Plain(2)]
MCStarts == {Board(Start(old)) : old \in BOOLEAN}

\* Exports of other machines.  One meets the ids of this board with an edge the other
\* way and a task that cites the other; one is a list written by hand.
Theirs(n) == [Plain(n) EXCEPT !.stamp = 1]
Crossing == [t \in {t2, t3} |->
  IF t = t2 THEN [Theirs(2) EXCEPT !.deps = {t1}, !.stamp = 2]
  ELSE [Theirs(1) EXCEPT !.deps = {t2}, !.cites = {2}]]
ByHand == [t \in {t2, t3} |->
  IF t = t2 THEN [Theirs(0) EXCEPT !.deps = {t3}, !.stamp = Undated]
  ELSE [Theirs(3) EXCEPT !.stamp = Undated]]

\* A list with one number twice, the next that this board would assign: both keep it.
Twins == [t \in {t2, t3} |-> [Theirs(3) EXCEPT !.stamp = 3]]
MCFiles == {Crossing, ByHand, Twins}
=============================================================================
