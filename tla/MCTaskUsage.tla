---------------------------- MODULE MCTaskUsage ----------------------------
(***************************************************************************)
(* Instances of TaskUsage for TLC.                                         *)
(***************************************************************************)
EXTENDS TaskUsage, TLC

CONSTANTS transcript, rollout, other, p1, p2, m1, m2, s1, s2, gpt, opus, t1, t2, here, there

Meta(k, s, m) == [kind |-> k, id |-> m1, at |-> 1, session |-> s, model |-> m, limits |-> FALSE]
Says(k, x, s, m, at) == [kind |-> k, id |-> x, at |-> at, session |-> s, model |-> m,
                         limits |-> FALSE]
Limit(at) == [kind |-> "usage", id |-> m1, at |-> at, session |-> None, model |-> None,
              limits |-> TRUE]

\* Two commands at once in a rollout whose session precedes the row.
Together ==
  [logs |-> rollout :> <<Meta("session", s2, None), Says("usage", m1, None, None, 1)>>,
   halves |-> {rollout}, passes |-> {p1, p2}, limits |-> FALSE, faults |-> 1]

\* A transcript with two tables, and a rollout.
Apart ==
  [logs |-> (transcript :> <<Says("usage", m1, s1, opus, 1), Says("result", m1, s1, None, 2)>>)
            @@ (rollout :> <<Meta("session", s2, None), Says("usage", m2, None, None, 2)>>),
   halves |-> {rollout}, passes |-> {p1}, limits |-> FALSE, faults |-> 2]

\* One id in two lines.
Twice ==
  [logs |-> (rollout :> <<Meta("session", s1, None), Says("usage", m1, None, None, 2),
                          Meta("model", None, gpt), Says("usage", m1, None, None, 3)>>),
   halves |-> {rollout}, passes |-> {p1}, limits |-> FALSE, faults |-> 2]

\* Snapshots of the limits, not in the order of their times.
Limits ==
  [logs |-> (rollout :> <<Limit(2), Limit(3), Limit(1)>>) @@ (other :> <<Limit(2)>>),
   halves |-> {rollout}, passes |-> {}, limits |-> TRUE, faults |-> 1]

\* A session with a message, and events of the journal.
Bound ==
  [logs |-> transcript :> <<Says("usage", m1, s1, opus, 2)>>,
   halves |-> {}, passes |-> {p1}, limits |-> FALSE, faults |-> 0]

\* A session with two messages and no journal, and other evidence.
Worked ==
  [logs |-> (transcript :> <<Says("usage", m1, s1, opus, 1), Says("usage", m2, s1, opus, 2)>>),
   halves |-> {}, passes |-> {p1}, limits |-> FALSE, faults |-> 0]

MCDays == {Together, Apart, Twice, Limits, Bound, Worked}

Task1 == [number |-> 1, project |-> here, history |-> <<[at |-> 1, busy |-> TRUE]>>]
Task2 == [number |-> 2, project |-> there,
          history |-> <<[at |-> 1, busy |-> TRUE], [at |-> 2, busy |-> FALSE]>>]
Refs == {[task |-> t1], [number |-> 1], [number |-> 2]}

Events == {e \in Event : e.session = s1 /\ e.source # "auto"
                         /\ (e.source = "run-step" <=> e.event = "start" /\ e.task = t1)}

Few == {S \in SUBSET Refs : Cardinality(S) <= 1}
Boards == {(t1 :> Task1) @@ (t2 :> Task2), (t1 :> Task1) @@ (t2 :> None)}

\* Another task has the number of the session's own, and is of no project.
TwoOfOne == (t1 :> Task1) @@ (t2 :> [Task2 EXCEPT !.number = 1, !.project = None])
Nobody == [s \in Session |-> None]

MCDesks(d) ==
  IF d = Bound
  THEN {[board |-> b, order |-> <<t1, t2>>, project |-> [s \in Session |-> here],
         evidence |-> Nobody, events |-> Events, binds |-> IF b[t2] = None THEN 2 ELSE 3]
          : b \in Boards}
  ELSE IF d = Worked
  THEN [board : Boards \cup {TwoOfOne}, order : {<<t1, t2>>, <<t2, t1>>},
        project : {[s \in Session |-> q] : q \in {here, None}},
        evidence : {[s \in Session |-> e] : e \in [moves : Few \cup {Refs}, touched : Few,
                                                   mentions : Few]},
        events : {{}}, binds : {0}]
  ELSE {[board |-> [t \in Task |-> None], order |-> <<>>, project |-> Nobody,
         evidence |-> Nobody, events |-> {}, binds |-> 0]}
=============================================================================
