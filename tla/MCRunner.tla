------------------------------ MODULE MCRunner ------------------------------
(***************************************************************************)
(* Instance of Runner: small changes that between them reach every kind of *)
(* node and of stop.                                                       *)
(***************************************************************************)
EXTENDS Runner

CONSTANTS a, b  \* outputs

Auto == [deps |-> {}, kind |-> "auto", produces |-> {a}, red |-> FALSE, flow |-> FALSE,
         limit |-> 1, on_issue |-> None, budget |-> None]

\* A step, and a gate behind it that sends its issues back to it.
Fix ==
  [node |-> <<[Auto EXCEPT !.limit = 2],
              [Auto EXCEPT !.kind = "gate", !.deps = {1}, !.on_issue = 1, !.limit = 2]>>,
   budget |-> None, parallel |-> 2]

\* Two red steps that wait for nothing: each runs alone, on files the other has written.
Fixes ==
  [node |-> <<[Auto EXCEPT !.red = TRUE], [Auto EXCEPT !.red = TRUE]>>,
   budget |-> None, parallel |-> 2]

\* Two steps at once, one with a budget and a flow, the other a gate without a limit.
Pair ==
  [node |-> <<[Auto EXCEPT !.budget = 0, !.flow = TRUE],
              [Auto EXCEPT !.kind = "gate", !.produces = {b}, !.limit = None]>>,
   budget |-> None, parallel |-> 2]

\* Two steps that write the same file, then a node for a person only.
Same ==
  [node |-> <<Auto, [Auto EXCEPT !.kind = "hand", !.limit = None]>>,
   budget |-> 0, parallel |-> 2]

\* A gate with nothing to approve, and a red step beside it that may be tried twice: more
\* steps than may run at once.
Narrow ==
  [node |-> <<[Auto EXCEPT !.kind = "empty", !.produces = {}],
              [Auto EXCEPT !.red = TRUE, !.limit = 2]>>,
   budget |-> None, parallel |-> 1]

\* A step that may be tried twice.
Twice == [node |-> <<[Auto EXCEPT !.limit = 2], Auto>>, budget |-> None, parallel |-> 1]

MCNode == 1..2
MCPlans == {Fix, Fixes, Pair, Same, Narrow}
MCTwice == {Twice}
=============================================================================
