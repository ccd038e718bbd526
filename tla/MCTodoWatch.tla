---------------------------- MODULE MCTodoWatch ----------------------------
(***************************************************************************)
(* Instances of TodoWatch for TLC.                                         *)
(***************************************************************************)
EXTENDS TodoWatch

OfSession(own, other, hides, reads, startup) ==
  [own |-> own, other |-> other, hides |-> hides, reads |-> reads,
   startup |-> startup]

\* The app writes twice from its start on, or once under commands that load the
\* board; the app and another program write once each, under a window that
\* hides or at the start; another program writes alone under loading commands.
Mixed == {OfSession(2, 0, TRUE, FALSE, TRUE), OfSession(1, 0, FALSE, TRUE, FALSE),
          OfSession(1, 1, TRUE, FALSE, FALSE), OfSession(1, 1, FALSE, FALSE, TRUE),
          OfSession(0, 1, TRUE, TRUE, FALSE)}
=============================================================================
