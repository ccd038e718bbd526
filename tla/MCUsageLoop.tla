---------------------------- MODULE MCUsageLoop ----------------------------
(***************************************************************************)
(* Instances of UsageLoop for TLC.                                         *)
(***************************************************************************)
EXTENDS UsageLoop

Usage(pct, soon, over) == [active |-> TRUE, pct |-> pct, soon |-> soon, over |-> over]

\* A bucket, with the forecast, and the limit, with the budget spent.
MCUsages == {Usage(3, TRUE, FALSE), Usage(5, FALSE, TRUE)}
=============================================================================
