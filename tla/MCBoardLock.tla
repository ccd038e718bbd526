---------------------------- MODULE MCBoardLock ----------------------------
(***************************************************************************)
(* Instances of BoardLock for TLC.                                         *)
(***************************************************************************)
EXTENDS BoardLock

CONSTANTS app1, app2, cli1, cli2, cli3, App, Cli1, Cli2, Cli3

\* The tray app has two threads, a CLI command one.
PidOf(t) == CASE t \in {app1, app2} -> App [] t = cli1 -> Cli1
              [] t = cli2 -> Cli2 [] t = cli3 -> Cli3
MCProcOf == [t \in Thread |-> PidOf(t)]

\* The states a run reaches when cli3 takes the lock first and dies with it:
\* before filling the file, or just after.
DiedHolding ==
  /\ dead = {Cli3}
  /\ \E filled \in IF TornCrash THEN BOOLEAN ELSE {TRUE} :
       /\ lock = [by |-> cli3, filled |-> filled]
       /\ pc = [t \in Thread |-> IF t = cli3 /\ ~filled THEN "fill" ELSE "idle"]
  /\ claim = [p \in Proc |-> NoLock]
  /\ owner = [p \in Proc |-> {}]
  /\ depth = [t \in Thread |-> 0]
  /\ seen = [t \in Thread |-> {}]
  /\ tmp = {}
  /\ view = [t \in Thread |-> NothingRead]
  /\ board = [t \in Thread |-> 0]
  /\ done = [t \in Thread |-> 0]
  /\ stuck = {}

SpecAfterCrash == DiedHolding /\ [][Next]_vars
=============================================================================
