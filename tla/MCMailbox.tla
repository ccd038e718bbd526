----------------------------- MODULE MCMailbox -----------------------------
(***************************************************************************)
(* Instances of Mailbox for TLC.                                           *)
(***************************************************************************)
EXTENDS Mailbox

CONSTANTS m1, m2, k1, d1, d2, p1, p2, p3

\* Two events of one task; they reach the resolver in either order.
MCTaskOf == [m \in Msg |-> k1]
MCTs == [m \in Msg |-> IF m = m1 THEN 1 ELSE 2]

\* The first device is polled by its loop, the second by its button as well.
MCDeviceOf == [p \in Poller |-> IF p = p1 THEN d1 ELSE d2]
=============================================================================
