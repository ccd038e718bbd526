----------------------------- MODULE BoardStore -----------------------------
(***************************************************************************)
(* What the board promises its writers: a write is one atomic step that    *)
(* adds its own change to the board as it is at that moment.               *)
(***************************************************************************)
EXTENDS Naturals

CONSTANT Writer

VARIABLES
  board,   \* how many writes of each writer the board contains
  done     \* how many writes of each writer were carried out

vars == <<board, done>>

Init == board = [w \in Writer |-> 0] /\ done = [w \in Writer |-> 0]

Write(w) == /\ board' = [board EXCEPT ![w] = @ + 1]
            /\ done' = [done EXCEPT ![w] = @ + 1]

Next == \E w \in Writer : Write(w)

Spec == Init /\ [][Next]_vars
=============================================================================
