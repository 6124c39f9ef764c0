------------------------------ MODULE MCMotion ------------------------------
(***************************************************************************)
(* TLC instances of Motion.  A tick is half a centimetre and a counter's   *)
(* byte holds two values, so that a move of a few ticks crosses both.      *)
(***************************************************************************)
EXTENDS Motion

Packet(op, amount, speed) == [op |-> op, amount |-> amount, speed |-> speed]

\* For ever, one centimetre, four centimetres; for ever, one degree, four.
MCCommands ==
  {Packet(op, amount, 100) : op \in Directions, amount \in {0, 1, 4}}
    \cup {Packet("STOP", 0, 0), Packet("CLEAR_STATS", 0, 0)}

\* The same at half speed.
MCHalfSpeed == {[c EXCEPT !.speed = 50] : c \in MCCommands}

\* The turns the client's l, r, z and x keys ask for, and their speeds.
MCTurns ==
  {Packet(op, 4, speed) : op \in {"LEFT", "RIGHT"}, speed \in {33, 48, 100}}
=============================================================================

