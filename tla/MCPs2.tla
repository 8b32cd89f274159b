------------------------------- MODULE MCPs2 -------------------------------
(****************************************************************************)
(* A letter and a shift key, a mouse that moves and presses its button.     *)
(****************************************************************************)
EXTENDS Ps2

MCKeys == {30, LeftShift}

\* Left button and a step to the right; nothing pressed and a step back.
MCPackets ==
  {[i \in 0 .. 2 |-> CASE i = 0 -> 9 [] i = 1 -> 1 [] i = 2 -> 0],
   [i \in 0 .. 2 |-> CASE i = 0 -> 56 [] i = 1 -> 255 [] i = 2 -> 255]}

\* Both interrupts on, or both off and both devices disabled.
MCConfig == {71, 116}
==============================================================================
