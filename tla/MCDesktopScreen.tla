-------------------------- MODULE MCDesktopScreen --------------------------
(****************************************************************************)
(* A screen of 2 by 3 with two windows that overlap; the one behind hangs   *)
(* over the upper and the lower edge, and dragging takes both over the      *)
(* others.                                                                  *)
(****************************************************************************)
EXTENDS DesktopScreen

MCWindows == <<[x |-> 0, y |-> 1, w |-> 1, h |-> 1],
               [x |-> 1, y |-> -1, w |-> 2, h |-> 5]>>
MCSteps == {<<0, 0>>, <<1, 0>>, <<-1, 0>>}
==============================================================================
