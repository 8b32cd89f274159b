----------------------------- MODULE MCDesktop -----------------------------
(****************************************************************************)
(* A screen of 4 by 3 with two windows that overlap.                        *)
(****************************************************************************)
EXTENDS Desktop

MCWindows == <<[x |-> 0, y |-> 0, w |-> 1, h |-> 1],
               [x |-> 1, y |-> 1, w |-> 1, h |-> 0]>>
MCSteps == {<<0, 0>>, <<1, 0>>, <<-2, 0>>, <<0, 1>>, <<1, -1>>}
==============================================================================
