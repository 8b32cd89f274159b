----------------------------- MODULE MCNetwork -----------------------------
(****************************************************************************)
(* Small networks: the gateway, and at most one other host that sends.      *)
(****************************************************************************)
EXTENDS Network

MCNothing == Noise
MCLeftover == {[ip |-> "junk", mac |-> "junk"]}

\* Another host asks for our address and announces its own.
BusyIncoming ==
  {Request("p1", "m1", OurIP), Reply("p1", "m1", OurIP)}

Asking == {Request("p1", "m1", OurIP)}
Whole == {TRUE}
Any == BOOLEAN
Nobody == {}
==============================================================================
