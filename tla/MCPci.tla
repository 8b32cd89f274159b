------------------------------- MODULE MCPci -------------------------------
(****************************************************************************)
(* Three devices of eight functions: a bridge or a disk controller or       *)
(* nothing, then up to two network cards, one of which may answer for all   *)
(* its functions or sit on a function other than 0, on one line or two.     *)
(****************************************************************************)
EXTENDS Pci

Memory == [type |-> "memory", address |-> 0]
Io(port) == [type |-> "io", address |-> port]
Bars(first, second, third) ==
  [n \in BarsRead |-> CASE n = 0 -> first [] n = 1 -> second [] n = 2 -> third
                        [] OTHER -> Memory]

Bridge == [isCard |-> FALSE, header |-> 1, bars |-> Bars(Memory, Io(3), Memory), line |-> 255]
Disk == [isCard |-> FALSE, header |-> 0, bars |-> Bars(Io(496), Io(1012), Io(0)), line |-> 10]
Card(port, line) ==
  [isCard |-> TRUE, header |-> 0, bars |-> Bars(Io(port), Memory, Io(0)), line |-> line]
CardByMemory == [Card(1, 255) EXCEPT !.bars = Bars(Memory, Memory, Memory)]

Nothing == [k \in 0 .. 7 |-> Absent]
OnlyAt(n, f) == [Nothing EXCEPT ![n] = f]
Everywhere(f) == [k \in 0 .. 7 |-> f]

Firsts == {Nothing, OnlyAt(0, Bridge), OnlyAt(1, Disk)}
Seconds == {Nothing, OnlyAt(0, Card(1, 10)), Everywhere(Card(1, 10))}
Thirds == {Nothing, OnlyAt(0, Card(2, 10)), OnlyAt(3, Card(2, 11)), OnlyAt(0, CardByMemory)}

MCMachines ==
  {[p \in 0 .. 23 |-> CASE p < 8 -> a[p] [] p \in 8 .. 15 -> b[p - 8] [] OTHER -> c[p - 16]] :
     a \in Firsts, b \in Seconds, c \in Thirds}
==============================================================================
