------------------------------ MODULE MCConsole ------------------------------
(****************************************************************************)
(* A screen of 2 by 3.  kernel_main either prints a few characters and a    *)
(* byte in hexadecimal with interrupts on, or, at boot, one number in one   *)
(* of the formats.                                                          *)
(****************************************************************************)
EXTENDS Console

Printing(format, args) == [call |-> "printf", format |-> format, args |-> args]
Mouse == [call |-> "MouseToConsole"]
On == [call |-> "Activate"]

Line == Printing(<<"p", "q", "n">>, <<>>)

\* Boot text that ends on the screen, at its end, or has scrolled.
Boots == {<<>>, <<Printing(<<"n">>, <<>>)>>, <<Line, Line>>}

\* As in Resolve and PrintCache: text, numbers, line ends.
Lives == {<<Printing(<<"n">>, <<>>), Printing(<<"%", "i", ".">>, <<7>>)>>,
          <<Printing(<<"%", "x", "n">>, <<5 * 16 + 2>>)>>}

MCPrograms ==
  {boot \o <<Mouse, On>> \o live : boot \in Boots, live \in Lives}
   \cup {<<Mouse, Line, On, Printing(<<"a", "b">>, <<>>)>>}
   \cup {<<Printing(<<"%", letter>>, <<n>>)>> :
           letter \in Letters \ {"c", "s"},
           n \in {0, 1, 9, 10, 19, 255, 256, 1000, 32767, 32768, 40000, 65535}}
   \cup {<<Printing(<<"%", "c", "%", "%", "%", "s", "%", " ", "z">>, <<"c", <<"s", "t">>>>)>>}

MCChars == {DigitChars[d] : d \in 1 .. 16}
             \cup {"n", " ", "%", "above 0x80", "p", "q", ".", "a", "b", "c", "s", "t", "z", "k", "m"}
             \cup Letters

MCReports == {[format |-> <<"%", "x">>, args |-> <<3 * 16 + 8>>],
              [format |-> <<"m", "n">>, args |-> <<>>]}
MCMoves == {<<1, 0>>, <<-1, 1>>, <<4, -1>>}
==============================================================================
