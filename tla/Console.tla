------------------------------- MODULE Console -------------------------------
(****************************************************************************)
(* The text console (vga.cpp) under printf, in kernel_main's text mode.     *)
(* kernel_main prints one memory access at a time; interrupt handlers       *)
(* print, or move the mouse's cell, as a whole, between any two of those    *)
(* accesses once interrupts are on.  Both use one cursor, one               *)
(* videoAddrIndex and one string literal "00".                              *)
(****************************************************************************)
EXTENDS Stdio

CONSTANTS
  Width, Height,    \* VGA_WIDTH, VGA_HEIGHT
  HalfByte,         \* an int8_t is below it
  Programs,         \* what kernel_main may do: sequences of calls
  Typed,            \* characters the keyboard handler prints
  Reports,          \* other printf calls of handlers: [format, args]
  Moves,            \* <<dx, dy>> the mouse reports
  MaxInterrupts     \* bound: interrupts that change anything

\* One MouseToConsole, and interrupts only after it.
InOrder(p) ==
  \A i \in 1 .. Len(p) :
    /\ p[i].call = "MouseToConsole" =>
         \A j \in 1 .. (i - 1) : p[j].call # "MouseToConsole"
    /\ p[i].call = "Activate" => \E j \in 1 .. (i - 1) : p[j].call = "MouseToConsole"

ASSUME ConsoleAssumption ==
  /\ Width \in Nat \ {0, 1} /\ Height \in Nat \ {0, 1}
  /\ HalfByte \in Nat /\ HalfByte > Width /\ HalfByte > Height
  /\ MaxInterrupts \in Nat
  /\ Typed \subseteq Chars
  /\ \A r \in Reports : Fits(r.format, r.args)
  /\ \A d \in Moves : d[1] \in Int /\ d[2] \in Int
  /\ \A p \in Programs :
       /\ Len(p) \in Nat /\ p = [i \in 1 .. Len(p) |-> p[i]]
       /\ \A i \in 1 .. Len(p) :
            \/ p[i].call = "printf" /\ Fits(p[i].format, p[i].args)
            \/ p[i].call \in {"MouseToConsole", "Activate"}
       /\ InOrder(p)

VARIABLES
  con,          \* cell, x, y, index, foo: what all printing shares
  main,         \* kernel_main: calls, format, args, ops, pc, char, temp
  mouse,        \* MouseToConsole's x and y
  stage,        \* "boot", "mouse": handler constructed, "on": Activate
  interrupts,   \* how many there were
  text,         \* history: the characters printed, in order
  torn,         \* history: a handler printed where kernel_main could not bear it
  ghost,        \* history: something was printed over the mouse's cell
  said          \* history: kernel_main's conversion and its characters

vars == <<con, main, mouse, stage, interrupts, text, torn, ghost, said>>

Cells == 0 .. (Width * Height - 1)
\* The adapter's memory goes on behind the screen.
Memory == 0 .. (Width * (Height + 1) - 1)

White == <<15, 0>>     \* foreground, background
LightGrey == <<7, 0>>
Cleared == [char |-> " ", color |-> <<0, 0>>]
Blank == [char |-> " ", color |-> White]

Init ==
  /\ con = [cell |-> [a \in Memory |-> IF a \in Cells THEN Blank ELSE Cleared],
            x |-> 0, y |-> 0, index |-> 0, foo |-> <<"0", "0">>]
  /\ \E p \in Programs :
       main = [calls |-> p, format |-> <<>>, args |-> <<>>, ops |-> <<>>,
               pc |-> "next", char |-> " ", temp |-> 0]
  /\ mouse = [x |-> Width \div 2, y |-> Height \div 2]
  /\ stage = "boot"
  /\ interrupts = 0
  /\ text = <<>> /\ torn = FALSE /\ ghost = FALSE
  /\ said = [letter |-> " ", arg |-> 0, chars |-> <<>>]

----------------------------------------------------------------------------
\* vga_putEntry as a whole, the way a handler runs it.

\* Every row moves up one; the last one is cleared, its color too.
Scrolled(cell) ==
  [a \in Memory |->
     IF a + Width \in Cells THEN cell[a + Width]
     ELSE IF a \in Cells THEN Cleared ELSE cell[a]]

MadeRoom(c) ==
  IF c.y > Height - 1
    THEN [c EXCEPT !.y = Height - 1, !.x = 0, !.cell = Scrolled(@)]
    ELSE c

\* Mutant: the cursor stays behind the last column.
AdvancedNoWrap(c) == [c EXCEPT !.x = @ + 1]

Advanced(c) ==
  IF c.x + 1 >= Width THEN [c EXCEPT !.x = 0, !.y = @ + 1]
  ELSE [c EXCEPT !.x = @ + 1]

PutEntry(c, char) ==
  LET r == MadeRoom(c)
      i == Width * r.y + r.x
  IN IF char = NewLine THEN [r EXCEPT !.y = @ + 1, !.x = 0]
     ELSE Advanced([r EXCEPT !.index = i,
                             !.cell[i] = [char |-> char, color |-> LightGrey]])

Done(c, o) ==
  CASE o.op = "put" -> PutEntry(c, o.char)
    [] o.op = "store" -> [c EXCEPT !.foo[o.at] = o.char]
    [] o.op = "show" -> PutEntry(c, c.foo[o.at])

\* The console after the first n operations.
RunUpTo(c, ops) ==
  LET run[n \in 0 .. Len(ops)] == IF n = 0 THEN c ELSE Done(run[n - 1], ops[n])
  IN run

Run(c, ops) == RunUpTo(c, ops)[Len(ops)]

----------------------------------------------------------------------------
\* kernel_main: printf, print and putchar.

\* The mouse's cell as the screen has it: foreground and background swapped.
Invert(cell, m) ==
  [cell EXCEPT ![Width * m.y + m.x].color = <<@[2], @[1]>>]

To(pc) == main' = [main EXCEPT !.pc = pc]

Call ==
  /\ main.pc = "next" /\ main.ops = <<>> /\ main.format = <<>>
  /\ main.calls # <<>>
  /\ main.calls[1].call = "printf"
  /\ main' = [main EXCEPT !.calls = Tail(@), !.format = main.calls[1].format,
                          !.args = main.calls[1].args]
  /\ UNCHANGED <<con, mouse, stage, interrupts, text, torn, ghost, said>>

\* The constructor of MouseToConsole inverts the cell in the middle.
ConstructMouse ==
  /\ main.pc = "next" /\ main.ops = <<>> /\ main.format = <<>>
  /\ main.calls # <<>>
  /\ main.calls[1].call = "MouseToConsole"
  /\ con' = [con EXCEPT !.cell = Invert(@, mouse)]
  /\ stage' = "mouse"
  /\ main' = [main EXCEPT !.calls = Tail(@)]
  /\ ghost' = FALSE
  /\ UNCHANGED <<mouse, interrupts, text, torn, said>>

Activate ==
  /\ main.pc = "next" /\ main.ops = <<>> /\ main.format = <<>>
  /\ main.calls # <<>>
  /\ main.calls[1].call = "Activate"
  /\ stage' = "on"
  /\ main' = [main EXCEPT !.calls = Tail(@)]
  /\ UNCHANGED <<con, mouse, interrupts, text, torn, ghost, said>>

Convert ==
  /\ main.pc = "next" /\ main.ops = <<>> /\ main.format # <<>>
  /\ LET it == Iteration(main.format, main.args)
     IN main' = [main EXCEPT !.format = it.format, !.args = it.args, !.ops = it.ops]
  /\ said' = IF Conversion(main.format)
                THEN [letter |-> main.format[2], arg |-> main.args[1], chars |-> <<>>]
                ELSE [letter |-> " ", arg |-> 0, chars |-> <<>>]
  /\ UNCHANGED <<con, mouse, stage, interrupts, text, torn, ghost>>

StoreDigit ==
  /\ main.pc = "next" /\ main.ops # <<>>
  /\ main.ops[1].op = "store"
  /\ con' = [con EXCEPT !.foo[main.ops[1].at] = main.ops[1].char]
  /\ main' = [main EXCEPT !.ops = Tail(@)]
  /\ UNCHANGED <<mouse, stage, interrupts, text, torn, ghost, said>>

PutChar ==
  /\ main.pc = "next" /\ main.ops # <<>>
  /\ main.ops[1].op # "store"
  /\ LET o == main.ops[1]
         c == IF o.op = "show" THEN con.foo[o.at] ELSE o.char
     IN /\ main' = [main EXCEPT !.ops = Tail(@), !.char = c, !.pc = "room"]
        /\ said' = [said EXCEPT !.chars = Append(@, c)]
  /\ UNCHANGED <<con, mouse, stage, interrupts, text, torn, ghost>>

----------------------------------------------------------------------------
\* kernel_main in vga_putEntry, one access to the shared cursor at a time.

AfterRoom == IF main.char = NewLine THEN "line" ELSE "row"

\* Mutant: only when the cursor is two lines below the screen.
MakeRoomLate ==
  /\ main.pc = "room"
  /\ To(IF con.y > Height THEN "clampY" ELSE AfterRoom)
  /\ UNCHANGED <<con, mouse, stage, interrupts, text, torn, ghost, said>>

MakeRoom ==
  /\ main.pc = "room"
  /\ To(IF con.y > Height - 1 THEN "clampY" ELSE AfterRoom)
  /\ UNCHANGED <<con, mouse, stage, interrupts, text, torn, ghost, said>>

ClampY ==
  /\ main.pc = "clampY"
  /\ con' = [con EXCEPT !.y = Height - 1]
  /\ To("clampX")
  /\ UNCHANGED <<mouse, stage, interrupts, text, torn, ghost, said>>

ClampX ==
  /\ main.pc = "clampX"
  /\ con' = [con EXCEPT !.x = 0]
  /\ main' = [main EXCEPT !.pc = "scroll", !.temp = 0]
  /\ UNCHANGED <<mouse, stage, interrupts, text, torn, ghost, said>>

\* vga_scrollLine, cell by cell; temp is the cell.
ScrollCell ==
  /\ main.pc = "scroll"
  /\ con' = [con EXCEPT !.cell[main.temp] = con.cell[main.temp + Width],
                        !.cell[main.temp + Width] = Cleared]
  /\ main' = IF main.temp + 1 < Width * (Height - 1)
               THEN [main EXCEPT !.temp = @ + 1]
               ELSE [main EXCEPT !.pc = AfterRoom]
  /\ ghost' = TRUE
  /\ UNCHANGED <<mouse, stage, interrupts, text, torn, said>>

\* y++ is a load and a store, also at the end of a full line.
LoadY ==
  /\ main.pc \in {"line", "wrapY"}
  /\ main' = [main EXCEPT !.temp = con.y,
                          !.pc = IF main.pc = "line" THEN "lineStore" ELSE "wrapStore"]
  /\ text' = IF main.pc = "line" THEN Append(text, NewLine) ELSE text
  /\ UNCHANGED <<con, mouse, stage, interrupts, torn, ghost, said>>

StoreY ==
  /\ main.pc \in {"lineStore", "wrapStore"}
  /\ con' = [con EXCEPT !.y = main.temp + 1]
  /\ To(IF main.pc = "lineStore" THEN "lineX" ELSE "next")
  /\ UNCHANGED <<mouse, stage, interrupts, text, torn, ghost, said>>

\* x = 0 after the newline's y++, before the full line's.
ClearX ==
  /\ main.pc \in {"lineX", "wrapX"}
  /\ con' = [con EXCEPT !.x = 0]
  /\ To(IF main.pc = "lineX" THEN "next" ELSE "wrapY")
  /\ UNCHANGED <<mouse, stage, interrupts, text, torn, ghost, said>>

Row ==
  /\ main.pc = "row"
  /\ main' = [main EXCEPT !.pc = "column", !.temp = Width * con.y]
  /\ text' = Append(text, main.char)
  /\ UNCHANGED <<con, mouse, stage, interrupts, torn, ghost, said>>

Column ==
  /\ main.pc = "column"
  /\ con' = [con EXCEPT !.index = main.temp + con.x]
  /\ To("write")
  /\ UNCHANGED <<mouse, stage, interrupts, text, torn, ghost, said>>

MouseCell == Width * mouse.y + mouse.x

Write ==
  /\ main.pc = "write"
  /\ con' = [con EXCEPT !.cell[con.index] = [char |-> main.char, color |-> LightGrey]]
  /\ ghost' = (ghost \/ con.index = MouseCell)
  /\ To("load")
  /\ UNCHANGED <<mouse, stage, interrupts, text, torn, said>>

LoadX ==
  /\ main.pc = "load"
  /\ main' = [main EXCEPT !.temp = con.x, !.pc = "store"]
  /\ UNCHANGED <<con, mouse, stage, interrupts, text, torn, ghost, said>>

StoreX ==
  /\ main.pc = "store"
  /\ con' = [con EXCEPT !.x = main.temp + 1]
  /\ To("wrap")
  /\ UNCHANGED <<mouse, stage, interrupts, text, torn, ghost, said>>

Wrap ==
  /\ main.pc = "wrap"
  /\ To(IF con.x >= Width THEN "wrapX" ELSE "next")
  /\ UNCHANGED <<con, mouse, stage, interrupts, text, torn, ghost, said>>

Main ==
  \/ Call \/ ConstructMouse \/ Activate \/ Convert \/ StoreDigit \/ PutChar
  \/ MakeRoom \/ ClampY \/ ClampX \/ ScrollCell \/ LoadY \/ StoreY \/ ClearX
  \/ Row \/ Column \/ Write \/ LoadX \/ StoreX \/ Wrap

----------------------------------------------------------------------------
\* Interrupt handlers.

\* Where a handler that leaves the console as c has spoilt what kernel_main
\* was doing: between the places it takes from the cursor and the cursor's
\* move behind them; and before them only if it left the cursor below the
\* screen, after kernel_main had looked.  Digits in foo are spoilt between
\* their store and their print.
Tears(c) ==
  \/ main.pc \in {"clampY", "clampX", "scroll", "column", "write", "load", "store",
                  "wrapX", "wrapY", "wrapStore", "lineStore", "lineX"}
  \/ main.pc \in {"line", "row"} /\ c.y > Height - 1
  \/ main.pc = "wrap" /\ con.x >= Width
  \/ \E i \in 1 .. Len(main.ops) :
       LET o == main.ops[i]
       IN /\ o.op = "show" /\ c.foo[o.at] # o.char
          /\ \A j \in 1 .. (i - 1) : main.ops[j] # Store(o.at, o.char)

HandlerPrints(ops) ==
  LET c == Run(con, ops)
  IN /\ stage = "on" /\ interrupts < MaxInterrupts
     /\ interrupts' = interrupts + 1
     /\ con' = c
     /\ text' = text \o Characters(ops)
     /\ torn' = (torn \/ Tears(c))
     /\ ghost' = (ghost \/ c.cell[MouseCell] # con.cell[MouseCell]
                        \/ con.y > Height - 1 \/ c.y > Height - 1)
     /\ UNCHANGED <<main, mouse, stage, said>>

\* PrintfKeyboardEventHandler: the character typed is the format.
OnKeyDown(c) == HandlerPrints(Printf(<<c>>, <<>>))

\* An unknown key, or an error of the network card.
Report(r) == HandlerPrints(Printf(r.format, r.args))

\* x and y are int8_t: a sum beyond it is negative before it is clamped.
Int8(n) == IF n >= HalfByte THEN n - 2 * HalfByte
           ELSE IF n < -HalfByte THEN n + 2 * HalfByte ELSE n

Clamped(n, limit) == IF n < 0 THEN 0 ELSE IF n >= limit THEN limit - 1 ELSE n

\* Mutant: the old cell stays inverted.
InvertedNewOnly(cell, old, new) == Invert(cell, new)

Inverted(cell, old, new) == Invert(Invert(cell, old), new)

OnMouseMove(d) ==
  LET new == [x |-> Clamped(Int8(mouse.x + d[1]), Width),
              y |-> Clamped(Int8(mouse.y + d[2]), Height)]
  IN /\ stage = "on" /\ interrupts < MaxInterrupts
     /\ interrupts' = interrupts + 1
     /\ con' = [con EXCEPT !.cell = Inverted(@, mouse, new)]
     /\ mouse' = new
     /\ UNCHANGED <<main, stage, text, torn, ghost, said>>

Interrupt ==
  \/ \E c \in Typed : OnKeyDown(c)
  \/ \E r \in Reports : Report(r)
  \/ \E d \in Moves : OnMouseMove(d)

Next == Main \/ Interrupt
Spec == Init /\ [][Next]_vars

----------------------------------------------------------------------------
\* Correctness.

\* Where the n-th character of the text belongs, on an endless page, and the
\* rows that have left the screen by then: a row leaves when something is
\* printed after the line behind the last row has begun.
Following(p, char) ==
  IF char = NewLine \/ p.column + 1 = Width
    THEN [row |-> p.row + 1, column |-> 0]
    ELSE [p EXCEPT !.column = @ + 1]

Layout(t) ==
  LET at[n \in 0 .. Len(t)] ==
        IF n = 0 THEN [row |-> 0, column |-> 0] ELSE Following(at[n - 1], t[n])
  IN at

Gone(t) ==
  LET row == IF t = <<>> THEN 0 ELSE Layout(t)[Len(t) - 1].row
  IN IF row > Height - 1 THEN row - (Height - 1) ELSE 0

\* The character the text puts into a cell, blank if none.
Printed(t, a) ==
  LET here == {n \in 1 .. Len(t) :
                 /\ t[n] # NewLine
                 /\ Width * (Layout(t)[n - 1].row - Gone(t)) + Layout(t)[n - 1].column = a}
  IN IF here = {} THEN " " ELSE t[CHOOSE n \in here : TRUE]

\* Unless a handler printed in one of the places Tears names, the screen shows
\* the end of everything kernel_main and the handlers printed, in order, and
\* nothing is lost, doubled or out of its place.
ShowsWhatWasPrinted ==
  main.pc = "next" /\ ~torn => \A a \in Cells : con.cell[a].char = Printed(text, a)

\* However handlers and kernel_main interleave, nobody writes further than one
\* line behind the screen, and the column is back in the line between two
\* characters.
WritesStayInVideoMemory ==
  /\ con.index \in Memory
  /\ con.y \in 0 .. (Height + 1)
  /\ main.pc = "next" => con.x \in 0 .. (Width - 1)

\* The mouse's cell, and no other, is inverted, until something is printed
\* over it or the screen moves under it; only where scrolling has cleared a
\* cell, color and all, there is nothing to invert.
MouseShown ==
  stage # "boot" /\ ~ghost =>
    \A a \in Cells : con.cell[a].color[2] # 0 <=> a = MouseCell /\ con.cell[a] # Cleared

\* Once kernel_main has printed an argument of printf: a number that is no
\* negative int stands there as its numeral, whatever handlers print meanwhile;
\* of any other number %u shows the last digits, nothing else; hexadecimal
\* output shows every word, as long as no handler has printed in one of the
\* places Tears names, among them the two halves of printfHex.
NumbersReadBack ==
  main.ops = <<>> =>
    /\ said.letter \in {"i", "u", "b", "B"} /\ said.arg < Word \div 2 =>
         Says(said.letter, said.arg, said.chars)
    /\ said.letter = "u" => EndsNumeral(said.arg, said.chars)
    /\ said.letter \in {"x", "X"} /\ ~torn => Says(said.letter, said.arg, said.chars)
==============================================================================
