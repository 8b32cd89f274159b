--------------------------- MODULE Console_proofs ---------------------------
(****************************************************************************)
(* Proofs about Console, for every screen, any programs and interrupts: no  *)
(* write leaves the video memory, the mouse's cell is the one inverted,     *)
(* numbers read back, and the screen shows what was printed.                *)
(****************************************************************************)
EXTENDS Console, Stdio_proofs

----------------------------------------------------------------------------
\* The screen's cells, row by row.

LEMMA Sizes ==
  /\ Width \in Nat /\ Width > 1 /\ Height \in Nat /\ Height > 1
  /\ Width * Height \in Nat /\ Width * (Height - 1) \in Nat
  /\ Width * (Height - 1) >= Width
  /\ Width * Height = Width * (Height - 1) + Width
  /\ Width * (Height + 1) = Width * Height + Width
<1>0. Width \in Nat /\ Width > 1 /\ Height \in Nat /\ Height > 1 BY ConsoleAssumption
<1>1. Width * Height \in Nat /\ Width * (Height - 1) \in Nat BY <1>0
<1>2. Width * (Height - 1) >= Width
  <2>1. PICK k \in Nat : Height = k + 2 BY <1>0
  <2>2. Width * (Height - 1) = Width * k + Width BY <1>0, <2>1
  <2>3. Width * k \in Nat BY <1>0
  <2>q. QED BY <1>0, <2>2, <2>3
<1>3. Width * Height = Width * (Height - 1) + Width BY <1>0
<1>4. Width * (Height + 1) = Width * Height + Width BY <1>0
<1>q. QED BY <1>0, <1>1, <1>2, <1>3, <1>4

\* Where a row begins.
LEMMA RowFacts ==
  ASSUME NEW y \in Nat
  PROVE  /\ Width * y \in Nat /\ Width * (y + 1) = Width * y + Width
         /\ y <= Height - 1 => Width * y <= Width * (Height - 1)
         /\ y <= Height => Width * y <= Width * Height
<1>0. Width \in Nat /\ Height \in Nat BY Sizes
<1>1. ASSUME NEW z \in Nat, y <= z PROVE Width * y <= Width * z
  <2>1. PICK k \in Nat : z = y + k BY <1>1
  <2>2. Width * z = Width * y + Width * k BY <1>0, <2>1
  <2>3. Width * k \in Nat /\ Width * y \in Nat BY <1>0
  <2>q. QED BY <2>2, <2>3
<1>2. Height - 1 \in Nat BY Sizes
<1>3. Width * y \in Nat /\ Width * (y + 1) = Width * y + Width BY <1>0
<1>q. QED BY <1>0, <1>1, <1>2, <1>3

LEMMA MemoryFacts ==
  /\ Cells = 0 .. (Width * Height - 1)
  /\ Memory = 0 .. (Width * Height + Width - 1)
  /\ Cells \subseteq Memory
  BY Sizes DEF Cells, Memory

\* A place on the screen, and in the line behind it.
LEMMA PlaceFacts ==
  ASSUME NEW x \in 0 .. Width, NEW y \in Nat
  PROVE  /\ y <= Height - 1 => Width * y + x \in Memory
         /\ y <= Height /\ x < Width => Width * y + x \in Memory
         /\ y <= Height - 1 /\ x < Width => Width * y + x \in Cells
<1> DEFINE a == Width * y
           m == Width * (Height - 1)
           n == Width * Height
<1>1. /\ a \in Nat /\ (y <= Height - 1 => a <= m) /\ (y <= Height => a <= n)
  BY RowFacts
<1>2. m \in Nat /\ n = m + Width /\ Width \in Nat /\ Width > 1 /\ Height \in Nat BY Sizes
<1>3. Cells = 0 .. (n - 1) /\ Memory = 0 .. (n + Width - 1) BY MemoryFacts
<1> HIDE DEF a, m, n
<1>q. QED BY <1>1, <1>2, <1>3 DEF a

----------------------------------------------------------------------------
\* What the variables hold.

Colors == {<<15, 0>>, <<7, 0>>, <<0, 15>>, <<0, 7>>}

\* A cleared cell has no color.
Cell == [char : Chars, color : Colors] \cup {Cleared}

Consoles == [cell : [Memory -> Cell], x : 0 .. Width, y : 0 .. (Height + 1),
             index : Memory, foo : [1 .. 2 -> Chars]]

LEMMA CellsTyped ==
  /\ \A c \in Cell : c.char \in Chars
  /\ Cleared \in Cell /\ Cleared.char = " " /\ Cleared.color[2] = 0
  /\ Blank \in Cell /\ Blank.char = " " /\ Blank.color[2] = 0
  /\ \A char \in Chars : [char |-> char, color |-> LightGrey] \in Cell
  /\ LightGrey[2] = 0
<1>1. " " \in Chars BY StdioAssumption
<1>2. White \in Colors /\ White[2] = 0 BY DEF White, Colors
<1>3. LightGrey \in Colors /\ LightGrey[2] = 0 BY DEF LightGrey, Colors
<1>4. Cleared.char = " " /\ Cleared.color[2] = 0 BY DEF Cleared
<1>5. Blank.char = " " /\ Blank.color = White /\ Blank \in [char : Chars, color : Colors]
  BY <1>1, <1>2 DEF Blank
<1>6. \A char \in Chars : [char |-> char, color |-> LightGrey] \in [char : Chars, color : Colors]
  BY <1>3
<1>7. \A c \in Cell : c \in [char : Chars, color : Colors] \/ c = Cleared BY DEF Cell
<1>8. \A c \in [char : Chars, color : Colors] : c \in Cell BY DEF Cell
<1>9. Cleared \in Cell BY DEF Cell
<1>q. QED BY <1>1, <1>2, <1>3, <1>4, <1>5, <1>6, <1>7, <1>8, <1>9

LEMMA ScrolledTyped ==
  ASSUME NEW cell \in [Memory -> Cell]
  PROVE  Scrolled(cell) \in [Memory -> Cell]
<1>1. \A a \in Memory : a + Width \in Cells => a + Width \in Memory BY MemoryFacts
<1>2. Cleared \in Cell BY CellsTyped
<1>q. QED BY <1>1, <1>2 DEF Scrolled

\* The room made for an entry.
LEMMA RoomFacts ==
  ASSUME NEW c \in Consoles
  PROVE  LET r == MadeRoom(c)
         IN /\ r \in Consoles /\ r.y <= Height - 1
            /\ r.foo = c.foo /\ r.index = c.index
            /\ c.y > Height - 1 =>
                 r.y = Height - 1 /\ r.x = 0 /\ r.cell = Scrolled(c.cell)
            /\ c.y <= Height - 1 => r = c
<1>0. Width \in Nat /\ Height \in Nat /\ Height > 1 BY Sizes
<1>1. CASE c.y > Height - 1
  <2>1. MadeRoom(c) = [c EXCEPT !.y = Height - 1, !.x = 0, !.cell = Scrolled(@)]
    BY <1>1 DEF MadeRoom
  <2>2. Scrolled(c.cell) \in [Memory -> Cell] BY ScrolledTyped DEF Consoles
  <2>3. Height - 1 \in 0 .. (Height + 1) /\ 0 \in 0 .. Width BY <1>0
  <2> DEFINE h == Height - 1
             s == Scrolled(c.cell)
             r == [c EXCEPT !.y = h, !.x = 0, !.cell = s]
  <2> HIDE DEF h, s
  <2>4. /\ r \in Consoles /\ r.foo = c.foo /\ r.index = c.index
        /\ r.y = h /\ r.x = 0 /\ r.cell = s
    BY <2>2, <2>3 DEF Consoles, h, s
  <2>5. MadeRoom(c) = r BY <2>1 DEF h, s
  <2>6. h = Height - 1 /\ h <= Height - 1 BY <1>0 DEF h
  <2>7. ~(c.y <= Height - 1)
    <3>1. c.y \in Int BY DEF Consoles
    <3>q. QED BY <1>0, <1>1, <3>1
  <2> HIDE DEF r
  <2>q. QED BY <1>1, <2>4, <2>5, <2>6, <2>7 DEF s
<1>2. CASE ~(c.y > Height - 1)
  <2>1. MadeRoom(c) = c BY <1>2 DEF MadeRoom
  <2>2. c.y \in 0 .. (Height + 1) BY DEF Consoles
  <2>q. QED BY <1>0, <1>2, <2>1, <2>2
<1>q. QED BY <1>1, <1>2

\* An entry: the character in its cell, and the cursor behind it.
LEMMA EntryFacts ==
  ASSUME NEW c \in Consoles, NEW char \in Chars
  PROVE  LET d == PutEntry(c, char)
             r == MadeRoom(c)
         IN /\ d \in Consoles /\ d.x <= Width - 1 /\ d.y <= Height
            /\ d.foo = c.foo
            /\ char = NewLine => d.cell = r.cell /\ d.x = 0 /\ d.y = r.y + 1
            /\ char # NewLine =>
                 /\ d.cell = [r.cell EXCEPT ![Width * r.y + r.x] =
                                [char |-> char, color |-> LightGrey]]
                 /\ r.x + 1 >= Width => d.x = 0 /\ d.y = r.y + 1
                 /\ r.x + 1 < Width => d.x = r.x + 1 /\ d.y = r.y
<1> DEFINE r == MadeRoom(c)
           i == Width * r.y + r.x
           e == [char |-> char, color |-> LightGrey]
           s == [r EXCEPT !.index = i, !.cell[i] = e]
<1>0. Width \in Nat /\ Width > 1 /\ Height \in Nat /\ Height > 1 BY Sizes
<1>1. r \in Consoles /\ r.y <= Height - 1 /\ r.foo = c.foo BY RoomFacts
<1>2. e \in Cell BY CellsTyped
<1>3. PutEntry(c, char) = IF char = NewLine THEN [r EXCEPT !.y = @ + 1, !.x = 0]
                          ELSE Advanced(s)
  BY DEF PutEntry
<1> HIDE DEF r
<1>4. r.x \in 0 .. Width /\ r.y \in Nat BY <1>1 DEF Consoles
<1>5. i \in Memory BY <1>1, <1>4, PlaceFacts
<1> HIDE DEF e, i
<1>6. CASE char = NewLine
  <2> DEFINE d == [r EXCEPT !.y = @ + 1, !.x = 0]
  <2>1. PutEntry(c, char) = d BY <1>3, <1>6
  <2>2. /\ d \in Consoles /\ d.x = 0 /\ d.y = r.y + 1 /\ d.cell = r.cell /\ d.foo = r.foo
    <3>1. r.y + 1 \in 0 .. (Height + 1) /\ 0 \in 0 .. Width BY <1>0, <1>1, <1>4
    <3>q. QED BY <1>1, <3>1 DEF Consoles
  <2> HIDE DEF d
  <2>3. d.x <= Width - 1 /\ d.y <= Height BY <1>0, <1>1, <1>4, <2>2
  <2>q. QED BY <1>1, <1>6, <2>1, <2>2, <2>3 DEF r
<1>7. CASE char # NewLine
  <2>1. PutEntry(c, char) = Advanced(s) BY <1>3, <1>7
  <2>2. s \in Consoles BY <1>1, <1>2, <1>5 DEF Consoles
  <2>3. s.x = r.x /\ s.y = r.y /\ s.foo = r.foo /\ s.cell = [r.cell EXCEPT ![i] = e]
    BY <1>1 DEF Consoles
  <2> HIDE DEF s
  <2>4. CASE r.x + 1 >= Width
    <3> DEFINE d == [s EXCEPT !.x = 0, !.y = @ + 1]
    <3>1. PutEntry(c, char) = d BY <2>1, <2>3, <2>4, Zenon DEF Advanced
    <3>2. /\ d \in Consoles /\ d.x = 0 /\ d.y = r.y + 1 /\ d.cell = s.cell /\ d.foo = r.foo
      <4>1. s.y + 1 \in 0 .. (Height + 1) /\ 0 \in 0 .. Width BY <1>0, <1>1, <1>4, <2>3
      <4>q. QED BY <2>2, <2>3, <4>1 DEF Consoles
    <3> HIDE DEF d
    <3>3. d.x <= Width - 1 /\ d.y <= Height BY <1>0, <1>1, <1>4, <3>2
    <3>4. ~(r.x + 1 < Width) BY <1>0, <1>4, <2>4
    <3>q. QED BY <1>1, <1>7, <2>3, <2>4, <3>1, <3>2, <3>3, <3>4 DEF r, i, e
  <2>5. CASE ~(r.x + 1 >= Width)
    <3>1. PutEntry(c, char) = [s EXCEPT !.x = @ + 1]
      BY <2>1, <2>3, <2>5, Zenon DEF Advanced
    <3>q. QED BY <1>0, <1>1, <1>4, <1>7, <2>2, <2>3, <2>5, <3>1 DEF Consoles, r, i, e
  <2>q. QED BY <2>4, <2>5
<1>q. QED BY <1>6, <1>7

\* Storing a digit.
LEMMA StoreFacts ==
  ASSUME NEW c \in Consoles, NEW i \in 1 .. 2, NEW char \in Chars
  PROVE  LET d == [c EXCEPT !.foo[i] = char]
         IN /\ d \in Consoles /\ d.foo = [c.foo EXCEPT ![i] = char]
            /\ d.cell = c.cell /\ d.x = c.x /\ d.y = c.y /\ d.index = c.index
  BY DEF Consoles

\* The three operations.
LEMMA DoneCases ==
  ASSUME NEW c \in Consoles, NEW o \in Op
  PROVE  /\ o.char \in Chars
         /\ o.op = "put" => Done(c, o) = PutEntry(c, o.char)
         /\ o.op = "store" => o.at \in 1 .. 2 /\ Done(c, o) = [c EXCEPT !.foo[o.at] = o.char]
         /\ o.op = "show" => /\ o.at \in 1 .. 2 /\ c.foo[o.at] \in Chars
                             /\ Done(c, o) = PutEntry(c, c.foo[o.at])
         /\ o.op \in {"put", "store", "show"}
<1>1. /\ o.char \in Chars /\ o.op \in {"put", "store", "show"}
      /\ o.op # "put" => o.at \in 1 .. 2
  BY DEF Op
<1>2. o.op = "put" => Done(c, o) = PutEntry(c, o.char) BY Zenon DEF Done
<1>3. o.op = "store" => Done(c, o) = [c EXCEPT !.foo[o.at] = o.char] BY Zenon DEF Done
<1>4. o.op = "show" => Done(c, o) = PutEntry(c, c.foo[o.at]) BY Zenon DEF Done
<1>5. \A i \in 1 .. 2 : c.foo[i] \in Chars BY DEF Consoles
<1>q. QED BY <1>1, <1>2, <1>3, <1>4, <1>5

LEMMA DoneTyped ==
  ASSUME NEW c \in Consoles, NEW o \in Op
  PROVE  LET d == Done(c, o)
         IN /\ d \in Consoles
            /\ c.x <= Width - 1 => d.x <= Width - 1
            /\ c.y <= Height => d.y <= Height
<1>0. Width \in Nat BY Sizes
<1>1. CASE o.op = "store"
  <2>1. Done(c, o) = [c EXCEPT !.foo[o.at] = o.char] /\ o.at \in 1 .. 2 /\ o.char \in Chars
    BY <1>1, DoneCases
  <2> DEFINE d == [c EXCEPT !.foo[o.at] = o.char]
  <2>2. d \in Consoles /\ d.x = c.x /\ d.y = c.y BY <2>1, StoreFacts
  <2> HIDE DEF d
  <2>q. QED BY <2>1, <2>2 DEF d
<1>2. CASE o.op = "put" BY <1>2, DoneCases, EntryFacts
<1>3. CASE o.op = "show"
  <2>1. Done(c, o) = PutEntry(c, c.foo[o.at]) /\ c.foo[o.at] \in Chars
    BY <1>3, DoneCases
  <2>q. QED BY <2>1, EntryFacts
<1>q. QED BY <1>1, <1>2, <1>3, DoneCases

\* The function that RunUpTo names.
LEMMA RunSteps ==
  ASSUME NEW c, NEW ops \in Seq(Op)
  PROVE  LET R == RunUpTo(c, ops)
         IN /\ R[0] = c
            /\ \A n \in 0 .. (Len(ops) - 1) : R[n + 1] = Done(R[n], ops[n + 1])
<1> DEFINE E(m, f) == f = [n \in 0 .. m |-> IF n = 0 THEN c ELSE Done(f[n - 1], ops[n])]
           T == {m \in Nat : \E f : E(m, f)}
           R == RunUpTo(c, ops)
<1>l. Len(ops) \in Nat OBVIOUS
<1>0. R = CHOOSE f : E(Len(ops), f) BY DEF RunUpTo
<1>1. 0 \in T
  <2>1. E(0, [k \in 0 .. 0 |-> c]) OBVIOUS
  <2>q. QED BY <2>1
<1>2. ASSUME NEW m \in Nat, m \in T PROVE m + 1 \in T
  <2>1. PICK f : E(m, f) BY <1>2
  <2> DEFINE g == [k \in 0 .. (m + 1) |-> IF k = m + 1 THEN Done(f[m], ops[m + 1]) ELSE f[k]]
  <2>2. E(m + 1, g) BY <2>1
  <2>3. \E h : E(m + 1, h)
    <3> HIDE DEF E, g
    <3>q. QED BY <2>2
  <2> HIDE DEF E
  <2>q. QED BY <2>3
<1>3. Len(ops) \in T
  <2> HIDE DEF T
  <2>q. QED BY <1>1, <1>2, <1>l, SetInduction
<1>4. \E f : E(Len(ops), f) BY <1>3
<1>5. E(Len(ops), R)
  <2> HIDE DEF E, R
  <2>q. QED BY <1>0, <1>4
<1> HIDE DEF R
<1>6. R[0] = c BY <1>5, <1>l
<1>7. \A n \in 0 .. (Len(ops) - 1) : R[n + 1] = Done(R[n], ops[n + 1])
  <2>1. TAKE n \in 0 .. (Len(ops) - 1)
  <2>2. n + 1 \in 0 .. Len(ops) /\ n + 1 # 0 /\ (n + 1) - 1 = n BY <1>l
  <2>q. QED BY <1>5, <2>2
<1>q. QED BY <1>6, <1>7 DEF R

\* A handler's printing leaves a console.
LEMMA RunTyped ==
  ASSUME NEW c \in Consoles, NEW ops \in Seq(Op)
  PROVE  LET R == RunUpTo(c, ops)
         IN \A n \in 0 .. Len(ops) :
              /\ R[n] \in Consoles
              /\ c.x <= Width - 1 => R[n].x <= Width - 1
              /\ c.y <= Height => R[n].y <= Height
<1> DEFINE R == RunUpTo(c, ops)
           S == {n \in 0 .. Len(ops) : /\ R[n] \in Consoles
                                       /\ c.x <= Width - 1 => R[n].x <= Width - 1
                                       /\ c.y <= Height => R[n].y <= Height}
<1>l. Len(ops) \in Nat OBVIOUS
<1>1. /\ R[0] = c
      /\ \A n \in 0 .. (Len(ops) - 1) : R[n + 1] = Done(R[n], ops[n + 1])
  BY RunSteps
<1> HIDE DEF R
<1>2. 0 \in S BY <1>1, <1>l
<1>3. ASSUME NEW n \in 0 .. (Len(ops) - 1), n \in S PROVE n + 1 \in S
  <2>1. n + 1 \in 0 .. Len(ops) /\ n + 1 \in 1 .. Len(ops) BY <1>l
  <2>2. ops[n + 1] \in Op BY <2>1
  <2>3. R[n + 1] = Done(R[n], ops[n + 1]) BY <1>1
  <2>q. QED BY <1>3, <2>1, <2>2, <2>3, DoneTyped
<1>4. \A n \in 0 .. Len(ops) : n \in S
  <2> HIDE DEF S
  <2>q. QED BY <1>2, <1>3, <1>l, BoundedInduction
<1>q. QED BY <1>4 DEF R

----------------------------------------------------------------------------
\* kernel_main's calls.

Calls == UNION {{p[i] : i \in 1 .. Len(p)} : p \in Programs}
Args == UNION {{c.args[i] : i \in 1 .. Len(c.args)} : c \in {d \in Calls : d.call = "printf"}}

LEMMA ProgramsTyped ==
  /\ \A p \in Programs : p \in Seq(Calls) /\ InOrder(p)
  /\ \A c \in Calls : \/ c.call = "printf" /\ Fits(c.format, c.args)
                      \/ c.call \in {"MouseToConsole", "Activate"}
<1>1. ASSUME NEW p \in Programs PROVE p \in Seq(Calls) /\ InOrder(p)
  <2>1. Len(p) \in Nat /\ p = [i \in 1 .. Len(p) |-> p[i]] /\ InOrder(p)
    BY <1>1, ConsoleAssumption
  <2>2. p \in Seq({p[i] : i \in 1 .. Len(p)}) BY <2>1, ArgumentsAreASequence
  <2>3. {p[i] : i \in 1 .. Len(p)} \subseteq Calls BY DEF Calls
  <2>q. QED BY <2>1, <2>2, <2>3
<1>2. ASSUME NEW c \in Calls
      PROVE  \/ c.call = "printf" /\ Fits(c.format, c.args)
             \/ c.call \in {"MouseToConsole", "Activate"}
  <2>1. PICK p \in Programs : \E i \in 1 .. Len(p) : c = p[i] BY DEF Calls
  <2>2. PICK i \in 1 .. Len(p) : c = p[i] BY <2>1
  <2>q. QED BY <2>2, ConsoleAssumption
<1>q. QED BY <1>1, <1>2

LEMMA ArgsTyped ==
  ASSUME NEW c \in Calls, c.call = "printf"
  PROVE  c.args \in Seq(Args)
<1>1. Fits(c.format, c.args) BY ProgramsTyped
<1>2. Len(c.args) \in Nat /\ c.args = [i \in 1 .. Len(c.args) |-> c.args[i]]
  BY <1>1 DEF Fits
<1>3. c.args \in Seq({c.args[i] : i \in 1 .. Len(c.args)})
  BY <1>2, ArgumentsAreASequence
<1>4. {c.args[i] : i \in 1 .. Len(c.args)} \subseteq Args BY DEF Args
<1>q. QED BY <1>3, <1>4

\* What is left of some call's format and arguments.
Underway(format, args) ==
  \E c \in Calls :
    /\ c.call = "printf"
    /\ \E n \in 0 .. Len(c.format) :
         /\ format = Iterations(c.format, c.args)[n].format
         /\ args = Iterations(c.format, c.args)[n].args

LEMMA UnderwayFirst ==
  ASSUME NEW c \in Calls, c.call = "printf"
  PROVE  /\ Underway(c.format, c.args)
         /\ c.format \in Seq(Chars) /\ c.args \in Seq(Args)
<1>1. Fits(c.format, c.args) BY ProgramsTyped
<1> DEFINE format == c.format
           args == c.args
<1> HIDE DEF format, args
<1>2. format \in Seq(Chars) BY <1>1 DEF Fits, format
<1>3. Iterations(format, args)[0] = [ops |-> <<>>, format |-> format, args |-> args]
  BY <1>2, IterationsSteps
<1> DEFINE r == Iterations(format, args)[0]
<1>4. r.format = format /\ r.args = args BY <1>3
<1>5. 0 \in 0 .. Len(format) BY <1>2
<1> HIDE DEF r
<1>6. Underway(c.format, c.args) BY <1>4, <1>5 DEF Underway, format, args, r
<1>q. QED BY <1>2, <1>6, ArgsTyped DEF format

LEMMA UnderwayStep ==
  ASSUME NEW format, NEW args, Underway(format, args)
  PROVE  /\ format \in Seq(Chars) /\ args \in Seq(Args)
         /\ Conversion(format) => /\ args # <<>> /\ args[1] \in Args
                                  /\ Matches(format[2], args[1])
         /\ format # <<>> =>
              LET it == Iteration(format, args)
              IN /\ it.format \in Seq(Chars) /\ it.args \in Seq(Args)
                 /\ Underway(it.format, it.args)
                 /\ it.ops \in Seq(Op) /\ Backed(it.ops)
                 /\ Conversion(format) => it.ops = Converted(format[2], args[1])
<1>c. PICK c \in Calls :
        /\ c.call = "printf"
        /\ \E n \in 0 .. Len(c.format) :
             /\ format = Iterations(c.format, c.args)[n].format
             /\ args = Iterations(c.format, c.args)[n].args
  BY DEF Underway
<1>n. PICK n \in 0 .. Len(c.format) :
        /\ format = Iterations(c.format, c.args)[n].format
        /\ args = Iterations(c.format, c.args)[n].args
  BY <1>c
<1>1. /\ c.call = "printf"
      /\ format = Iterations(c.format, c.args)[n].format
      /\ args = Iterations(c.format, c.args)[n].args
  BY <1>c, <1>n
<1> DEFINE R == Iterations(c.format, c.args)
           it == Iteration(format, args)
<1>2. Fits(c.format, c.args) /\ c.args \in Seq(Args) BY <1>1, ProgramsTyped, ArgsTyped
<1>3. /\ Len(c.format) \in Nat /\ c.format \in Seq(Chars)
      /\ R[n].format \in Seq(Chars) /\ Len(R[n].format) <= Len(c.format) - n
      /\ R[n].args \in Seq(Args)
      /\ Conversion(R[n].format) => R[n].args # <<>> /\ Matches(R[n].format[2], R[n].args[1])
      /\ \A m \in 0 .. (Len(c.format) - 1) : R[m + 1] = Continued(R[m])
  <2> DEFINE f == c.format
             a == c.args
  <2> HIDE DEF f, a
  <2>1. Fits(f, a) /\ a \in Seq(Args) /\ n \in 0 .. Len(f) BY <1>2 DEF f, a
  <2>2. LET Q == Iterations(f, a)
        IN /\ Len(f) \in Nat /\ f \in Seq(Chars)
           /\ Q[n].format \in Seq(Chars) /\ Len(Q[n].format) <= Len(f) - n
           /\ Q[n].args \in Seq(Args)
           /\ Conversion(Q[n].format) => Q[n].args # <<>> /\ Matches(Q[n].format[2], Q[n].args[1])
           /\ \A m \in 0 .. (Len(f) - 1) : Q[m + 1] = Continued(Q[m])
    BY <2>1, IterationsFacts
  <2>q. QED BY <2>2 DEF f, a
<1> HIDE DEF R
<1>4. format = R[n].format /\ args = R[n].args BY <1>1 DEF R
<1>5. format \in Seq(Chars) /\ args \in Seq(Args) /\ Len(format) <= Len(c.format) - n
  BY <1>3, <1>4
<1>6. Conversion(format) => args # <<>> /\ Matches(format[2], args[1]) BY <1>3, <1>4
<1>7. args # <<>> => args[1] \in Args BY <1>5
<1>8. ASSUME format # <<>>
      PROVE  /\ it.format \in Seq(Chars) /\ it.args \in Seq(Args)
             /\ Underway(it.format, it.args)
             /\ it.ops \in Seq(Op) /\ Backed(it.ops)
             /\ Conversion(format) => it.ops = Converted(format[2], args[1])
  <2>1. Len(format) \in Nat /\ Len(format) > 0 BY <1>5, <1>8
  <2>2. n \in 0 .. (Len(c.format) - 1) BY <1>3, <1>5, <2>1
  <2>3. R[n + 1] = Continued(R[n]) BY <1>3, <2>2
  <2>4. R[n + 1] = [it EXCEPT !.ops = R[n].ops \o @]
    BY <1>4, <1>8, <2>3, Zenon DEF Continued
  <2>5. /\ it = [ops |-> it.ops, format |-> it.format, args |-> it.args]
        /\ it.ops \in Seq(Op) /\ Backed(it.ops)
        /\ it.format \in Seq(Chars)
        /\ it.args \in Seq(Args)
        /\ Conversion(format) => it.ops = Converted(format[2], args[1])
    BY <1>5, <1>6, <1>8, IterationFacts
  <2> HIDE DEF it
  <2>6. R[n + 1].format = it.format /\ R[n + 1].args = it.args BY <2>4, <2>5
  <2>7. n + 1 \in 0 .. Len(c.format) BY <1>3, <2>2
  <2>8. Underway(it.format, it.args) BY <1>1, <2>6, <2>7 DEF Underway, R
  <2>q. QED BY <2>5, <2>8
<1>q. QED BY <1>5, <1>6, <1>7, <1>8

\* The first call gone, the mouse is not constructed a second time.
LEMMA OrderFacts ==
  ASSUME NEW s \in Seq(Calls), s # <<>>, InOrder(s)
  PROVE  /\ s[1].call # "Activate"
         /\ s[1].call = "printf" => InOrder(Tail(s))
         /\ s[1].call = "MouseToConsole" =>
              \A i \in 1 .. Len(Tail(s)) : Tail(s)[i].call # "MouseToConsole"
<1> DEFINE t == Tail(s)
<1>1. /\ Len(s) \in Nat /\ Len(s) > 0 /\ Len(t) = Len(s) - 1
      /\ \A i \in 1 .. Len(t) : t[i] = s[i + 1]
  OBVIOUS
<1> HIDE DEF t
<1>2. \A i \in 1 .. Len(s) :
        /\ s[i].call = "MouseToConsole" => \A j \in 1 .. (i - 1) : s[j].call # "MouseToConsole"
        /\ s[i].call = "Activate" => \E j \in 1 .. (i - 1) : s[j].call = "MouseToConsole"
  BY DEF InOrder
<1>3. s[1].call # "Activate"
  <2>1. 1 \in 1 .. Len(s) /\ 1 .. (1 - 1) = {} BY <1>1
  <2>q. QED BY <1>2, <2>1
<1>4. ASSUME s[1].call = "printf", NEW i \in 1 .. Len(t)
      PROVE  /\ t[i].call = "MouseToConsole" =>
                  \A j \in 1 .. (i - 1) : t[j].call # "MouseToConsole"
             /\ t[i].call = "Activate" => \E j \in 1 .. (i - 1) : t[j].call = "MouseToConsole"
  <2>1. i + 1 \in 1 .. Len(s) /\ t[i] = s[i + 1] BY <1>1
  <2>2. ASSUME t[i].call = "MouseToConsole", NEW j \in 1 .. (i - 1)
        PROVE  t[j].call # "MouseToConsole"
    <3>1. j \in 1 .. Len(t) /\ j + 1 \in 1 .. ((i + 1) - 1) BY <1>1
    <3>q. QED BY <1>1, <1>2, <2>1, <2>2, <3>1
  <2>3. ASSUME t[i].call = "Activate"
        PROVE  \E j \in 1 .. (i - 1) : t[j].call = "MouseToConsole"
    <3>1. PICK j \in 1 .. ((i + 1) - 1) : s[j].call = "MouseToConsole"
      BY <1>2, <2>1, <2>3
    <3>2. j # 1 BY <1>4, <3>1
    <3>3. j - 1 \in 1 .. (i - 1) /\ j - 1 \in 1 .. Len(t) /\ (j - 1) + 1 = j
      BY <1>1, <3>2
    <3>4. t[j - 1] = s[j] BY <1>1, <3>3
    <3>q. QED BY <3>1, <3>3, <3>4
  <2>q. QED BY <2>2, <2>3
<1>5. ASSUME s[1].call = "MouseToConsole", NEW i \in 1 .. Len(t)
      PROVE  t[i].call # "MouseToConsole"
  <2>1. i + 1 \in 1 .. Len(s) /\ t[i] = s[i + 1] /\ 1 \in 1 .. ((i + 1) - 1) BY <1>1
  <2>q. QED BY <1>2, <1>5, <2>1
<1>6. s[1].call = "printf" => InOrder(t) BY <1>4, Zenon DEF InOrder
<1>q. QED BY <1>3, <1>5, <1>6 DEF t

LEMMA TailFacts ==
  ASSUME NEW S, NEW s \in Seq(S), s # <<>>
  PROVE  /\ s[1] \in S /\ Tail(s) \in Seq(S)
         /\ Len(s) \in Nat /\ Len(s) > 0 /\ Len(Tail(s)) = Len(s) - 1
         /\ \A i \in 1 .. Len(Tail(s)) : Tail(s)[i] = s[i + 1]
  OBVIOUS

\* A cell with foreground and background swapped.
LEMMA InvertTyped ==
  ASSUME NEW c \in Consoles, NEW m \in [x : 0 .. (Width - 1), y : 0 .. (Height - 1)]
  PROVE  LET i == Width * m.y + m.x
             d == [c EXCEPT !.cell = Invert(@, m)]
             n == Invert(c.cell, m)
         IN /\ i \in Cells /\ d \in Consoles /\ n \in [Memory -> Cell]
            /\ d.x = c.x /\ d.y = c.y /\ d.foo = c.foo /\ d.index = c.index /\ d.cell = n
            /\ \A a \in Memory : n[a].char = c.cell[a].char
            /\ \A a \in Memory : a # i => n[a] = c.cell[a]
            /\ c.cell[i] = Cleared => n[i] = Cleared
            /\ c.cell[i] # Cleared =>
                 n[i] # Cleared /\ (n[i].color[2] # 0 <=> c.cell[i].color[2] = 0)
<1> DEFINE i == Width * m.y + m.x
           o == c.cell[i]
           e == [o EXCEPT !.color = <<@[2], @[1]>>]
           n == [c.cell EXCEPT ![i] = e]
           d == [c EXCEPT !.cell = n]
<1>0. Width \in Nat /\ Width > 1 /\ Height \in Nat /\ Height > 1 BY Sizes
<1>1. i \in Cells /\ i \in Memory
  <2>1. m.x \in 0 .. Width /\ m.x < Width /\ m.y \in Nat /\ m.y <= Height - 1 BY <1>0
  <2>q. QED BY <2>1, PlaceFacts, MemoryFacts
<1>2. Invert(c.cell, m) = n
  BY DEF Invert
<1> HIDE DEF i
<1>3. c.cell \in [Memory -> Cell] BY DEF Consoles
<1>4. o \in Cell BY <1>1, <1>3
<1>5. CASE o = Cleared
  <2>1. e = Cleared
    <3> DEFINE black == <<0, 0>>
    <3>1. <<black[2], black[1]>> = black OBVIOUS
    <3> HIDE DEF black
    <3>2. o = [char |-> " ", color |-> black] BY <1>5, Zenon DEF Cleared, black
    <3> HIDE DEF o
    <3>c. o.color = black BY <3>2
    <3> DEFINE swapped == <<o.color[2], o.color[1]>>
    <3>3. e = [o EXCEPT !.color = swapped] OBVIOUS
    <3>d. swapped = <<black[2], black[1]>> BY <3>c
    <3> HIDE DEF swapped, e
    <3>4. e = [char |-> " ", color |-> <<black[2], black[1]>>] BY <3>2, <3>3, <3>d
    <3>q. QED BY <3>1, <3>4, Zenon DEF Cleared, black
  <2>q. QED BY <1>1, <1>2, <1>3, <1>4, <1>5, <2>1 DEF Consoles, i
<1>6. CASE o # Cleared
  <2>1. o \in [char : Chars, color : Colors] BY <1>4, <1>6 DEF Cell
  <2>2. e.char = o.char /\ e.color = <<o.color[2], o.color[1]>> /\ e.color \in Colors
        /\ (e.color[2] # 0 <=> o.color[2] = 0) /\ e \in [char : Chars, color : Colors]
    BY <2>1 DEF Colors
  <2>3. e \in Cell BY <2>2 DEF Cell
  <2>4. e # Cleared
    <3>1. Cleared.color = <<0, 0>> BY DEF Cleared
    <3>2. <<0, 0>> \notin Colors BY DEF Colors
    <3>q. QED BY <2>2, <3>1, <3>2
  <2> HIDE DEF e, o
  <2>5. n \in [Memory -> Cell] /\ n[i] = e /\ \A a \in Memory : a # i => n[a] = c.cell[a]
    BY <1>1, <1>3, <2>3
  <2> HIDE DEF n
  <2>6. d \in Consoles /\ d.x = c.x /\ d.y = c.y /\ d.foo = c.foo /\ d.index = c.index /\ d.cell = n
    BY <2>5 DEF Consoles
  <2> HIDE DEF d
  <2>7. Invert(c.cell, m) = n /\ [c EXCEPT !.cell = Invert(@, m)] = d
    BY <1>2 DEF d, n
  <2>q. QED BY <1>1, <1>6, <2>2, <2>4, <2>5, <2>6, <2>7 DEF i, o
<1>q. QED BY <1>5, <1>6

----------------------------------------------------------------------------
\* The invariant: types, and how far kernel_main has come.

Pcs == {"next", "room", "clampY", "clampX", "scroll", "line", "lineStore", "lineX",
        "row", "column", "write", "load", "store", "wrap", "wrapX", "wrapY", "wrapStore"}

MainTyped ==
  /\ main \in [calls : Seq(Calls), format : Seq(Chars), args : Seq(Args), ops : Seq(Op),
               pc : Pcs, char : Chars, temp : Nat]
  /\ Underway(main.format, main.args) \/ main.format = <<>>

TypeOK ==
  /\ con \in Consoles
  /\ MainTyped
  /\ mouse \in [x : 0 .. (Width - 1), y : 0 .. (Height - 1)]
  /\ stage \in {"boot", "mouse", "on"}
  /\ interrupts \in 0 .. MaxInterrupts
  /\ text \in Seq(Chars) /\ torn \in BOOLEAN /\ ghost \in BOOLEAN
  /\ said \in [letter : Letters \cup {" "}, arg : Args \cup {0}, chars : Seq(Chars)]

\* The calls to come are in order.
Ordered ==
  IF stage = "boot" THEN InOrder(main.calls)
  ELSE \A i \in 1 .. Len(main.calls) : main.calls[i].call # "MouseToConsole"

\* Where the cursor, and what kernel_main took from it, can be.
Bounded ==
  /\ main.pc \notin {"wrap", "wrapX"} => con.x <= Width - 1
  /\ main.pc \notin {"next", "room", "clampY", "lineX"} => con.y <= Height
  /\ main.pc \in {"lineStore", "wrapStore"} => main.temp <= Height
  /\ main.pc = "column" => main.temp <= Width * Height
  /\ main.pc = "store" => main.temp <= Width - 1
  /\ main.pc = "scroll" => main.temp < Width * (Height - 1)

Sound == TypeOK /\ Ordered /\ Bounded

LEMMA InitSound == Init => Sound
<1> SUFFICES ASSUME Init PROVE Sound
  OBVIOUS
<1>0. Width \in Nat /\ Width > 1 /\ Height \in Nat /\ Height > 1 BY Sizes
<1>c. {DigitChars[d] : d \in 1 .. 16} \subseteq Chars /\ " " \in Chars
  BY StdioAssumption
<1>1. PICK p \in Programs :
        main = [calls |-> p, format |-> <<>>, args |-> <<>>, ops |-> <<>>,
                pc |-> "next", char |-> " ", temp |-> 0]
  BY DEF Init
<1>2. p \in Seq(Calls) /\ InOrder(p) BY ProgramsTyped
<1>3. con \in Consoles
  <2> DEFINE cell == [a \in Memory |-> IF a \in Cells THEN Blank ELSE Cleared]
  <2>1. cell \in [Memory -> Cell] BY CellsTyped
  <2>2. "0" \in Chars
    <3>1. DigitChars[1] = "0" /\ \A d \in 0 .. 15 : DigitChars[d + 1] \in Chars
      BY DigitsAreChars
    <3>2. DigitChars[0 + 1] \in Chars BY <3>1
    <3>q. QED BY <3>1, <3>2
  <2>3. <<"0", "0">> \in [1 .. 2 -> Chars] BY <2>2
  <2>4. 0 \in Memory BY MemoryFacts, Sizes
  <2> HIDE DEF cell
  <2>5. con = [cell |-> cell, x |-> 0, y |-> 0, index |-> 0, foo |-> <<"0", "0">>]
    BY DEF Init, cell
  <2>6. 0 \in 0 .. Width /\ 0 \in 0 .. (Height + 1) BY <1>0
  <2>q. QED BY <2>1, <2>3, <2>4, <2>5, <2>6 DEF Consoles
<1>n. <<>> \in Seq(Chars) /\ <<>> \in Seq(Args) /\ <<>> \in Seq(Op) OBVIOUS
<1>4. MainTyped
  <2>1. "next" \in Pcs BY DEF Pcs
  <2> DEFINE none == <<>>
  <2> HIDE DEF none
  <2>2. none \in Seq(Chars) /\ none \in Seq(Args) /\ none \in Seq(Op) BY <1>n DEF none
  <2>3. main = [calls |-> p, format |-> none, args |-> none, ops |-> none,
                pc |-> "next", char |-> " ", temp |-> 0]
    BY <1>1 DEF none
  <2>4. main.format = none BY <2>3
  <2>5. main \in [calls : Seq(Calls), format : Seq(Chars), args : Seq(Args), ops : Seq(Op),
               pc : Pcs, char : Chars, temp : Nat]
    BY <1>2, <1>c, <2>1, <2>2, <2>3
  <2>q. QED BY <2>4, <2>5 DEF MainTyped, none
<1>5. mouse \in [x : 0 .. (Width - 1), y : 0 .. (Height - 1)]
  <2>1. Width \div 2 \in 0 .. (Width - 1) /\ Height \div 2 \in 0 .. (Height - 1) BY <1>0
  <2>q. QED BY <2>1 DEF Init
<1>6. interrupts \in 0 .. MaxInterrupts
  <2>1. MaxInterrupts \in Nat BY ConsoleAssumption
  <2>2. interrupts = 0 BY DEF Init
  <2>q. QED BY <2>1, <2>2
<1>7. said \in [letter : Letters \cup {" "}, arg : Args \cup {0}, chars : Seq(Chars)]
  <2>1. said = [letter |-> " ", arg |-> 0, chars |-> <<>>] BY DEF Init
  <2>q. QED BY <1>n, <2>1
<1>8. TypeOK BY <1>3, <1>4, <1>5, <1>6, <1>7, <1>n DEF Init, TypeOK
<1>9. Ordered BY <1>1, <1>2 DEF Init, Ordered
<1>10. Bounded
  <2>1. con.x = 0 /\ con.y = 0 BY DEF Init
  <2>2. main.pc = "next" BY <1>1
  <2>q. QED BY <1>0, <2>1, <2>2 DEF Bounded
<1>q. QED BY <1>8, <1>9, <1>10 DEF Sound

\* kernel_main between two characters.
LEMMA CallsKeepSound ==
  ASSUME Sound, Call \/ ConstructMouse \/ Activate
  PROVE  Sound'
<1>0. Width \in Nat /\ Width > 1 /\ Height \in Nat /\ Height > 1 BY Sizes
<1>1. TypeOK /\ Ordered /\ Bounded /\ MainTyped BY DEF Sound, TypeOK
<1> DEFINE t == Tail(main.calls)
           c == main.calls[1]
<1>2. main.calls \in Seq(Calls) /\ main.calls # <<>> /\ main.pc = "next" /\ main.format = <<>>
  BY <1>1 DEF MainTyped, Call, ConstructMouse, Activate
<1>3. /\ c \in Calls /\ t \in Seq(Calls)
      /\ Len(main.calls) \in Nat /\ Len(main.calls) > 0 /\ Len(t) = Len(main.calls) - 1
      /\ \A i \in 1 .. Len(t) : t[i] = main.calls[i + 1]
  BY <1>2, TailFacts
<1>4. stage = "boot" =>
        /\ c.call # "Activate"
        /\ c.call = "printf" => InOrder(t)
        /\ c.call = "MouseToConsole" => \A i \in 1 .. Len(t) : t[i].call # "MouseToConsole"
  BY <1>1, <1>2, OrderFacts DEF Ordered
<1>5. stage # "boot" =>
        c.call # "MouseToConsole" /\ \A i \in 1 .. Len(t) : t[i].call # "MouseToConsole"
  <2>1. 1 \in 1 .. Len(main.calls) /\ \A i \in 1 .. Len(t) : i + 1 \in 1 .. Len(main.calls)
    BY <1>3
  <2>q. QED BY <1>1, <1>3, <2>1 DEF Ordered
<1>6. CASE Call
  <2>1. c.call = "printf" /\ main' = [main EXCEPT !.calls = t, !.format = c.format, !.args = c.args]
    BY <1>6 DEF Call
  <2>2. Underway(c.format, c.args) /\ c.format \in Seq(Chars) /\ c.args \in Seq(Args)
    BY <1>3, <2>1, UnderwayFirst
  <2> DEFINE f == c.format
             g == c.args
  <2> HIDE DEF t, c, f, g
  <2>3. /\ main'.calls = t /\ main'.format = f /\ main'.args = g
        /\ main'.pc = main.pc /\ main'.temp = main.temp
        /\ main' \in [calls : Seq(Calls), format : Seq(Chars), args : Seq(Args), ops : Seq(Op),
                      pc : Pcs, char : Chars, temp : Nat]
    BY <1>1, <1>3, <2>1, <2>2 DEF MainTyped, f, g
  <2>4. MainTyped' BY <2>2, <2>3 DEF MainTyped, f, g
  <2>5. TypeOK' BY <1>1, <1>6, <2>4 DEF TypeOK, Call
  <2>6. Ordered' BY <1>4, <1>5, <1>6, <2>1, <2>3 DEF Ordered, Call
  <2>7. Bounded' BY <1>1, <1>2, <1>6, <2>3 DEF Bounded, Call
  <2>q. QED BY <2>5, <2>6, <2>7 DEF Sound
<1>7. CASE ConstructMouse
  <2>1. /\ c.call = "MouseToConsole" /\ main' = [main EXCEPT !.calls = t]
        /\ con' = [con EXCEPT !.cell = Invert(@, mouse)] /\ stage' = "mouse"
    BY <1>7 DEF ConstructMouse
  <2> HIDE DEF t, c
  <2>3. /\ main'.calls = t /\ main'.format = main.format /\ main'.args = main.args
        /\ main'.pc = main.pc /\ main'.temp = main.temp
        /\ main' \in [calls : Seq(Calls), format : Seq(Chars), args : Seq(Args), ops : Seq(Op),
                      pc : Pcs, char : Chars, temp : Nat]
    BY <1>1, <1>3, <2>1 DEF MainTyped
  <2>4. MainTyped' BY <1>1, <2>3 DEF MainTyped
  <2>2. con' \in Consoles /\ con'.x = con.x /\ con'.y = con.y
    BY <1>1, <2>1, InvertTyped DEF TypeOK
  <2>5. TypeOK' BY <1>1, <1>7, <2>2, <2>4 DEF TypeOK, ConstructMouse
  <2>6. Ordered' BY <1>4, <1>5, <2>1, <2>3 DEF Ordered
  <2>7. Bounded' BY <1>1, <1>2, <2>2, <2>3 DEF Bounded
  <2>q. QED BY <2>5, <2>6, <2>7 DEF Sound
<1>8. CASE Activate
  <2>1. c.call = "Activate" /\ main' = [main EXCEPT !.calls = t] /\ stage' = "on"
    BY <1>8 DEF Activate
  <2> HIDE DEF t, c
  <2>3. /\ main'.calls = t /\ main'.format = main.format /\ main'.args = main.args
        /\ main'.pc = main.pc /\ main'.temp = main.temp
        /\ main' \in [calls : Seq(Calls), format : Seq(Chars), args : Seq(Args), ops : Seq(Op),
                      pc : Pcs, char : Chars, temp : Nat]
    BY <1>1, <1>3, <2>1 DEF MainTyped
  <2>4. MainTyped' BY <1>1, <2>3 DEF MainTyped
  <2>5. TypeOK' BY <1>1, <1>8, <2>4 DEF TypeOK, Activate
  <2>6. Ordered' BY <1>4, <1>5, <2>1, <2>3 DEF Ordered
  <2>7. Bounded' BY <1>1, <1>2, <1>8, <2>3 DEF Bounded, Activate
  <2>q. QED BY <2>5, <2>6, <2>7 DEF Sound
<1>q. QED BY <1>6, <1>7, <1>8

LEMMA PrintfKeepsSound ==
  ASSUME Sound, Convert \/ StoreDigit \/ PutChar
  PROVE  Sound'
<1>0. Width \in Nat /\ Width > 1 /\ Height \in Nat /\ Height > 1 BY Sizes
<1>1. TypeOK /\ Ordered /\ Bounded /\ MainTyped BY DEF Sound, TypeOK
<1>m. main \in [calls : Seq(Calls), format : Seq(Chars), args : Seq(Args), ops : Seq(Op),
                pc : Pcs, char : Chars, temp : Nat]
  BY <1>1 DEF MainTyped
<1>2. main.pc = "next" BY DEF Convert, StoreDigit, PutChar
<1>3. CASE Convert
  <2> DEFINE it == Iteration(main.format, main.args)
  <2>1. main.format # <<>> /\ main' = [main EXCEPT !.format = it.format, !.args = it.args, !.ops = it.ops]
    BY <1>3 DEF Convert
  <2>2. Underway(main.format, main.args) BY <1>1, <2>1 DEF MainTyped
  <2> DEFINE format == main.format
             args == main.args
  <2>3. /\ Conversion(format) => /\ args # <<>> /\ args[1] \in Args
        /\ it.format \in Seq(Chars) /\ it.args \in Seq(Args)
        /\ Underway(it.format, it.args) /\ it.ops \in Seq(Op)
    <3> HIDE DEF format, args
    <3>1. Underway(format, args) /\ format # <<>> BY <2>1, <2>2 DEF format, args
    <3>2. /\ Conversion(format) => /\ args # <<>> /\ args[1] \in Args
          /\ LET i == Iteration(format, args)
             IN /\ i.format \in Seq(Chars) /\ i.args \in Seq(Args)
                /\ Underway(i.format, i.args) /\ i.ops \in Seq(Op)
      BY <3>1, UnderwayStep
    <3>q. QED BY <3>2 DEF format, args
  <2>4. said' \in [letter : Letters \cup {" "}, arg : Args \cup {0}, chars : Seq(Chars)]
    <3>1. CASE Conversion(main.format)
      <4>1. said' = [letter |-> main.format[2], arg |-> main.args[1], chars |-> <<>>]
        BY <1>3, <3>1 DEF Convert
      <4>2. main.format[2] \in Letters BY <3>1 DEF Conversion
      <4>3. main.args[1] \in Args BY <2>3, <3>1
      <4>4. <<>> \in Seq(Chars) OBVIOUS
      <4>q. QED BY <4>1, <4>2, <4>3, <4>4
    <3>2. CASE ~Conversion(main.format)
      <4>1. said' = [letter |-> " ", arg |-> 0, chars |-> <<>>] BY <1>3, <3>2 DEF Convert
      <4>2. <<>> \in Seq(Chars) OBVIOUS
      <4>q. QED BY <4>1, <4>2
    <3>q. QED BY <3>1, <3>2
  <2> HIDE DEF it
  <2>5. /\ main'.calls = main.calls /\ main'.format = it.format /\ main'.args = it.args
        /\ main'.pc = main.pc /\ main'.temp = main.temp
        /\ main' \in [calls : Seq(Calls), format : Seq(Chars), args : Seq(Args), ops : Seq(Op),
                      pc : Pcs, char : Chars, temp : Nat]
    BY <1>m, <2>1, <2>3
  <2>6. MainTyped' BY <2>3, <2>5 DEF MainTyped
  <2>7. TypeOK' BY <1>1, <1>3, <2>4, <2>6 DEF TypeOK, Convert
  <2>8. Ordered' BY <1>1, <1>3, <2>5 DEF Ordered, Convert
  <2>9. Bounded' BY <1>1, <1>2, <1>3, <2>5 DEF Bounded, Convert
  <2>q. QED BY <2>7, <2>8, <2>9 DEF Sound
<1>4. ASSUME StoreDigit \/ PutChar
      PROVE  /\ main.ops[1] \in Op /\ Tail(main.ops) \in Seq(Op) /\ main.ops[1].char \in Chars
             /\ main.ops[1].op # "put" => main.ops[1].at \in 1 .. 2 /\ con.foo[main.ops[1].at] \in Chars
  <2>1. main.ops \in Seq(Op) /\ main.ops # <<>> BY <1>m, <1>4 DEF StoreDigit, PutChar
  <2>2. main.ops[1] \in Op /\ Tail(main.ops) \in Seq(Op) BY <2>1, TailFacts
  <2>3. \A o \in Op : o.char \in Chars /\ (o.op # "put" => o.at \in 1 .. 2) BY DEF Op
  <2>4. \A i \in 1 .. 2 : con.foo[i] \in Chars BY <1>1 DEF TypeOK, Consoles
  <2>q. QED BY <2>2, <2>3, <2>4
<1>5. CASE StoreDigit
  <2>1. /\ main.ops[1].op = "store" /\ main' = [main EXCEPT !.ops = Tail(@)]
        /\ con' = [con EXCEPT !.foo[main.ops[1].at] = main.ops[1].char]
    BY <1>5 DEF StoreDigit
  <2>2. con' \in Consoles /\ con'.x = con.x /\ con'.y = con.y
    <3> DEFINE i == main.ops[1].at
               c == main.ops[1].char
               d == [con EXCEPT !.foo[i] = c]
    <3>1. i \in 1 .. 2 /\ c \in Chars /\ con \in Consoles BY <1>1, <1>4, <1>5, <2>1 DEF TypeOK
    <3> HIDE DEF i, c
    <3>2. d \in Consoles /\ d.x = con.x /\ d.y = con.y BY <3>1, StoreFacts
    <3>q. QED BY <2>1, <3>2 DEF i, c
  <2>5. /\ main'.calls = main.calls /\ main'.format = main.format /\ main'.args = main.args
        /\ main'.pc = main.pc /\ main'.temp = main.temp
        /\ main' \in [calls : Seq(Calls), format : Seq(Chars), args : Seq(Args), ops : Seq(Op),
                      pc : Pcs, char : Chars, temp : Nat]
    BY <1>m, <1>4, <1>5, <2>1
  <2>6. MainTyped' BY <1>1, <2>5 DEF MainTyped
  <2>7. TypeOK' BY <1>1, <1>5, <2>2, <2>6 DEF TypeOK, StoreDigit
  <2>8. Ordered' BY <1>1, <1>5, <2>5 DEF Ordered, StoreDigit
  <2>9. Bounded' BY <1>1, <1>2, <2>2, <2>5 DEF Bounded
  <2>q. QED BY <2>7, <2>8, <2>9 DEF Sound
<1>6. CASE PutChar
  <2> DEFINE o == main.ops[1]
             c == IF o.op = "show" THEN con.foo[o.at] ELSE o.char
  <2>1. /\ main' = [main EXCEPT !.ops = Tail(@), !.char = c, !.pc = "room"]
        /\ said' = [said EXCEPT !.chars = Append(@, c)]
        /\ UNCHANGED <<con, mouse, stage, interrupts, text, torn, ghost>>
    BY <1>6 DEF PutChar
  <2>2. c \in Chars BY <1>4, <1>6
  <2> HIDE DEF c
  <2>5. /\ main'.calls = main.calls /\ main'.format = main.format /\ main'.args = main.args
        /\ main'.pc = "room" /\ main'.temp = main.temp
        /\ main' \in [calls : Seq(Calls), format : Seq(Chars), args : Seq(Args), ops : Seq(Op),
                      pc : Pcs, char : Chars, temp : Nat]
    BY <1>m, <1>4, <1>6, <2>1, <2>2 DEF Pcs
  <2>6. MainTyped' BY <1>1, <2>5 DEF MainTyped
  <2>4. said' \in [letter : Letters \cup {" "}, arg : Args \cup {0}, chars : Seq(Chars)]
    <3>1. said \in [letter : Letters \cup {" "}, arg : Args \cup {0}, chars : Seq(Chars)]
      BY <1>1 DEF TypeOK
    <3>2. said.chars \in Seq(Chars) BY <3>1
    <3>3. Append(said.chars, c) \in Seq(Chars) BY <2>2, <3>2
    <3>q. QED BY <2>1, <3>1, <3>3
  <2>7. TypeOK' BY <1>1, <2>1, <2>4, <2>6 DEF TypeOK
  <2>8. Ordered' BY <1>1, <2>1, <2>5 DEF Ordered
  <2>9. Bounded' BY <1>1, <1>2, <2>1, <2>5 DEF Bounded
  <2>q. QED BY <2>7, <2>8, <2>9 DEF Sound
<1>q. QED BY <1>3, <1>5, <1>6

----------------------------------------------------------------------------
\* kernel_main in vga_putEntry.

Access ==
  \/ MakeRoom \/ ClampY \/ ClampX \/ ScrollCell \/ LoadY \/ StoreY \/ ClearX
  \/ Row \/ Column \/ Write \/ LoadX \/ StoreX \/ Wrap

MainSet == [calls : Seq(Calls), format : Seq(Chars), args : Seq(Args), ops : Seq(Op),
            pc : Pcs, char : Chars, temp : Nat]

\* kernel_main's state but for pc and temp.
SameCall ==
  /\ main'.calls = main.calls /\ main'.format = main.format /\ main'.args = main.args
  /\ main'.ops = main.ops /\ main'.char = main.char

LEMMA ConMoves ==
  ASSUME NEW c \in Consoles, NEW n
  PROVE  /\ n \in 0 .. (Height + 1) => LET d == [c EXCEPT !.y = n]
            IN d \in Consoles /\ d.y = n /\ d.x = c.x /\ d.cell = c.cell /\ d.index = c.index
               /\ d.foo = c.foo
         /\ n \in 0 .. Width => LET d == [c EXCEPT !.x = n]
            IN d \in Consoles /\ d.y = c.y /\ d.x = n /\ d.cell = c.cell /\ d.index = c.index
               /\ d.foo = c.foo
         /\ n \in Memory => LET d == [c EXCEPT !.index = n]
            IN d \in Consoles /\ d.y = c.y /\ d.x = c.x /\ d.cell = c.cell /\ d.index = n
               /\ d.foo = c.foo
         /\ n \in [Memory -> Cell] => LET d == [c EXCEPT !.cell = n]
            IN d \in Consoles /\ d.y = c.y /\ d.x = c.x /\ d.cell = n /\ d.index = c.index
               /\ d.foo = c.foo
  BY DEF Consoles

\* What each access does.
MakeRoomDoes ==
  /\ main.pc = "room" /\ con' = con /\ text' = text /\ ghost' = ghost
  /\ con.y > Height - 1 => main'.pc = "clampY"
  /\ con.y <= Height - 1 => main'.pc = IF main.char = NewLine THEN "line" ELSE "row"
ClampYDoes ==
  /\ main.pc = "clampY" /\ main'.pc = "clampX" /\ text' = text /\ ghost' = ghost
  /\ con'.y = Height - 1 /\ con'.x = con.x /\ con'.cell = con.cell
ClampXDoes ==
  /\ main.pc = "clampX" /\ main'.pc = "scroll" /\ main'.temp = 0 /\ text' = text /\ ghost' = ghost
  /\ con'.y = con.y /\ con'.x = 0 /\ con'.cell = con.cell
ScrollCellDoes ==
  /\ main.pc = "scroll" /\ text' = text /\ ghost' = TRUE
  /\ con'.y = con.y /\ con'.x = con.x
  /\ con'.cell = [con.cell EXCEPT ![main.temp] = con.cell[main.temp + Width],
                                  ![main.temp + Width] = Cleared]
  /\ main.temp + 1 < Width * (Height - 1) => main'.pc = "scroll" /\ main'.temp = main.temp + 1
  /\ ~(main.temp + 1 < Width * (Height - 1)) =>
       main'.pc = IF main.char = NewLine THEN "line" ELSE "row"
LoadYDoes ==
  /\ con' = con /\ main'.temp = con.y /\ ghost' = ghost
  /\ \/ main.pc = "line" /\ main'.pc = "lineStore" /\ text' = Append(text, NewLine)
     \/ main.pc = "wrapY" /\ main'.pc = "wrapStore" /\ text' = text
StoreYDoes ==
  /\ con'.y = main.temp + 1 /\ con'.x = con.x /\ con'.cell = con.cell
  /\ text' = text /\ ghost' = ghost
  /\ \/ main.pc = "lineStore" /\ main'.pc = "lineX"
     \/ main.pc = "wrapStore" /\ main'.pc = "next"
ClearXDoes ==
  /\ con'.y = con.y /\ con'.x = 0 /\ con'.cell = con.cell
  /\ text' = text /\ ghost' = ghost
  /\ \/ main.pc = "lineX" /\ main'.pc = "next"
     \/ main.pc = "wrapX" /\ main'.pc = "wrapY"
RowDoes ==
  /\ main.pc = "row" /\ main'.pc = "column" /\ main'.temp = Width * con.y
  /\ con' = con /\ text' = Append(text, main.char) /\ ghost' = ghost
ColumnDoes ==
  /\ main.pc = "column" /\ main'.pc = "write" /\ text' = text /\ ghost' = ghost
  /\ con'.y = con.y /\ con'.x = con.x /\ con'.cell = con.cell
  /\ con'.index = main.temp + con.x
WriteDoes ==
  /\ main.pc = "write" /\ main'.pc = "load" /\ text' = text
  /\ ghost' = (ghost \/ con.index = MouseCell)
  /\ con'.y = con.y /\ con'.x = con.x
  /\ con'.cell = [con.cell EXCEPT ![con.index] = [char |-> main.char, color |-> LightGrey]]
LoadXDoes ==
  /\ main.pc = "load" /\ main'.pc = "store" /\ main'.temp = con.x
  /\ con' = con /\ text' = text /\ ghost' = ghost
StoreXDoes ==
  /\ main.pc = "store" /\ main'.pc = "wrap" /\ text' = text /\ ghost' = ghost
  /\ con'.y = con.y /\ con'.x = main.temp + 1 /\ con'.cell = con.cell
WrapDoes ==
  /\ main.pc = "wrap" /\ con' = con /\ text' = text /\ ghost' = ghost
  /\ con.x >= Width => main'.pc = "wrapX"
  /\ con.x < Width => main'.pc = "next"

AccessDoes ==
  \/ MakeRoomDoes \/ ClampYDoes \/ ClampXDoes \/ ScrollCellDoes \/ LoadYDoes \/ StoreYDoes
  \/ ClearXDoes \/ RowDoes \/ ColumnDoes \/ WriteDoes \/ LoadXDoes \/ StoreXDoes \/ WrapDoes

LEMMA AccessFacts ==
  ASSUME Sound, Access
  PROVE  /\ main \in MainSet /\ main' \in MainSet /\ SameCall
         /\ con \in Consoles /\ con' \in Consoles /\ con'.foo = con.foo
         /\ UNCHANGED <<mouse, stage, interrupts, torn, said>>
         /\ text' \in Seq(Chars) /\ ghost' \in BOOLEAN
         /\ AccessDoes
<1>0. Width \in Nat /\ Width > 1 /\ Height \in Nat /\ Height > 1 BY Sizes
<1>1. /\ main \in MainSet /\ con \in Consoles /\ Bounded
      /\ text \in Seq(Chars) /\ ghost \in BOOLEAN
  BY DEF Sound, TypeOK, MainTyped, MainSet
<1>2. /\ con.x \in 0 .. Width /\ con.y \in 0 .. (Height + 1) /\ con.index \in Memory
      /\ con.cell \in [Memory -> Cell]
  BY <1>1 DEF Consoles
<1>3. main.temp \in Nat /\ main.char \in Chars /\ main.pc \in Pcs BY <1>1 DEF MainSet
<1>p. /\ "next" \in Pcs /\ "clampY" \in Pcs /\ "clampX" \in Pcs /\ "scroll" \in Pcs
      /\ "line" \in Pcs /\ "lineStore" \in Pcs /\ "lineX" \in Pcs /\ "row" \in Pcs
      /\ "column" \in Pcs /\ "write" \in Pcs /\ "load" \in Pcs /\ "store" \in Pcs
      /\ "wrap" \in Pcs /\ "wrapX" \in Pcs /\ "wrapY" \in Pcs /\ "wrapStore" \in Pcs
  BY DEF Pcs
<1>n. NewLine \in Chars /\ AfterRoom \in Pcs
  <2>1. NewLine \in Chars BY StdioAssumption
  <2>q. QED BY <1>p, <2>1 DEF AfterRoom
<1>4. CASE MakeRoom
  <2> DEFINE pc == IF con.y > Height - 1 THEN "clampY" ELSE AfterRoom
  <2>1. main' = [main EXCEPT !.pc = pc] /\ pc \in Pcs BY <1>4, <1>p, <1>n DEF MakeRoom, To
  <2>2. con.y > Height - 1 => pc = "clampY" OBVIOUS
  <2>3. con.y <= Height - 1 => pc = IF main.char = NewLine THEN "line" ELSE "row"
    BY <1>0, <1>2 DEF AfterRoom
  <2> HIDE DEF pc
  <2>4. main' \in MainSet /\ SameCall /\ main'.pc = pc
    BY <1>1, <2>1 DEF MainSet, SameCall
  <2>5. MakeRoomDoes BY <1>4, <2>2, <2>3, <2>4 DEF MakeRoom, MakeRoomDoes
  <2>q. QED BY <1>1, <1>4, <2>4, <2>5 DEF MakeRoom, AccessDoes
<1>5. CASE ClampY
  <2>1. main' = [main EXCEPT !.pc = "clampX"] BY <1>5 DEF ClampY, To
  <2>4. main' \in MainSet /\ SameCall /\ main'.pc = "clampX"
    BY <1>1, <1>p, <2>1 DEF MainSet, SameCall
  <2>2. Height - 1 \in 0 .. (Height + 1) BY <1>0
  <2> DEFINE h == Height - 1
  <2>3. con' = [con EXCEPT !.y = h] BY <1>5 DEF ClampY
  <2> HIDE DEF h
  <2>6. /\ con' \in Consoles /\ con'.y = h /\ con'.x = con.x /\ con'.cell = con.cell
        /\ con'.foo = con.foo
    BY <1>1, <2>2, <2>3, ConMoves DEF h
  <2>5. ClampYDoes BY <1>5, <2>4, <2>6 DEF ClampY, ClampYDoes, h
  <2>q. QED BY <1>1, <1>5, <2>4, <2>5, <2>6 DEF ClampY, AccessDoes
<1>6. CASE ClampX
  <2>1. main' = [main EXCEPT !.pc = "scroll", !.temp = 0] BY <1>6 DEF ClampX
  <2>4. main' \in MainSet /\ SameCall /\ main'.pc = "scroll" /\ main'.temp = 0
    BY <1>1, <1>p, <2>1 DEF MainSet, SameCall
  <2>2. 0 \in 0 .. Width BY <1>0
  <2>3. con' = [con EXCEPT !.x = 0] BY <1>6 DEF ClampX
  <2>6. /\ con' \in Consoles /\ con'.y = con.y /\ con'.x = 0 /\ con'.cell = con.cell
        /\ con'.foo = con.foo
    BY <1>1, <2>2, <2>3, ConMoves
  <2>5. ClampXDoes BY <1>6, <2>4, <2>6 DEF ClampX, ClampXDoes
  <2>q. QED BY <1>1, <1>6, <2>4, <2>5, <2>6 DEF ClampX, AccessDoes
<1>7. CASE ScrollCell
  <2> DEFINE from == con.cell[main.temp + Width]
             n == [con.cell EXCEPT ![main.temp] = from, ![main.temp + Width] = Cleared]
  <2>1. main.pc = "scroll" /\ main.temp < Width * (Height - 1) BY <1>1, <1>7 DEF ScrollCell, Bounded
  <2>2. main.temp \in Memory /\ main.temp + Width \in Memory
    <3> DEFINE w == Width * (Height - 1)
               v == Width * Height
    <3>1. w \in Nat /\ v = w + Width /\ main.temp < w /\ Memory = 0 .. (v + Width - 1)
      BY <2>1, Sizes, MemoryFacts
    <3> HIDE DEF w, v
    <3>q. QED BY <1>0, <1>3, <3>1
  <2>3. n \in [Memory -> Cell] BY <1>2, <2>2, CellsTyped
  <2>4. con' = [con EXCEPT !.cell = n]
    <3>1. con' = [con EXCEPT !.cell[main.temp] = con.cell[main.temp + Width],
                             !.cell[main.temp + Width] = Cleared]
      BY <1>7 DEF ScrollCell
    <3>q. QED BY <1>1, <3>1 DEF Consoles
  <2>5. main' = IF main.temp + 1 < Width * (Height - 1)
                  THEN [main EXCEPT !.temp = main.temp + 1]
                  ELSE [main EXCEPT !.pc = AfterRoom]
    BY <1>7 DEF ScrollCell
  <2>6. main' \in MainSet /\ SameCall
    <3>1. CASE main.temp + 1 < Width * (Height - 1)
      <4>1. main' = [main EXCEPT !.temp = main.temp + 1] /\ main.temp + 1 \in Nat
        BY <1>3, <2>5, <3>1
      <4>q. QED BY <1>1, <1>3, <4>1 DEF MainSet, SameCall
    <3>2. CASE ~(main.temp + 1 < Width * (Height - 1))
      <4>1. main' = [main EXCEPT !.pc = AfterRoom] BY <2>5, <3>2
      <4>q. QED BY <1>1, <1>3, <1>n, <4>1 DEF MainSet, SameCall
    <3>q. QED BY <3>1, <3>2
  <2>7. /\ main.temp + 1 < Width * (Height - 1) => main'.pc = "scroll" /\ main'.temp = main.temp + 1
        /\ ~(main.temp + 1 < Width * (Height - 1)) =>
             main'.pc = IF main.char = NewLine THEN "line" ELSE "row"
    <3>1. ASSUME main.temp + 1 < Width * (Height - 1)
          PROVE  main'.pc = "scroll" /\ main'.temp = main.temp + 1
      <4>1. main' = [main EXCEPT !.temp = main.temp + 1] /\ main.temp + 1 \in Nat
        BY <1>3, <2>5, <3>1
      <4>q. QED BY <1>1, <1>3, <2>1, <4>1 DEF MainSet
    <3>2. ASSUME ~(main.temp + 1 < Width * (Height - 1))
          PROVE  main'.pc = IF main.char = NewLine THEN "line" ELSE "row"
      <4>1. main' = [main EXCEPT !.pc = AfterRoom] BY <2>5, <3>2
      <4>2. main'.pc = AfterRoom BY <1>1, <1>3, <1>n, <4>1 DEF MainSet
      <4>q. QED BY <4>2 DEF AfterRoom
    <3>q. QED BY <3>1, <3>2
  <2> HIDE DEF n
  <2>8. /\ con' \in Consoles /\ con'.y = con.y /\ con'.x = con.x /\ con'.cell = n
        /\ con'.foo = con.foo
    BY <1>1, <2>3, <2>4, ConMoves
  <2>9. ScrollCellDoes
    <3>1. text' = text /\ ghost' = TRUE BY <1>7 DEF ScrollCell
    <3>q. QED BY <2>1, <2>7, <2>8, <3>1 DEF ScrollCellDoes, n
  <2>q. QED BY <1>1, <1>7, <2>6, <2>8, <2>9 DEF ScrollCell, AccessDoes
<1>8. CASE LoadY
  <2>1. CASE main.pc = "line"
    <3>1. main' = [main EXCEPT !.temp = con.y, !.pc = "lineStore"] BY <1>8, <2>1 DEF LoadY
    <3>2. con.y \in Nat BY <1>0, <1>2
    <3>3. main' \in MainSet /\ SameCall /\ main'.pc = "lineStore" /\ main'.temp = con.y
      BY <1>1, <1>p, <3>1, <3>2 DEF MainSet, SameCall
    <3>4. text' = Append(text, NewLine) BY <1>8, <2>1 DEF LoadY
    <3>5. text' \in Seq(Chars) BY <1>1, <1>n, <3>4
    <3>6. LoadYDoes BY <1>8, <2>1, <3>3, <3>4 DEF LoadY, LoadYDoes
    <3>q. QED BY <1>1, <1>8, <3>3, <3>5, <3>6 DEF LoadY, AccessDoes
  <2>2. CASE main.pc = "wrapY"
    <3>1. main' = [main EXCEPT !.temp = con.y, !.pc = "wrapStore"] BY <1>8, <2>2 DEF LoadY
    <3>2. con.y \in Nat BY <1>0, <1>2
    <3>3. main' \in MainSet /\ SameCall /\ main'.pc = "wrapStore" /\ main'.temp = con.y
      BY <1>1, <1>p, <3>1, <3>2 DEF MainSet, SameCall
    <3>4. text' = text BY <1>8, <2>2 DEF LoadY
    <3>6. LoadYDoes BY <1>8, <2>2, <3>3, <3>4 DEF LoadY, LoadYDoes
    <3>q. QED BY <1>1, <1>8, <3>3, <3>4, <3>6 DEF LoadY, AccessDoes
  <2>q. QED BY <1>8, <2>1, <2>2 DEF LoadY
<1>9. CASE StoreY
  <2>1. main.pc \in {"lineStore", "wrapStore"} /\ main.temp <= Height
    BY <1>1, <1>9 DEF StoreY, Bounded
  <2> DEFINE n == main.temp + 1
  <2>2. n \in 0 .. (Height + 1) BY <1>0, <1>3, <2>1
  <2>3. con' = [con EXCEPT !.y = n] BY <1>9 DEF StoreY
  <2>4. main' = [main EXCEPT !.pc = IF main.pc = "lineStore" THEN "lineX" ELSE "next"]
    BY <1>9 DEF StoreY, To
  <2> HIDE DEF n
  <2>5. /\ con' \in Consoles /\ con'.y = n /\ con'.x = con.x /\ con'.cell = con.cell
        /\ con'.foo = con.foo
    BY <1>1, <2>2, <2>3, ConMoves
  <2>6. /\ main' \in MainSet /\ SameCall
        /\ \/ main.pc = "lineStore" /\ main'.pc = "lineX"
           \/ main.pc = "wrapStore" /\ main'.pc = "next"
    BY <1>1, <1>3, <1>p, <2>1, <2>4 DEF MainSet, SameCall
  <2>7. StoreYDoes BY <1>9, <2>5, <2>6 DEF StoreY, StoreYDoes, n
  <2>q. QED BY <1>1, <1>9, <2>5, <2>6, <2>7 DEF StoreY, AccessDoes
<1>10. CASE ClearX
  <2>1. main.pc \in {"lineX", "wrapX"} BY <1>10 DEF ClearX
  <2>2. 0 \in 0 .. Width BY <1>0
  <2>3. con' = [con EXCEPT !.x = 0] BY <1>10 DEF ClearX
  <2>4. main' = [main EXCEPT !.pc = IF main.pc = "lineX" THEN "next" ELSE "wrapY"]
    BY <1>10 DEF ClearX, To
  <2>5. /\ con' \in Consoles /\ con'.y = con.y /\ con'.x = 0 /\ con'.cell = con.cell
        /\ con'.foo = con.foo
    BY <1>1, <2>2, <2>3, ConMoves
  <2>6. /\ main' \in MainSet /\ SameCall
        /\ \/ main.pc = "lineX" /\ main'.pc = "next"
           \/ main.pc = "wrapX" /\ main'.pc = "wrapY"
    BY <1>1, <1>3, <1>p, <2>1, <2>4 DEF MainSet, SameCall
  <2>7. ClearXDoes BY <1>10, <2>5, <2>6 DEF ClearX, ClearXDoes
  <2>q. QED BY <1>1, <1>10, <2>5, <2>6, <2>7 DEF ClearX, AccessDoes
<1>11. CASE Row
  <2>1. main' = [main EXCEPT !.pc = "column", !.temp = Width * con.y] BY <1>11 DEF Row
  <2>2. con.y \in Nat BY <1>0, <1>2
  <2> DEFINE n == Width * con.y
  <2>3. n \in Nat BY <2>2, RowFacts
  <2>7. main' = [main EXCEPT !.pc = "column", !.temp = n] BY <2>1
  <2> HIDE DEF n
  <2>4. main' \in MainSet /\ SameCall /\ main'.pc = "column" /\ main'.temp = n
    BY <1>1, <1>p, <2>7, <2>3 DEF MainSet, SameCall
  <2>5. text' = Append(text, main.char) /\ text' \in Seq(Chars) BY <1>1, <1>3, <1>11 DEF Row
  <2>6. RowDoes BY <1>11, <2>4, <2>5 DEF Row, RowDoes, n
  <2>q. QED BY <1>1, <1>11, <2>4, <2>5, <2>6 DEF Row, AccessDoes
<1>12. CASE Column
  <2>1. main' = [main EXCEPT !.pc = "write"] BY <1>12 DEF Column, To
  <2>2. main' \in MainSet /\ SameCall /\ main'.pc = "write"
    BY <1>1, <1>p, <2>1 DEF MainSet, SameCall
  <2> DEFINE n == main.temp + con.x
  <2>3. n \in Memory
    <3> DEFINE v == Width * Height
    <3>1. v \in Nat /\ Memory = 0 .. (v + Width - 1) BY Sizes, MemoryFacts
    <3>2. main.temp <= v /\ con.x <= Width - 1 BY <1>1, <1>12 DEF Column, Bounded
    <3> HIDE DEF v
    <3>q. QED BY <1>0, <1>2, <1>3, <3>1, <3>2
  <2>4. con' = [con EXCEPT !.index = n] BY <1>12 DEF Column
  <2> HIDE DEF n
  <2>5. /\ con' \in Consoles /\ con'.y = con.y /\ con'.x = con.x /\ con'.cell = con.cell
        /\ con'.foo = con.foo /\ con'.index = n
    BY <1>1, <2>3, <2>4, ConMoves
  <2>6. ColumnDoes BY <1>12, <2>2, <2>5 DEF Column, ColumnDoes, n
  <2>q. QED BY <1>1, <1>12, <2>2, <2>5, <2>6 DEF Column, AccessDoes
<1>13. CASE Write
  <2>1. main' = [main EXCEPT !.pc = "load"] BY <1>13 DEF Write, To
  <2>2. main' \in MainSet /\ SameCall /\ main'.pc = "load"
    BY <1>1, <1>p, <2>1 DEF MainSet, SameCall
  <2> DEFINE e == [char |-> main.char, color |-> LightGrey]
             n == [con.cell EXCEPT ![con.index] = e]
  <2>3. e \in Cell BY <1>3, CellsTyped
  <2>4. con' = [con EXCEPT !.cell = n]
    <3>1. con' = [con EXCEPT !.cell[con.index] = e] BY <1>13 DEF Write
    <3> HIDE DEF e
    <3>q. QED BY <1>1, <3>1 DEF Consoles
  <2> HIDE DEF e
  <2>5. n \in [Memory -> Cell] BY <1>2, <2>3
  <2> HIDE DEF n
  <2>6. /\ con' \in Consoles /\ con'.y = con.y /\ con'.x = con.x /\ con'.cell = n
        /\ con'.foo = con.foo
    BY <1>1, <2>4, <2>5, ConMoves
  <2>7. WriteDoes BY <1>13, <2>2, <2>6 DEF Write, WriteDoes, n, e
  <2>8. ghost' \in BOOLEAN BY <1>13 DEF Write
  <2>q. QED BY <1>1, <1>13, <2>2, <2>6, <2>7, <2>8 DEF Write, AccessDoes
<1>14. CASE LoadX
  <2>1. main' = [main EXCEPT !.temp = con.x, !.pc = "store"] BY <1>14 DEF LoadX
  <2>2. con.x \in Nat BY <1>0, <1>2
  <2>3. main' \in MainSet /\ SameCall /\ main'.pc = "store" /\ main'.temp = con.x
    BY <1>1, <1>p, <2>1, <2>2 DEF MainSet, SameCall
  <2>4. LoadXDoes BY <1>14, <2>3 DEF LoadX, LoadXDoes
  <2>q. QED BY <1>1, <1>14, <2>3, <2>4 DEF LoadX, AccessDoes
<1>15. CASE StoreX
  <2>1. main.pc = "store" /\ main.temp <= Width - 1 BY <1>1, <1>15 DEF StoreX, Bounded
  <2> DEFINE n == main.temp + 1
  <2>2. n \in 0 .. Width BY <1>0, <1>3, <2>1
  <2>3. con' = [con EXCEPT !.x = n] BY <1>15 DEF StoreX
  <2>4. main' = [main EXCEPT !.pc = "wrap"] BY <1>15 DEF StoreX, To
  <2> HIDE DEF n
  <2>5. /\ con' \in Consoles /\ con'.y = con.y /\ con'.x = n /\ con'.cell = con.cell
        /\ con'.foo = con.foo
    BY <1>1, <2>2, <2>3, ConMoves
  <2>6. main' \in MainSet /\ SameCall /\ main'.pc = "wrap"
    BY <1>1, <1>3, <1>p, <2>4 DEF MainSet, SameCall
  <2>7. StoreXDoes BY <1>15, <2>5, <2>6 DEF StoreX, StoreXDoes, n
  <2>q. QED BY <1>1, <1>15, <2>5, <2>6, <2>7 DEF StoreX, AccessDoes
<1>16. CASE Wrap
  <2>1. main' = [main EXCEPT !.pc = IF con.x >= Width THEN "wrapX" ELSE "next"]
    BY <1>16 DEF Wrap, To
  <2>2. /\ main' \in MainSet /\ SameCall
        /\ main'.pc = IF con.x >= Width THEN "wrapX" ELSE "next"
    BY <1>1, <1>3, <1>p, <2>1 DEF MainSet, SameCall
  <2>3. WrapDoes BY <1>0, <1>2, <1>16, <2>2 DEF Wrap, WrapDoes
  <2>q. QED BY <1>1, <1>16, <2>2, <2>3 DEF Wrap, AccessDoes
<1>q. QED
  BY <1>4, <1>5, <1>6, <1>7, <1>8, <1>9, <1>10, <1>11, <1>12, <1>13, <1>14, <1>15, <1>16
  DEF Access

LEMMA AccessKeepsSound ==
  ASSUME Sound, Access
  PROVE  Sound'
<1>0. Width \in Nat /\ Width > 1 /\ Height \in Nat /\ Height > 1 BY Sizes
<1>1. /\ main \in MainSet /\ main' \in MainSet /\ SameCall
      /\ con \in Consoles /\ con' \in Consoles
      /\ UNCHANGED <<mouse, stage, interrupts, torn, said>>
      /\ text' \in Seq(Chars) /\ ghost' \in BOOLEAN
      /\ AccessDoes
  BY AccessFacts
<1>2. TypeOK /\ Ordered /\ Bounded BY DEF Sound
<1>3. TypeOK' BY <1>1, <1>2 DEF TypeOK, MainTyped, SameCall, MainSet
<1>4. Ordered' BY <1>1, <1>2 DEF Ordered, SameCall
<1>5. Bounded'
  <2>1. /\ con.x \in Int /\ con.y \in Int /\ main.temp \in Nat
        /\ con'.x \in Int /\ con'.y \in Int /\ main'.temp \in Nat
    BY <1>0, <1>1 DEF Consoles, MainSet
  <2>2. CASE MakeRoomDoes BY <1>0, <1>2, <2>1, <2>2 DEF Bounded, MakeRoomDoes
  <2>3. CASE ClampYDoes BY <1>0, <1>2, <2>1, <2>3 DEF Bounded, ClampYDoes
  <2>4. CASE ClampXDoes
    <3>1. 0 < Width * (Height - 1) BY <1>0, Sizes
    <3>q. QED BY <1>0, <1>2, <2>1, <2>4, <3>1 DEF Bounded, ClampXDoes
  <2>5. CASE ScrollCellDoes
    <3> DEFINE w == Width * (Height - 1)
    <3>1. w \in Nat BY Sizes
    <3>2. /\ main.temp + 1 < w => main'.pc = "scroll" /\ main'.temp = main.temp + 1
          /\ ~(main.temp + 1 < w) => main'.pc \in {"line", "row"}
          /\ con'.x = con.x /\ con'.y = con.y /\ main.pc = "scroll"
      BY <2>5 DEF ScrollCellDoes
    <3>3. con.x <= Width - 1 /\ con.y <= Height BY <1>2, <3>2 DEF Bounded
    <3>4. main'.pc = "scroll" => main'.temp < w
      <4> HIDE DEF w
      <4>q. QED BY <2>1, <3>1, <3>2
    <3>q. QED BY <3>2, <3>3, <3>4 DEF Bounded
  <2>6. CASE LoadYDoes BY <1>0, <1>2, <2>1, <2>6 DEF Bounded, LoadYDoes
  <2>7. CASE StoreYDoes BY <1>0, <1>2, <2>1, <2>7 DEF Bounded, StoreYDoes
  <2>8. CASE ClearXDoes BY <1>0, <1>2, <2>1, <2>8 DEF Bounded, ClearXDoes
  <2>9. CASE RowDoes
    <3>1. con.y \in Nat /\ con.y <= Height /\ con.x <= Width - 1
      BY <1>1, <1>2, <2>9 DEF Bounded, RowDoes, Consoles
    <3>2. Width * con.y <= Width * Height BY <3>1, RowFacts
    <3>q. QED BY <2>9, <3>1, <3>2 DEF Bounded, RowDoes
  <2>10. CASE ColumnDoes BY <1>0, <1>2, <2>1, <2>10 DEF Bounded, ColumnDoes
  <2>11. CASE WriteDoes BY <1>0, <1>2, <2>1, <2>11 DEF Bounded, WriteDoes
  <2>12. CASE LoadXDoes BY <1>0, <1>2, <2>1, <2>12 DEF Bounded, LoadXDoes
  <2>13. CASE StoreXDoes BY <1>0, <1>2, <2>1, <2>13 DEF Bounded, StoreXDoes
  <2>14. CASE WrapDoes BY <1>0, <1>2, <2>1, <2>14 DEF Bounded, WrapDoes
  <2>q. QED
    BY <1>1, <2>2, <2>3, <2>4, <2>5, <2>6, <2>7, <2>8, <2>9, <2>10, <2>11, <2>12, <2>13, <2>14
    DEF AccessDoes
<1>q. QED BY <1>3, <1>4, <1>5 DEF Sound

----------------------------------------------------------------------------
\* Interrupt handlers.

Prints == \E ops \in Seq(Op) : Backed(ops) /\ HandlerPrints(ops)

LEMMA InterruptCases ==
  ASSUME Interrupt
  PROVE  Prints \/ \E d \in Moves : OnMouseMove(d)
<1>1. ASSUME NEW c \in Typed, OnKeyDown(c) PROVE Prints
  <2>1. c \in Chars BY ConsoleAssumption
  <2>2. Fits(<<c>>, <<>>) BY <2>1, CharacterFits
  <2>3. Printf(<<c>>, <<>>) \in Seq(Op) /\ Backed(Printf(<<c>>, <<>>)) BY <2>2, PrintfFacts
  <2>q. QED BY <1>1, <2>3 DEF OnKeyDown, Prints
<1>2. ASSUME NEW r \in Reports, Report(r) PROVE Prints
  <2>1. Fits(r.format, r.args) BY ConsoleAssumption
  <2> DEFINE ops == Printf(r.format, r.args)
  <2>2. ops \in Seq(Op) /\ Backed(ops) BY <2>1, PrintfFacts
  <2>q. QED BY <1>2, <2>2 DEF Report, Prints
<1>q. QED BY <1>1, <1>2 DEF Interrupt

\* What a printing handler does.
LEMMA PrintsFacts ==
  ASSUME Sound, NEW ops \in Seq(Op), HandlerPrints(ops)
  PROVE  /\ con' = RunUpTo(con, ops)[Len(ops)] /\ con' \in Consoles
         /\ con.x <= Width - 1 => con'.x <= Width - 1
         /\ con.y <= Height => con'.y <= Height
         /\ Characters(ops) \in Seq(Chars)
         /\ text' = text \o Characters(ops) /\ text' \in Seq(Chars)
         /\ UNCHANGED <<main, mouse, stage, said>>
         /\ interrupts' \in 0 .. MaxInterrupts
         /\ torn' \in BOOLEAN /\ (~torn' => ~torn /\ ~Tears(con'))
         /\ ghost' \in BOOLEAN
         /\ ~ghost' => ~ghost /\ con'.cell[MouseCell] = con.cell[MouseCell]
<1>1. con \in Consoles /\ text \in Seq(Chars) /\ torn \in BOOLEAN /\ ghost \in BOOLEAN
      /\ interrupts \in 0 .. MaxInterrupts
  BY DEF Sound, TypeOK
<1>2. con' = RunUpTo(con, ops)[Len(ops)] BY DEF HandlerPrints, Run
<1>3. Len(ops) \in 0 .. Len(ops) /\ Len(ops) \in Nat OBVIOUS
<1>4. /\ con' \in Consoles
      /\ con.x <= Width - 1 => con'.x <= Width - 1
      /\ con.y <= Height => con'.y <= Height
  BY <1>1, <1>2, <1>3, RunTyped
<1>5. Characters(ops) \in Seq(Chars) BY <1>3, CharactersSteps DEF Characters
<1>6. text' = text \o Characters(ops) BY DEF HandlerPrints
<1>7. text' \in Seq(Chars) BY <1>1, <1>5, <1>6
<1>8. interrupts' \in 0 .. MaxInterrupts
  <2>1. MaxInterrupts \in Nat BY ConsoleAssumption
  <2>2. interrupts' = interrupts + 1 /\ interrupts < MaxInterrupts BY DEF HandlerPrints
  <2>q. QED BY <1>1, <2>1, <2>2
<1>9. UNCHANGED <<main, mouse, stage, said>> BY DEF HandlerPrints
<1>10. torn' \in BOOLEAN /\ (~torn' => ~torn /\ ~Tears(con'))
  <2>1. torn' = (torn \/ Tears(Run(con, ops))) /\ con' = Run(con, ops) BY DEF HandlerPrints
  <2>2. torn' = (torn \/ Tears(con')) BY <2>1, Zenon
  <2>q. QED BY <2>2
<1>11. ghost' \in BOOLEAN /\ (~ghost' => ~ghost /\ con'.cell[MouseCell] = con.cell[MouseCell])
  <2> DEFINE c == Run(con, ops)
  <2>1. con' = c BY DEF HandlerPrints
  <2>2. ghost' = (ghost \/ c.cell[MouseCell] # con.cell[MouseCell]
                        \/ con.y > Height - 1 \/ c.y > Height - 1)
    BY DEF HandlerPrints
  <2> HIDE DEF c
  <2>q. QED BY <2>1, <2>2
<1>q. QED BY <1>2, <1>4, <1>5, <1>6, <1>7, <1>8, <1>9, <1>10, <1>11

LEMMA ClampedFacts ==
  ASSUME NEW n \in Int, NEW limit \in Nat, limit > 0
  PROVE  Clamped(Int8(n), limit) \in 0 .. (limit - 1)
<1>1. HalfByte \in Nat BY ConsoleAssumption
<1>2. Int8(n) \in Int BY <1>1 DEF Int8
<1>q. QED BY <1>2 DEF Clamped

\* What a movement of the mouse does.
LEMMA MovesFacts ==
  ASSUME Sound, NEW d \in Moves, OnMouseMove(d)
  PROVE  /\ mouse' \in [x : 0 .. (Width - 1), y : 0 .. (Height - 1)]
         /\ con' = [con EXCEPT !.cell = Invert(Invert(con.cell, mouse), mouse')]
         /\ con' \in Consoles
         /\ con'.x = con.x /\ con'.y = con.y /\ con'.foo = con.foo /\ con'.index = con.index
         /\ con'.cell = Invert(Invert(con.cell, mouse), mouse')
         /\ UNCHANGED <<main, stage, text, torn, ghost, said>>
         /\ interrupts' \in 0 .. MaxInterrupts
<1>0. Width \in Nat /\ Width > 1 /\ Height \in Nat /\ Height > 1 BY Sizes
<1>1. /\ con \in Consoles /\ mouse \in [x : 0 .. (Width - 1), y : 0 .. (Height - 1)]
      /\ interrupts \in 0 .. MaxInterrupts
  BY DEF Sound, TypeOK
<1>2. mouse' \in [x : 0 .. (Width - 1), y : 0 .. (Height - 1)]
  <2>1. d[1] \in Int /\ d[2] \in Int BY ConsoleAssumption
  <2>2. mouse.x + d[1] \in Int /\ mouse.y + d[2] \in Int BY <1>0, <1>1, <2>1
  <2> DEFINE a == mouse.x + d[1]
             b == mouse.y + d[2]
  <2>3. mouse' = [x |-> Clamped(Int8(a), Width), y |-> Clamped(Int8(b), Height)]
    BY DEF OnMouseMove
  <2> HIDE DEF a, b
  <2>4. Clamped(Int8(a), Width) \in 0 .. (Width - 1) /\ Clamped(Int8(b), Height) \in 0 .. (Height - 1)
    <3>1. a \in Int /\ b \in Int BY <2>2 DEF a, b
    <3>2. Width \in Nat /\ Width > 0 /\ Height \in Nat /\ Height > 0 BY <1>0
    <3>q. QED BY <3>1, <3>2, ClampedFacts
  <2>q. QED BY <2>3, <2>4
<1>3. con' = [con EXCEPT !.cell = Invert(Invert(con.cell, mouse), mouse')]
  BY DEF OnMouseMove, Inverted
<1> DEFINE c == [con EXCEPT !.cell = Invert(@, mouse)]
           n == Invert(con.cell, mouse)
           o == Invert(n, mouse')
<1>4. n \in [Memory -> Cell] BY <1>1, InvertTyped
<1>5. c \in Consoles /\ c.cell = n BY <1>1, InvertTyped
<1> HIDE DEF c, n
<1>6. Invert(c.cell, mouse') \in [Memory -> Cell] BY <1>2, <1>5, InvertTyped
<1>7. o \in [Memory -> Cell] BY <1>5, <1>6
<1>8. con' = [con EXCEPT !.cell = o] BY <1>3 DEF n
<1> HIDE DEF o
<1>9. /\ con' \in Consoles /\ con'.x = con.x /\ con'.y = con.y /\ con'.foo = con.foo
      /\ con'.index = con.index /\ con'.cell = o
  BY <1>1, <1>7, <1>8, ConMoves
<1>10. interrupts' \in 0 .. MaxInterrupts
  <2>1. MaxInterrupts \in Nat BY ConsoleAssumption
  <2>2. interrupts' = interrupts + 1 /\ interrupts < MaxInterrupts BY DEF OnMouseMove
  <2>q. QED BY <1>1, <2>1, <2>2
<1>11. UNCHANGED <<main, stage, text, torn, ghost, said>> BY DEF OnMouseMove
<1>q. QED BY <1>2, <1>3, <1>9, <1>10, <1>11 DEF o, n

LEMMA InterruptKeepsSound ==
  ASSUME Sound, Interrupt
  PROVE  Sound'
<1>0. Width \in Nat /\ Width > 1 /\ Height \in Nat /\ Height > 1 BY Sizes
<1>1. TypeOK /\ Ordered /\ Bounded BY DEF Sound
<1>2. CASE Prints
  <2>1. PICK ops \in Seq(Op) : Backed(ops) /\ HandlerPrints(ops) BY <1>2 DEF Prints
  <2>2. /\ con' \in Consoles
        /\ con.x <= Width - 1 => con'.x <= Width - 1
        /\ con.y <= Height => con'.y <= Height
        /\ text' \in Seq(Chars)
        /\ UNCHANGED <<main, mouse, stage, said>>
        /\ interrupts' \in 0 .. MaxInterrupts
        /\ torn' \in BOOLEAN /\ ghost' \in BOOLEAN
    BY <2>1, PrintsFacts
  <2>3. TypeOK' BY <1>1, <2>2 DEF TypeOK, MainTyped
  <2>4. Ordered' BY <1>1, <2>2 DEF Ordered
  <2>5. Bounded' BY <1>1, <2>2 DEF Bounded
  <2>q. QED BY <2>3, <2>4, <2>5 DEF Sound
<1>3. CASE \E d \in Moves : OnMouseMove(d)
  <2>1. PICK d \in Moves : OnMouseMove(d) BY <1>3
  <2>2. /\ mouse' \in [x : 0 .. (Width - 1), y : 0 .. (Height - 1)]
        /\ con' \in Consoles /\ con'.x = con.x /\ con'.y = con.y
        /\ UNCHANGED <<main, stage, text, torn, ghost, said>>
        /\ interrupts' \in 0 .. MaxInterrupts
    BY <2>1, MovesFacts
  <2>3. TypeOK' BY <1>1, <2>2 DEF TypeOK, MainTyped
  <2>4. Ordered' BY <1>1, <2>2 DEF Ordered
  <2>5. Bounded' BY <1>1, <2>2 DEF Bounded
  <2>q. QED BY <2>3, <2>4, <2>5 DEF Sound
<1>q. QED BY <1>2, <1>3, InterruptCases

LEMMA NextKeepsSound == Sound /\ [Next]_vars => Sound'
<1> SUFFICES ASSUME Sound, [Next]_vars PROVE Sound'
  OBVIOUS
<1>1. CASE Main
  <2>1. \/ Call \/ ConstructMouse \/ Activate
        \/ Convert \/ StoreDigit \/ PutChar
        \/ Access
    BY <1>1 DEF Main, Access
  <2>q. QED BY <2>1, CallsKeepSound, PrintfKeepsSound, AccessKeepsSound
<1>2. CASE Interrupt BY <1>2, InterruptKeepsSound
<1>3. CASE UNCHANGED vars
  <2>1. UNCHANGED <<con, main, mouse, stage, interrupts, text, torn, ghost, said>>
    BY <1>3 DEF vars
  <2>2. TypeOK' BY <2>1 DEF Sound, TypeOK, MainTyped
  <2>3. Ordered' BY <2>1 DEF Sound, Ordered
  <2>4. Bounded' BY <2>1 DEF Sound, Bounded
  <2>q. QED BY <2>2, <2>3, <2>4 DEF Sound
<1>q. QED BY <1>1, <1>2, <1>3 DEF Next

\* Every variable keeps its type: the cells of the video memory and the
\* literal are written only within their bounds, by vga_putEntry, scrolling,
\* printfHex and the mouse, and every conversion finds its argument.
THEOREM TypeCorrect == Spec => []TypeOK
<1>1. Sound => TypeOK BY DEF Sound
<1>q. QED BY <1>1, InitSound, NextKeepsSound, PTL DEF Spec

\* vga_putEntry, also when it is interrupted between two accesses to the
\* cursor, writes at most one line behind the screen, and the cursor is back
\* in the line between two characters.
THEOREM StaysInVideoMemory == Spec => []WritesStayInVideoMemory
<1>1. Sound => WritesStayInVideoMemory
  <2> SUFFICES ASSUME Sound PROVE WritesStayInVideoMemory
    OBVIOUS
  <2>1. con \in Consoles /\ Bounded BY DEF Sound, TypeOK
  <2>2. Width \in Nat BY Sizes
  <2>q. QED BY <2>1, <2>2 DEF Consoles, Bounded, WritesStayInVideoMemory
<1>q. QED BY <1>1, InitSound, NextKeepsSound, PTL DEF Spec

----------------------------------------------------------------------------
\* The mouse's cell.

Inverse(c) == c.color[2] # 0

NoInverse(cell) == \A a \in Cells : ~Inverse(cell[a])
OneInverse(cell) == \A a, b \in Cells : Inverse(cell[a]) /\ Inverse(cell[b]) => a = b

\* Until there is a mouse nothing is inverted.
Pointed == IF stage = "boot" THEN NoInverse(con.cell) ELSE MouseShown

LEMMA ScrolledInverse ==
  ASSUME NEW cell
  PROVE  /\ NoInverse(cell) => NoInverse(Scrolled(cell))
         /\ OneInverse(cell) => OneInverse(Scrolled(cell))
<1>1. ~Inverse(Cleared) BY CellsTyped DEF Inverse
<1>2. \A a \in Cells : Scrolled(cell)[a] = IF a + Width \in Cells THEN cell[a + Width] ELSE Cleared
  BY MemoryFacts DEF Scrolled
<1>3. \A a \in Cells : Inverse(Scrolled(cell)[a]) => a + Width \in Cells /\ Inverse(cell[a + Width])
  BY <1>1, <1>2
<1>4. \A a \in Cells : a \in Int BY MemoryFacts
<1>5. Width \in Int BY Sizes
<1>q. QED BY <1>3, <1>4, <1>5 DEF NoInverse, OneInverse

LEMMA WrittenInverse ==
  ASSUME NEW cell \in [Memory -> Cell], NEW i \in Memory, NEW char \in Chars
  PROVE  LET d == [cell EXCEPT ![i] = [char |-> char, color |-> LightGrey]]
         IN /\ NoInverse(cell) => NoInverse(d)
            /\ OneInverse(cell) => OneInverse(d)
<1> DEFINE e == [char |-> char, color |-> LightGrey]
           d == [cell EXCEPT ![i] = e]
<1>1. ~Inverse(e)
  <2>1. e.color = LightGrey OBVIOUS
  <2>q. QED BY <2>1, CellsTyped DEF Inverse
<1> HIDE DEF e
<1>2. \A a \in Cells : d[a] = IF a = i THEN e ELSE cell[a] BY MemoryFacts
<1> HIDE DEF d
<1>3. \A a \in Cells : Inverse(d[a]) => Inverse(cell[a]) BY <1>1, <1>2
<1>4. NoInverse(cell) => NoInverse(d) BY <1>3 DEF NoInverse
<1>5. OneInverse(cell) => OneInverse(d) BY <1>3 DEF OneInverse
<1>q. QED BY <1>4, <1>5 DEF d, e

LEMMA EntryInverse ==
  ASSUME NEW c \in Consoles, NEW char \in Chars
  PROVE  LET d == PutEntry(c, char)
         IN /\ NoInverse(c.cell) => NoInverse(d.cell)
            /\ OneInverse(c.cell) => OneInverse(d.cell)
<1> DEFINE d == PutEntry(c, char)
           r == MadeRoom(c)
           i == Width * r.y + r.x
<1>1. r \in Consoles /\ r.y <= Height - 1 BY RoomFacts
<1>2. /\ NoInverse(c.cell) => NoInverse(r.cell)
      /\ OneInverse(c.cell) => OneInverse(r.cell)
  <2>1. c.y \in Int /\ Height \in Int BY Sizes DEF Consoles
  <2>2. CASE c.y > Height - 1
    <3>1. r.cell = Scrolled(c.cell) BY <2>2, RoomFacts
    <3> HIDE DEF r
    <3>q. QED BY <3>1, ScrolledInverse
  <2>3. CASE c.y <= Height - 1
    <3>1. r = c BY <2>3, RoomFacts
    <3> HIDE DEF r
    <3>q. QED BY <3>1
  <2>q. QED BY <2>1, <2>2, <2>3
<1>3. char = NewLine => d.cell = r.cell BY EntryFacts
<1>4. char # NewLine => d.cell = [r.cell EXCEPT ![i] = [char |-> char, color |-> LightGrey]]
  BY EntryFacts
<1> HIDE DEF d, r
<1>5. i \in Memory /\ r.cell \in [Memory -> Cell]
  <2>1. r.x \in 0 .. Width /\ r.y \in Nat /\ r.cell \in [Memory -> Cell]
    BY <1>1, Sizes DEF Consoles
  <2>q. QED BY <1>1, <2>1, PlaceFacts
<1> HIDE DEF i
<1>6. CASE char = NewLine BY <1>2, <1>3, <1>6 DEF d
<1>7. CASE char # NewLine BY <1>2, <1>4, <1>5, <1>7, WrittenInverse DEF d
<1>q. QED BY <1>6, <1>7

\* However much a handler prints and scrolls, no cell is inverted that was not.
LEMMA RunInverse ==
  ASSUME NEW c \in Consoles, NEW ops \in Seq(Op)
  PROVE  LET d == RunUpTo(c, ops)[Len(ops)]
         IN /\ NoInverse(c.cell) => NoInverse(d.cell)
            /\ OneInverse(c.cell) => OneInverse(d.cell)
<1> DEFINE R == RunUpTo(c, ops)
           S == {n \in 0 .. Len(ops) : /\ NoInverse(c.cell) => NoInverse(R[n].cell)
                                       /\ OneInverse(c.cell) => OneInverse(R[n].cell)}
<1>l. Len(ops) \in Nat OBVIOUS
<1>1. /\ R[0] = c
      /\ \A n \in 0 .. (Len(ops) - 1) : R[n + 1] = Done(R[n], ops[n + 1])
      /\ \A n \in 0 .. Len(ops) : R[n] \in Consoles
  BY RunSteps, RunTyped
<1> HIDE DEF R
<1>2. 0 \in S BY <1>1, <1>l
<1>3. ASSUME NEW n \in 0 .. (Len(ops) - 1), n \in S PROVE n + 1 \in S
  <2>1. n + 1 \in 0 .. Len(ops) /\ n + 1 \in 1 .. Len(ops) /\ n \in 0 .. Len(ops) BY <1>l
  <2>2. ops[n + 1] \in Op BY <2>1
  <2> DEFINE o == ops[n + 1]
             b == R[n]
  <2>3. R[n + 1] = Done(b, o) BY <1>1
  <2>4. b \in Consoles /\ o \in Op BY <1>1, <2>1, <2>2
  <2> HIDE DEF b, o
  <2>5. /\ NoInverse(b.cell) => NoInverse(Done(b, o).cell)
        /\ OneInverse(b.cell) => OneInverse(Done(b, o).cell)
    <3>1. CASE o.op = "store"
      <4>1. /\ o.at \in 1 .. 2 /\ o.char \in Chars
            /\ Done(b, o) = [b EXCEPT !.foo[o.at] = o.char]
        BY <2>4, <3>1, DoneCases
      <4>2. Done(b, o).cell = b.cell BY <2>4, <4>1 DEF Consoles
      <4>q. QED BY <4>2
    <3>2. CASE o.op = "put"
      <4>1. Done(b, o) = PutEntry(b, o.char) /\ o.char \in Chars BY <2>4, <3>2, DoneCases
      <4>q. QED BY <2>4, <4>1, EntryInverse
    <3>3. CASE o.op = "show"
      <4>1. Done(b, o) = PutEntry(b, b.foo[o.at]) /\ b.foo[o.at] \in Chars
        BY <2>4, <3>3, DoneCases
      <4>q. QED BY <2>4, <4>1, EntryInverse
    <3>q. QED BY <2>4, <3>1, <3>2, <3>3, DoneCases
  <2>6. /\ NoInverse(c.cell) => NoInverse(R[n].cell)
        /\ OneInverse(c.cell) => OneInverse(R[n].cell)
    BY <1>3
  <2>q. QED BY <2>1, <2>3, <2>5, <2>6 DEF b
<1>4. \A n \in 0 .. Len(ops) : n \in S
  <2> HIDE DEF S
  <2>q. QED BY <1>2, <1>3, <1>l, BoundedInduction
<1>5. Len(ops) \in 0 .. Len(ops) BY <1>l
<1>q. QED BY <1>4, <1>5 DEF R

LEMMA PointedInit == Init => Pointed
<1> SUFFICES ASSUME Init PROVE Pointed
  OBVIOUS
<1>1. stage = "boot" BY DEF Init
<1>2. con.cell = [a \in Memory |-> IF a \in Cells THEN Blank ELSE Cleared] BY DEF Init
<1>3. \A a \in Cells : con.cell[a] = Blank BY <1>2, MemoryFacts
<1>q. QED BY <1>1, <1>3, CellsTyped DEF Pointed, NoInverse, Inverse

LEMMA PointedMain ==
  ASSUME Sound, Pointed, Main
  PROVE  Pointed'
<1>1. /\ con \in Consoles /\ mouse \in [x : 0 .. (Width - 1), y : 0 .. (Height - 1)]
  BY DEF Sound, TypeOK
<1>2. ASSUME UNCHANGED <<stage, ghost, mouse>>, con'.cell = con.cell
      PROVE  Pointed'
  BY <1>2 DEF Pointed, MouseShown, MouseCell, NoInverse
<1>3. CASE Call \/ Convert \/ PutChar BY <1>2, <1>3 DEF Call, Convert, PutChar
<1>4. CASE StoreDigit
  <2>1. con' = [con EXCEPT !.foo[main.ops[1].at] = main.ops[1].char]
    BY <1>4 DEF StoreDigit
  <2>2. con'.cell = con.cell BY <1>1, <2>1 DEF Consoles
  <2>q. QED BY <1>2, <1>4, <2>2 DEF StoreDigit
<1>5. CASE Activate
  <2>1. main.calls \in Seq(Calls) /\ main.calls # <<>> BY <1>5 DEF Activate, Sound, TypeOK, MainTyped
  <2>2. main.calls[1].call = "Activate" BY <1>5 DEF Activate
  <2>3. stage # "boot"
    <3>1. stage = "boot" => InOrder(main.calls) BY DEF Sound, Ordered
    <3>q. QED BY <2>1, <2>2, <3>1, OrderFacts
  <2>4. MouseShown BY <2>3 DEF Pointed
  <2>5. stage' = "on" /\ UNCHANGED <<con, mouse, ghost>> BY <1>5 DEF Activate
  <2>q. QED BY <2>3, <2>4, <2>5 DEF Pointed, MouseShown, MouseCell
<1>6. CASE ConstructMouse
  <2>1. main.calls \in Seq(Calls) /\ main.calls # <<>> /\ main.calls[1].call = "MouseToConsole"
    BY <1>6 DEF ConstructMouse, Sound, TypeOK, MainTyped
  <2>2. stage = "boot"
    <3>1. 1 \in 1 .. Len(main.calls) BY <2>1
    <3>q. QED BY <2>1, <3>1 DEF Sound, Ordered
  <2>3. NoInverse(con.cell) BY <2>2 DEF Pointed
  <2>4. /\ con' = [con EXCEPT !.cell = Invert(@, mouse)] /\ stage' = "mouse"
        /\ mouse' = mouse
    BY <1>6 DEF ConstructMouse
  <2>5. /\ MouseCell \in Cells
        /\ \A a \in Memory : a # MouseCell => con'.cell[a] = con.cell[a]
        /\ con.cell[MouseCell] = Cleared => con'.cell[MouseCell] = Cleared
        /\ con.cell[MouseCell] # Cleared =>
             /\ con'.cell[MouseCell] # Cleared
             /\ con'.cell[MouseCell].color[2] # 0 <=> con.cell[MouseCell].color[2] = 0
    BY <1>1, <2>4, InvertTyped DEF MouseCell
  <2>6. MouseCell' = MouseCell BY <2>4 DEF MouseCell
  <2>7. \A a \in Cells : a \in Memory BY MemoryFacts
  <2>8. \A a \in Cells : con'.cell[a].color[2] # 0 <=> a = MouseCell /\ con'.cell[a] # Cleared
    <3>1. Cleared.color[2] = 0 BY CellsTyped
    <3>q. QED BY <2>3, <2>5, <2>7, <3>1 DEF NoInverse, Inverse
  <2>9. \A a \in Cells : con'.cell[a].color[2] # 0 <=> a = MouseCell' /\ con'.cell[a] # Cleared
    BY <2>6, <2>8
  <2>q. QED BY <2>4, <2>9 DEF Pointed, MouseShown
<1>7. CASE Access
  <2>1. AccessDoes /\ UNCHANGED <<mouse, stage>> BY <1>7, AccessFacts
  <2>2. CASE ScrollCellDoes
    <3>1. CASE stage = "boot"
      <4>1. /\ con'.cell = [con.cell EXCEPT ![main.temp] = con.cell[main.temp + Width],
                                            ![main.temp + Width] = Cleared]
        BY <2>2 DEF ScrollCellDoes
      <4>2. main.temp \in Nat /\ main.temp < Width * (Height - 1)
        BY <2>2 DEF ScrollCellDoes, Sound, Bounded, TypeOK, MainTyped
      <4>3. main.temp + Width \in Cells /\ main.temp \in Cells
        <5> DEFINE w == Width * (Height - 1)
                   v == Width * Height
        <5>1. w \in Nat /\ v = w + Width /\ main.temp < w /\ Cells = 0 .. (v - 1) /\ Width \in Nat
          BY <4>2, Sizes, MemoryFacts
        <5> HIDE DEF w, v
        <5>q. QED BY <4>2, <5>1
      <4> DEFINE i == main.temp
                 j == main.temp + Width
                 from == con.cell[j]
      <4>4. con.cell \in [Memory -> Cell] /\ i \in Memory /\ j \in Memory
        BY <1>1, <4>3, MemoryFacts DEF Consoles
      <4>5. NoInverse(con.cell) BY <3>1 DEF Pointed
      <4>6. ~Inverse(from) /\ ~Inverse(Cleared)
        BY <4>3, <4>5, CellsTyped DEF NoInverse, Inverse
      <4> HIDE DEF i, j, from
      <4>7. con'.cell = [con.cell EXCEPT ![i] = from, ![j] = Cleared]
        BY <4>1 DEF i, j, from
      <4>8. \A a \in Cells : con'.cell[a] = IF a = j THEN Cleared ELSE IF a = i THEN from
                                            ELSE con.cell[a]
        BY <4>4, <4>7, MemoryFacts
      <4>9. \A a \in Cells : ~Inverse(con'.cell[a])
        BY <4>5, <4>6, <4>8 DEF NoInverse
      <4>q. QED BY <2>1, <3>1, <4>9 DEF Pointed, NoInverse
    <3>2. CASE stage # "boot"
      <4>1. ghost' = TRUE BY <2>2 DEF ScrollCellDoes
      <4>q. QED BY <2>1, <3>2, <4>1 DEF Pointed, MouseShown
    <3>q. QED BY <3>1, <3>2
  <2>3. CASE WriteDoes
    <3> DEFINE e == [char |-> main.char, color |-> LightGrey]
    <3>1. /\ ghost' = (ghost \/ con.index = MouseCell)
          /\ con'.cell = [con.cell EXCEPT ![con.index] = e]
      BY <2>3 DEF WriteDoes
    <3>2. con.cell \in [Memory -> Cell] /\ con.index \in Memory /\ main.char \in Chars
      BY <1>1 DEF Consoles, Sound, TypeOK, MainTyped
    <3>3. CASE stage = "boot"
      <4>1. NoInverse(con.cell) BY <3>3 DEF Pointed
      <4>2. NoInverse(con'.cell) BY <3>1, <3>2, <4>1, WrittenInverse
      <4>q. QED BY <2>1, <3>3, <4>2 DEF Pointed, NoInverse
    <3>4. CASE stage # "boot"
      <4>1. SUFFICES ASSUME ~ghost'
                     PROVE  \A a \in Cells : con'.cell[a].color[2] # 0
                                        <=> a = MouseCell /\ con'.cell[a] # Cleared
        <5>1. MouseCell' = MouseCell BY <2>1 DEF MouseCell
        <5>q. QED BY <2>1, <3>4, <5>1 DEF Pointed, MouseShown
      <4>2. ~ghost /\ con.index # MouseCell BY <3>1, <4>1
      <4>3. \A a \in Cells : con.cell[a].color[2] # 0 <=> a = MouseCell /\ con.cell[a] # Cleared
        BY <3>4, <4>2 DEF Pointed, MouseShown
      <4>4. e.color[2] = 0
        <5>1. e.color = LightGrey OBVIOUS
        <5>q. QED BY <5>1, CellsTyped
      <4> HIDE DEF e
      <4>5. \A a \in Cells : con'.cell[a] = IF a = con.index THEN e ELSE con.cell[a]
        BY <3>1, <3>2, MemoryFacts
      <4>q. QED BY <4>2, <4>3, <4>4, <4>5
    <3>q. QED BY <3>3, <3>4
  <2>4. CASE ~ScrollCellDoes /\ ~WriteDoes
    <3>1. con'.cell = con.cell /\ ghost' = ghost
      BY <2>1, <2>4 DEF AccessDoes, MakeRoomDoes, ClampYDoes, ClampXDoes, LoadYDoes, StoreYDoes,
         ClearXDoes, RowDoes, ColumnDoes, LoadXDoes, StoreXDoes, WrapDoes
    <3>q. QED BY <1>2, <2>1, <3>1
  <2>q. QED BY <2>2, <2>3, <2>4
<1>q. QED BY <1>3, <1>4, <1>5, <1>6, <1>7 DEF Main, Access

LEMMA PointedInterrupt ==
  ASSUME Sound, Pointed, Interrupt
  PROVE  Pointed'
<1>1. /\ con \in Consoles /\ mouse \in [x : 0 .. (Width - 1), y : 0 .. (Height - 1)]
  BY DEF Sound, TypeOK
<1>2. MouseCell \in Cells BY <1>1, InvertTyped DEF MouseCell
<1>3. CASE Prints
  <2>1. PICK ops \in Seq(Op) : Backed(ops) /\ HandlerPrints(ops) BY <1>3 DEF Prints
  <2>2. stage = "on" BY <2>1 DEF HandlerPrints
  <2>3. /\ con' = RunUpTo(con, ops)[Len(ops)]
        /\ UNCHANGED <<mouse, stage>>
        /\ ~ghost' => ~ghost /\ con'.cell[MouseCell] = con.cell[MouseCell]
    BY <2>1, PrintsFacts
  <2>4. MouseCell' = MouseCell BY <2>3 DEF MouseCell
  <2>5. SUFFICES ASSUME ~ghost'
                 PROVE  \A a \in Cells : con'.cell[a].color[2] # 0
                                    <=> a = MouseCell /\ con'.cell[a] # Cleared
    BY <2>2, <2>3, <2>4 DEF Pointed, MouseShown
  <2>6. \A a \in Cells : con.cell[a].color[2] # 0 <=> a = MouseCell /\ con.cell[a] # Cleared
    BY <2>2, <2>3, <2>5 DEF Pointed, MouseShown
  <2>7. con'.cell[MouseCell] = con.cell[MouseCell] BY <2>3, <2>5
  <2>8. OneInverse(con.cell) BY <2>6 DEF OneInverse, Inverse
  <2>9. OneInverse(con'.cell) /\ (NoInverse(con.cell) => NoInverse(con'.cell))
    BY <1>1, <2>3, <2>8, RunInverse
  <2>10. CASE Inverse(con.cell[MouseCell])
    <3>1. \A a \in Cells : Inverse(con'.cell[a]) <=> a = MouseCell
      BY <1>2, <2>7, <2>9, <2>10 DEF OneInverse
    <3>2. con'.cell[MouseCell] # Cleared
      BY <1>2, <2>6, <2>7, <2>10 DEF Inverse
    <3>q. QED BY <3>1, <3>2 DEF Inverse
  <2>11. CASE ~Inverse(con.cell[MouseCell])
    <3>1. con.cell[MouseCell] = Cleared BY <1>2, <2>6, <2>11 DEF Inverse
    <3>2. NoInverse(con.cell) BY <2>6, <2>11 DEF NoInverse, Inverse
    <3>3. NoInverse(con'.cell) BY <2>9, <3>2
    <3>q. QED BY <2>7, <3>1, <3>3 DEF NoInverse, Inverse
  <2>q. QED BY <2>10, <2>11
<1>4. CASE \E d \in Moves : OnMouseMove(d)
  <2>1. PICK d \in Moves : OnMouseMove(d) BY <1>4
  <2>2. stage = "on" BY <2>1 DEF OnMouseMove
  <2> DEFINE c == [con EXCEPT !.cell = Invert(@, mouse)]
             n == Invert(con.cell, mouse)
             i == Width * mouse.y + mouse.x
             j == Width * mouse'.y + mouse'.x
  <2>3. /\ mouse' \in [x : 0 .. (Width - 1), y : 0 .. (Height - 1)]
        /\ con'.cell = Invert(n, mouse')
        /\ UNCHANGED <<stage, ghost>>
    BY <2>1, MovesFacts
  <2>4. /\ i \in Cells /\ c \in Consoles /\ c.cell = n
        /\ \A a \in Memory : a # i => n[a] = con.cell[a]
        /\ con.cell[i] = Cleared => n[i] = Cleared
        /\ con.cell[i] # Cleared =>
             n[i] # Cleared /\ (n[i].color[2] # 0 <=> con.cell[i].color[2] = 0)
    BY <1>1, InvertTyped
  <2> HIDE DEF c, n
  <2>5. /\ j \in Cells
        /\ \A a \in Memory : a # j => con'.cell[a] = n[a]
        /\ n[j] = Cleared => con'.cell[j] = Cleared
        /\ n[j] # Cleared =>
             con'.cell[j] # Cleared /\ (con'.cell[j].color[2] # 0 <=> n[j].color[2] = 0)
    <3> DEFINE m == mouse'
               o == Invert(c.cell, m)
               k == Width * m.y + m.x
    <3> HIDE DEF m
    <3>1. m \in [x : 0 .. (Width - 1), y : 0 .. (Height - 1)] BY <2>3 DEF m
    <3>2. /\ k \in Cells
          /\ \A a \in Memory : a # k => o[a] = c.cell[a]
          /\ c.cell[k] = Cleared => o[k] = Cleared
          /\ c.cell[k] # Cleared =>
               o[k] # Cleared /\ (o[k].color[2] # 0 <=> c.cell[k].color[2] = 0)
      BY <2>4, <3>1, InvertTyped
    <3>3. con'.cell = o /\ c.cell = n BY <2>3, <2>4 DEF m
    <3>4. k = j BY DEF m
    <3> HIDE DEF o, k, j
    <3>q. QED BY <3>2, <3>3, <3>4
  <2>6. MouseCell = i /\ MouseCell' = j BY DEF MouseCell
  <2> HIDE DEF i, j
  <2>7. SUFFICES ASSUME ~ghost
                 PROVE  \A a \in Cells : con'.cell[a].color[2] # 0
                                    <=> a = j /\ con'.cell[a] # Cleared
    BY <2>2, <2>3, <2>6 DEF Pointed, MouseShown
  <2>8. \A a \in Cells : con.cell[a].color[2] # 0 <=> a = i /\ con.cell[a] # Cleared
    BY <2>2, <2>6, <2>7 DEF Pointed, MouseShown
  <2>9. Cleared.color[2] = 0 /\ \A a \in Cells : a \in Memory BY CellsTyped, MemoryFacts
  <2>10. \A a \in Cells : n[a].color[2] = 0
    BY <2>4, <2>8, <2>9
  <2>q. QED BY <2>5, <2>9, <2>10
<1>q. QED BY <1>3, <1>4, InterruptCases

\* The cell under the mouse, and no other, is inverted, until something is
\* printed over it or the screen moves under it: MouseToConsole's OnMouseMove
\* takes back exactly what it or its constructor inverted.
THEOREM MouseIsShown == Spec => []MouseShown
<1>1. Init => Sound /\ Pointed BY InitSound, PointedInit
<1>2. Sound /\ Pointed /\ [Next]_vars => (Sound /\ Pointed)'
  <2> SUFFICES ASSUME Sound, Pointed, [Next]_vars PROVE Sound' /\ Pointed'
    OBVIOUS
  <2>1. CASE UNCHANGED vars
    <3>1. UNCHANGED <<con, mouse, stage, ghost>> BY <2>1 DEF vars
    <3>q. QED BY <2>1, <3>1, NextKeepsSound DEF Pointed, MouseShown, MouseCell, NoInverse
  <2>q. QED BY <2>1, NextKeepsSound, PointedMain, PointedInterrupt DEF Next
<1>3. Pointed => MouseShown BY DEF Pointed, MouseShown
<1>q. QED BY <1>1, <1>2, <1>3, PTL DEF Spec

----------------------------------------------------------------------------
\* The digits of printfHex.

\* After the first n operations every digit still to be shown is in its place,
\* or will be stored there.
Ready(ops, n, foo) ==
  \A i \in (n + 1) .. Len(ops) : ops[i].op = "show" =>
    \/ foo[ops[i].at] = ops[i].char
    \/ \E j \in (n + 1) .. (i - 1) : ops[j] = Store(ops[i].at, ops[i].char)

\* The literal after an operation.
Literal(foo, o) == IF o.op = "store" THEN [foo EXCEPT ![o.at] = o.char] ELSE foo

LEMMA OpParts ==
  ASSUME NEW o \in Op
  PROVE  /\ o.op \in {"put", "store", "show"} /\ o.char \in Chars
         /\ o.op # "put" => o.at \in 1 .. 2
         /\ o.op = "store" => o = Store(o.at, o.char)
         /\ \A i, c : o = Store(i, c) => o.op = "store" /\ o.at = i /\ o.char = c
  BY DEF Op, Store

LEMMA ReadyFirst ==
  ASSUME NEW ops \in Seq(Op), Backed(ops), NEW foo
  PROVE  Ready(ops, 0, foo)
<1>1. \A i \in (0 + 1) .. Len(ops) : i \in 1 .. Len(ops) /\ (0 + 1) .. (i - 1) = 1 .. (i - 1)
  OBVIOUS
<1>q. QED BY <1>1 DEF Ready, Backed

\* The next operation finds its digit, and leaves the others ready.
LEMMA ReadyNext ==
  ASSUME NEW ops \in Seq(Op), Backed(ops), NEW n \in 0 .. (Len(ops) - 1),
         NEW foo \in [1 .. 2 -> Chars], Ready(ops, n, foo)
  PROVE  LET o == ops[n + 1]
         IN /\ o \in Op
            /\ o.op = "show" => foo[o.at] = o.char
            /\ Ready(ops, n + 1, Literal(foo, o))
            /\ Literal(foo, o) \in [1 .. 2 -> Chars]
<1> DEFINE o == ops[n + 1]
           next == Literal(foo, o)
<1>l. Len(ops) \in Nat /\ n \in Nat /\ n + 1 \in 1 .. Len(ops) OBVIOUS
<1>1. o \in Op BY <1>l
<1>2. /\ o.op \in {"put", "store", "show"} /\ o.char \in Chars /\ (o.op # "put" => o.at \in 1 .. 2)
  BY <1>1, OpParts
<1>3. ASSUME o.op = "show" PROVE foo[o.at] = o.char
  <2>1. n + 1 \in (n + 1) .. Len(ops) /\ (n + 1) .. ((n + 1) - 1) = {} BY <1>l
  <2>q. QED BY <1>3, <2>1 DEF Ready
<1>4. next \in [1 .. 2 -> Chars]
  <2> HIDE DEF o
  <2>q. QED BY <1>2 DEF Literal
<1>5. ASSUME NEW i \in ((n + 1) + 1) .. Len(ops), ops[i].op = "show"
      PROVE  \/ next[ops[i].at] = ops[i].char
             \/ \E j \in ((n + 1) + 1) .. (i - 1) : ops[j] = Store(ops[i].at, ops[i].char)
  <2> DEFINE p == ops[i]
  <2>1. i \in (n + 1) .. Len(ops) /\ i \in 1 .. Len(ops) BY <1>l
  <2>2. p \in Op BY <2>1
  <2>3. p.at \in 1 .. 2 /\ p.char \in Chars
    <3> HIDE DEF p
    <3>1. p.op = "show" BY <1>5 DEF p
    <3>q. QED BY <2>2, <3>1, OpParts
  <2>4. PICK b \in 1 .. (i - 1) :
          /\ ops[b] = Store(p.at, p.char)
          /\ \A m \in (b + 1) .. (i - 1) : ~(ops[m].op = "store" /\ ops[m].at = p.at)
    BY <1>5, <2>1 DEF Backed
  <2>5. b \in 1 .. Len(ops) /\ b \in Int BY <1>l, <2>1
  <2>6. ops[b] \in Op BY <2>5
  <2>7. ops[b].op = "store" /\ ops[b].at = p.at /\ ops[b].char = p.char BY <2>4, <2>6, OpParts
  <2>8. CASE b > n + 1
    <3>1. b \in ((n + 1) + 1) .. (i - 1) BY <1>l, <2>1, <2>5, <2>8
    <3>q. QED BY <2>4, <3>1
  <2>9. CASE b = n + 1
    <3>1. o.op = "store" /\ o.at = p.at /\ o.char = p.char BY <2>7, <2>9
    <3> HIDE DEF o, p
    <3>2. next[p.at] = p.char BY <2>3, <3>1 DEF Literal
    <3>q. QED BY <3>2 DEF p
  <2>10. CASE b < n + 1
    <3>1. n + 1 \in (b + 1) .. (i - 1) BY <1>l, <2>1, <2>5, <2>10
    <3>2. ~(o.op = "store" /\ o.at = p.at) BY <2>4, <3>1
    <3>3. \A j \in (n + 1) .. (i - 1) : ops[j] # Store(p.at, p.char)
      <4>1. TAKE j \in (n + 1) .. (i - 1)
      <4>2. j \in (b + 1) .. (i - 1) /\ j \in 1 .. Len(ops) BY <1>l, <2>1, <2>5, <2>10
      <4>3. ops[j] \in Op BY <4>2
      <4>4. ~(ops[j].op = "store" /\ ops[j].at = p.at) BY <2>4, <4>2
      <4>q. QED BY <4>3, <4>4, OpParts
    <3>4. foo[p.at] = p.char BY <1>5, <2>1, <3>3 DEF Ready
    <3> HIDE DEF o, p
    <3>5. next[p.at] = foo[p.at] BY <1>2, <2>3, <3>2 DEF Literal
    <3>q. QED BY <3>4, <3>5 DEF p
  <2>q. QED BY <1>l, <2>5, <2>8, <2>9, <2>10
<1>6. Ready(ops, n + 1, next) BY <1>5 DEF Ready
<1>q. QED BY <1>1, <1>3, <1>4, <1>6

----------------------------------------------------------------------------
\* Numbers read back.

\* The operations after the first n are left.
Left(ops, n) ==
  /\ n \in 0 .. Len(ops) /\ Len(main.ops) = Len(ops) - n
  /\ \A i \in 1 .. Len(main.ops) : main.ops[i] = ops[n + i]

\* kernel_main has done the first n operations of ops.
DoneOf(ops, n) ==
  /\ Backed(ops) /\ Left(ops, n)
  /\ said.letter \in Letters =>
       ops = Converted(said.letter, said.arg) /\ Matches(said.letter, said.arg)
  /\ OnlyPuts(ops) \/ ~torn => said.chars = CharactersUpTo(ops)[n]
  /\ ~torn => Ready(ops, n, con.foo)

Converting == \E ops \in Seq(Op) : \E n \in 0 .. Len(ops) : DoneOf(ops, n)

LEMMA ConvertingInit == Init => Converting
<1> SUFFICES ASSUME Init PROVE Converting
  OBVIOUS
<1> DEFINE none == <<>>
<1>1. none \in Seq(Op) /\ Len(none) = 0 /\ 0 \in 0 .. Len(none) OBVIOUS
<1>2. Backed(none) BY DEF Backed
<1>3. main.ops = none
  <2> HIDE DEF none
  <2>1. PICK p \in Programs :
          main = [calls |-> p, format |-> none, args |-> none, ops |-> none,
                  pc |-> "next", char |-> " ", temp |-> 0]
    BY DEF Init, none
  <2>q. QED BY <2>1
<1>4. said.chars = none /\ said.letter = " " BY DEF Init
<1>5. " " \notin Letters BY DEF Letters
<1> HIDE DEF none
<1>6. CharactersUpTo(none)[0] = <<>> BY <1>1, CharactersSteps
<1>7. Ready(none, 0, con.foo) BY <1>1, <1>2, ReadyFirst
<1>8. Left(none, 0) BY <1>1, <1>3 DEF Left
<1>9. DoneOf(none, 0) BY <1>2, <1>4, <1>5, <1>6, <1>7, <1>8 DEF DoneOf, none
<1>q. QED BY <1>1, <1>9 DEF Converting

\* Where kernel_main's operations and the literal stay.
LEMMA ConvertingSame ==
  ASSUME Converting, main'.ops = main.ops, UNCHANGED said, torn \in BOOLEAN,
         ~torn' => ~torn /\ (con'.foo = con.foo \/ ~Tears(con'))
  PROVE  Converting'
<1>1. PICK ops \in Seq(Op) : \E n \in 0 .. Len(ops) : DoneOf(ops, n) BY DEF Converting
<1>2. PICK n \in 0 .. Len(ops) : DoneOf(ops, n) BY <1>1
<1>3. Left(ops, n)' BY <1>2 DEF DoneOf, Left
<1>4. ASSUME ~torn' PROVE Ready(ops, n, con'.foo)
  <2>1. CASE con'.foo = con.foo BY <1>2, <1>4, <2>1 DEF DoneOf
  <2>2. CASE ~Tears(con')
    <3> DEFINE foo == con'.foo
    <3>1. \A i \in 1 .. Len(main.ops) :
            main.ops[i].op = "show" /\ foo[main.ops[i].at] # main.ops[i].char =>
              \E j \in 1 .. (i - 1) : main.ops[j] = Store(main.ops[i].at, main.ops[i].char)
      BY <2>2 DEF Tears
    <3> HIDE DEF foo
    <3>2. /\ n \in Nat /\ Len(ops) \in Nat /\ Len(main.ops) = Len(ops) - n
          /\ \A i \in 1 .. Len(main.ops) : main.ops[i] = ops[n + i]
      BY <1>2 DEF DoneOf, Left
    <3>3. ASSUME NEW i \in (n + 1) .. Len(ops), ops[i].op = "show", foo[ops[i].at] # ops[i].char
          PROVE  \E j \in (n + 1) .. (i - 1) : ops[j] = Store(ops[i].at, ops[i].char)
      <4>1. i - n \in 1 .. Len(main.ops) /\ n + (i - n) = i BY <3>2
      <4>2. main.ops[i - n] = ops[i] BY <3>2, <4>1
      <4>3. PICK j \in 1 .. ((i - n) - 1) : main.ops[j] = Store(ops[i].at, ops[i].char)
        BY <3>1, <3>3, <4>1, <4>2
      <4>4. n + j \in (n + 1) .. (i - 1) /\ j \in 1 .. Len(main.ops) BY <3>2, <4>1
      <4>5. main.ops[j] = ops[n + j] BY <3>2, <4>4
      <4>q. QED BY <4>3, <4>4, <4>5
    <3>4. Ready(ops, n, foo) BY <3>3 DEF Ready
    <3>q. QED BY <3>4 DEF foo
  <2>q. QED BY <1>4, <2>1, <2>2
<1>5. DoneOf(ops, n)' BY <1>2, <1>3, <1>4 DEF DoneOf
<1>q. QED BY <1>5 DEF Converting

\* kernel_main's next operation.
LEMMA LeftNext ==
  ASSUME Sound, Converting, main.ops # <<>>
  PROVE  \E ops \in Seq(Op) : \E n \in 0 .. (Len(ops) - 1) :
           /\ DoneOf(ops, n) /\ main.ops[1] = ops[n + 1] /\ main.ops[1] \in Op
           /\ main'.ops = Tail(main.ops) => Left(ops, n + 1)'
<1>1. PICK ops \in Seq(Op) : \E n \in 0 .. Len(ops) : DoneOf(ops, n) BY DEF Converting
<1>2. PICK n \in 0 .. Len(ops) : DoneOf(ops, n) BY <1>1
<1>3. main.ops \in Seq(Op) BY DEF Sound, TypeOK, MainTyped
<1>4. /\ main.ops[1] \in Op /\ Tail(main.ops) \in Seq(Op)
      /\ Len(main.ops) \in Nat /\ Len(main.ops) > 0 /\ Len(Tail(main.ops)) = Len(main.ops) - 1
      /\ \A i \in 1 .. Len(Tail(main.ops)) : Tail(main.ops)[i] = main.ops[i + 1]
  BY <1>3, TailFacts
<1>5. /\ n \in Nat /\ Len(ops) \in Nat /\ Len(main.ops) = Len(ops) - n
      /\ \A i \in 1 .. Len(main.ops) : main.ops[i] = ops[n + i]
  BY <1>2 DEF DoneOf, Left
<1>6. n \in 0 .. (Len(ops) - 1) /\ 1 \in 1 .. Len(main.ops) BY <1>4, <1>5
<1>7. main.ops[1] = ops[n + 1] BY <1>5, <1>6
<1>8. ASSUME main'.ops = Tail(main.ops) PROVE Left(ops, n + 1)'
  <2> DEFINE t == Tail(main.ops)
  <2> HIDE DEF t
  <2>1. n + 1 \in 0 .. Len(ops) /\ Len(t) = Len(ops) - (n + 1) BY <1>4, <1>5, <1>6 DEF t
  <2>2. ASSUME NEW i \in 1 .. Len(t) PROVE t[i] = ops[(n + 1) + i]
    <3>1. i + 1 \in 1 .. Len(main.ops) /\ n + (i + 1) = (n + 1) + i BY <1>4, <1>5 DEF t
    <3>2. main.ops[i + 1] = ops[n + (i + 1)] BY <1>5, <3>1
    <3>q. QED BY <1>4, <3>1, <3>2 DEF t
  <2>3. main'.ops = t BY <1>8 DEF t
  <2>q. QED BY <2>1, <2>2, <2>3 DEF Left
<1>q. QED BY <1>2, <1>4, <1>6, <1>7, <1>8

LEMMA ConvertingMain ==
  ASSUME Sound, Converting, Main
  PROVE  Converting'
<1>1. /\ con \in Consoles /\ con.foo \in [1 .. 2 -> Chars] /\ torn \in BOOLEAN
      /\ main \in MainSet
      /\ said \in [letter : Letters \cup {" "}, arg : Args \cup {0}, chars : Seq(Chars)]
  BY DEF Sound, TypeOK, MainTyped, Consoles, MainSet
<1>2. CASE Call \/ ConstructMouse \/ Activate
  <2>1. main'.ops = main.ops /\ con'.foo = con.foo /\ UNCHANGED <<said, torn>>
    BY <1>1, <1>2 DEF Call, ConstructMouse, Activate, Consoles, MainSet
  <2>q. QED BY <1>1, <2>1, ConvertingSame
<1>3. CASE Access
  <2>1. main'.ops = main.ops /\ con'.foo = con.foo /\ UNCHANGED <<said, torn>>
    BY <1>3, AccessFacts DEF SameCall
  <2>q. QED BY <1>1, <2>1, ConvertingSame
<1>4. CASE Convert
  <2> DEFINE it == Iteration(main.format, main.args)
             ops == it.ops
  <2>1. main.format # <<>> /\ main' = [main EXCEPT !.format = it.format, !.args = it.args, !.ops = it.ops]
    BY <1>4 DEF Convert
  <2>2. Underway(main.format, main.args) BY <2>1 DEF Sound, TypeOK, MainTyped
  <2>3. /\ ops \in Seq(Op) /\ Backed(ops)
        /\ Conversion(main.format) => /\ Matches(main.format[2], main.args[1])
                                      /\ ops = Converted(main.format[2], main.args[1])
    <3> DEFINE format == main.format
               args == main.args
    <3> HIDE DEF format, args
    <3>1. Underway(format, args) /\ format # <<>> BY <2>1, <2>2 DEF format, args
    <3>2. LET i == Iteration(format, args)
          IN /\ i.ops \in Seq(Op) /\ Backed(i.ops)
             /\ Conversion(format) => /\ Matches(format[2], args[1])
                                      /\ i.ops = Converted(format[2], args[1])
      BY <3>1, UnderwayStep
    <3>q. QED BY <3>2 DEF format, args
  <2>4. main'.ops = ops BY <1>1, <2>1 DEF MainSet
  <2>5. said'.chars = <<>> /\ (said'.letter \in Letters =>
          Conversion(main.format) /\ said'.letter = main.format[2] /\ said'.arg = main.args[1])
    <3>1. CASE Conversion(main.format)
      <4>1. said' = [letter |-> main.format[2], arg |-> main.args[1], chars |-> <<>>]
        BY <1>4, <3>1 DEF Convert
      <4>q. QED BY <3>1, <4>1
    <3>2. CASE ~Conversion(main.format)
      <4>1. said' = [letter |-> " ", arg |-> 0, chars |-> <<>>] BY <1>4, <3>2 DEF Convert
      <4>2. " " \notin Letters BY DEF Letters
      <4>q. QED BY <4>1, <4>2
    <3>q. QED BY <3>1, <3>2
  <2>a. PICK full \in Seq(Op) : full = ops BY <2>3
  <2> HIDE DEF it, ops
  <2>b. /\ Backed(full)
        /\ Conversion(main.format) => /\ Matches(main.format[2], main.args[1])
                                      /\ full = Converted(main.format[2], main.args[1])
    BY <2>3, <2>a
  <2>6. CharactersUpTo(full)[0] = <<>> BY CharactersSteps
  <2>7. Ready(full, 0, con'.foo) BY <2>b, ReadyFirst
  <2>8. 0 \in 0 .. Len(full) /\ Len(full) = Len(full) - 0 /\ \A i \in 1 .. Len(full) : 0 + i = i
    OBVIOUS
  <2>9. Left(full, 0)' BY <2>4, <2>8, <2>a DEF Left
  <2>10. DoneOf(full, 0)' BY <2>b, <2>5, <2>6, <2>7, <2>9 DEF DoneOf
  <2>q. QED BY <2>8, <2>10 DEF Converting
<1>5. CASE StoreDigit \/ PutChar
  <2>1. main.ops # <<>> BY <1>5 DEF StoreDigit, PutChar
  <2>2. PICK ops \in Seq(Op) : \E n \in 0 .. (Len(ops) - 1) :
          /\ DoneOf(ops, n) /\ main.ops[1] = ops[n + 1] /\ main.ops[1] \in Op
          /\ main'.ops = Tail(main.ops) => Left(ops, n + 1)'
    BY <2>1, LeftNext
  <2>3. PICK n \in 0 .. (Len(ops) - 1) :
          /\ DoneOf(ops, n) /\ main.ops[1] = ops[n + 1] /\ main.ops[1] \in Op
          /\ main'.ops = Tail(main.ops) => Left(ops, n + 1)'
    BY <2>2
  <2> DEFINE o == main.ops[1]
  <2>4. main'.ops = Tail(main.ops)
    <3>1. CASE StoreDigit
      <4>1. main' = [main EXCEPT !.ops = Tail(@)] BY <3>1 DEF StoreDigit
      <4>q. QED BY <1>1, <4>1 DEF MainSet
    <3>2. CASE PutChar
      <4> DEFINE c == IF o.op = "show" THEN con.foo[o.at] ELSE o.char
      <4>1. main' = [main EXCEPT !.ops = Tail(@), !.char = c, !.pc = "room"] BY <3>2 DEF PutChar
      <4> HIDE DEF c
      <4>q. QED BY <1>1, <4>1 DEF MainSet
    <3>q. QED BY <1>5, <3>1, <3>2
  <2>5. n + 1 \in 0 .. Len(ops) /\ n + 1 \in 1 .. Len(ops) /\ (n + 1) - 1 = n OBVIOUS
  <2>6. CharactersUpTo(ops)[n + 1] = IF o.op = "store" THEN CharactersUpTo(ops)[n]
                                     ELSE Append(CharactersUpTo(ops)[n], o.char)
    <3>1. CharactersUpTo(ops)[n + 1] =
            IF ops[n + 1].op = "store" THEN CharactersUpTo(ops)[(n + 1) - 1]
            ELSE Append(CharactersUpTo(ops)[(n + 1) - 1], ops[n + 1].char)
      BY <2>5, CharactersSteps
    <3>q. QED BY <2>3, <2>5, <3>1
  <2>7. ~torn => /\ o.op = "show" => con.foo[o.at] = o.char
                 /\ Ready(ops, n + 1, Literal(con.foo, o))
    <3>1. SUFFICES ASSUME ~torn
                   PROVE  /\ o.op = "show" => con.foo[o.at] = o.char
                          /\ Ready(ops, n + 1, Literal(con.foo, o))
      OBVIOUS
    <3> DEFINE foo == con.foo
    <3>2. Backed(ops) /\ Ready(ops, n, foo) /\ foo \in [1 .. 2 -> Chars]
      BY <1>1, <2>3, <3>1 DEF DoneOf
    <3> HIDE DEF foo
    <3>3. /\ ops[n + 1].op = "show" => foo[ops[n + 1].at] = ops[n + 1].char
          /\ Ready(ops, n + 1, Literal(foo, ops[n + 1]))
      BY <3>2, ReadyNext
    <3>q. QED BY <2>3, <3>3 DEF foo
  <2>8. /\ Backed(ops)
        /\ said.letter \in Letters =>
             ops = Converted(said.letter, said.arg) /\ Matches(said.letter, said.arg)
        /\ OnlyPuts(ops) \/ ~torn => said.chars = CharactersUpTo(ops)[n]
    BY <2>3 DEF DoneOf
  <2>9. torn' = torn BY <1>5 DEF StoreDigit, PutChar
  <2>10. con'.foo = Literal(con.foo, o)
    <3>1. CASE StoreDigit
      <4> DEFINE i == o.at
                 c == o.char
      <4>1. o.op = "store" /\ con' = [con EXCEPT !.foo[i] = c] BY <3>1 DEF StoreDigit
      <4> HIDE DEF i, c
      <4>2. con'.foo = [con.foo EXCEPT ![i] = c] BY <1>1, <4>1 DEF Consoles
      <4>q. QED BY <4>1, <4>2 DEF Literal, i, c
    <3>2. CASE PutChar
      <4>1. con' = con /\ o.op # "store" BY <3>2 DEF PutChar
      <4>q. QED BY <4>1 DEF Literal
    <3>q. QED BY <1>5, <3>1, <3>2
  <2>11. /\ said'.letter = said.letter /\ said'.arg = said.arg
         /\ OnlyPuts(ops) \/ ~torn => said'.chars = CharactersUpTo(ops)[n + 1]
    <3>1. CASE StoreDigit
      <4>1. said' = said /\ o.op = "store" BY <3>1 DEF StoreDigit
      <4>q. QED BY <2>6, <2>8, <4>1
    <3>2. CASE PutChar
      <4> DEFINE c == IF o.op = "show" THEN con.foo[o.at] ELSE o.char
      <4>1. said' = [said EXCEPT !.chars = Append(@, c)] /\ o.op # "store" BY <3>2 DEF PutChar
      <4>2. OnlyPuts(ops) \/ ~torn => c = o.char
        <5>1. CASE ~torn BY <2>7, <5>1
        <5>2. CASE OnlyPuts(ops)
          <6>1. o.op = "put" BY <2>3, <2>5, <5>2 DEF OnlyPuts
          <6>q. QED BY <6>1
        <5>q. QED BY <5>1, <5>2
      <4> HIDE DEF c, o
      <4>3. /\ said'.letter = said.letter /\ said'.arg = said.arg
            /\ said'.chars = Append(said.chars, c)
        BY <1>1, <4>1
      <4>q. QED BY <2>6, <2>8, <4>1, <4>2, <4>3
    <3>q. QED BY <1>5, <3>1, <3>2
  <2>12. Left(ops, n + 1)' BY <2>3, <2>4
  <2> HIDE DEF o
  <2>13. DoneOf(ops, n + 1)' BY <2>7, <2>8, <2>9, <2>10, <2>11, <2>12 DEF DoneOf
  <2>q. QED BY <2>5, <2>13 DEF Converting
<1>q. QED BY <1>2, <1>3, <1>4, <1>5 DEF Main, Access

LEMMA ConvertingInterrupt ==
  ASSUME Sound, Converting, Interrupt
  PROVE  Converting'
<1>1. torn \in BOOLEAN BY DEF Sound, TypeOK
<1>2. CASE Prints
  <2>1. PICK ops \in Seq(Op) : Backed(ops) /\ HandlerPrints(ops) BY <1>2 DEF Prints
  <2>2. UNCHANGED <<main, said>> /\ (~torn' => ~torn /\ ~Tears(con')) BY <2>1, PrintsFacts
  <2>q. QED BY <1>1, <2>2, ConvertingSame
<1>3. CASE \E d \in Moves : OnMouseMove(d)
  <2>1. PICK d \in Moves : OnMouseMove(d) BY <1>3
  <2>2. UNCHANGED <<main, said, torn>> /\ con'.foo = con.foo BY <2>1, MovesFacts
  <2>q. QED BY <1>1, <2>2, ConvertingSame
<1>q. QED BY <1>2, <1>3, InterruptCases

\* printf's numbers: for every int that is not negative the characters
\* kernel_main sent to the screen are the numeral of the argument, shortest in
\* decimal and for %b, of full width for %B, whatever handlers print meanwhile;
\* for every other word %u sends the last digits of its numeral, for uint2char
\* counts them on an int; and for every word hexadecimal output is the numeral
\* of full width, in a run in which no handler has printed in one of the places
\* Tears names.  Negative ints, of which int2char's digits are no digits, are
\* left out.
THEOREM NumbersCorrect == Spec => []NumbersReadBack
<1>1. Init => Sound /\ Converting BY InitSound, ConvertingInit
<1>2. Sound /\ Converting /\ [Next]_vars => (Sound /\ Converting)'
  <2> SUFFICES ASSUME Sound, Converting, [Next]_vars PROVE Sound' /\ Converting'
    OBVIOUS
  <2>1. CASE UNCHANGED vars
    <3>1. UNCHANGED <<con, main, said, torn>> BY <2>1 DEF vars
    <3>2. torn \in BOOLEAN BY DEF Sound, TypeOK
    <3>q. QED BY <2>1, <3>1, <3>2, NextKeepsSound, ConvertingSame
  <2>q. QED BY <2>1, NextKeepsSound, ConvertingMain, ConvertingInterrupt DEF Next
<1>3. Sound /\ Converting => NumbersReadBack
  <2> SUFFICES ASSUME Converting, main.ops = <<>>, said.letter \in Letters
               PROVE  NumbersReadBack
    BY DEF NumbersReadBack, Letters
  <2>1. PICK ops \in Seq(Op) : \E n \in 0 .. Len(ops) : DoneOf(ops, n) BY DEF Converting
  <2>2. PICK n \in 0 .. Len(ops) : DoneOf(ops, n) BY <2>1
  <2>3. n = Len(ops)
    <3>1. Len(main.ops) = 0 OBVIOUS
    <3>2. Len(main.ops) = Len(ops) - n /\ n \in Nat /\ Len(ops) \in Nat
      BY <2>2 DEF DoneOf, Left
    <3>q. QED BY <3>1, <3>2
  <2> DEFINE letter == said.letter
             arg == said.arg
             chars == said.chars
  <2>4. /\ letter \in Letters /\ Matches(letter, arg) /\ ops = Converted(letter, arg)
        /\ OnlyPuts(ops) \/ ~torn => chars = Characters(ops)
    BY <2>2, <2>3 DEF DoneOf, Characters
  <2> HIDE DEF letter, arg, chars
  <2>5. /\ \/ letter \in {"x", "X"}
           \/ letter \in {"i", "u", "b", "B"} /\ arg < Word \div 2
           => Says(letter, arg, Characters(ops))
        /\ letter = "u" => EndsNumeral(arg, Characters(ops))
        /\ letter \notin {"x", "X"} => OnlyPuts(ops)
    BY <2>4, ConvertedFacts
  <2>6. letter \in {"i", "u", "b", "B"} => chars = Characters(ops) BY <2>4, <2>5
  <2>7. /\ letter \in {"i", "u", "b", "B"} /\ arg < Word \div 2 => Says(letter, arg, chars)
        /\ letter = "u" => EndsNumeral(arg, chars)
        /\ letter \in {"x", "X"} /\ ~torn => Says(letter, arg, chars)
    BY <2>4, <2>5, <2>6
  <2>q. QED BY <2>7 DEF letter, arg, chars, NumbersReadBack
<1>q. QED BY <1>1, <1>2, <1>3, PTL DEF Spec

----------------------------------------------------------------------------
\* The endless page.

Positions == [row : Nat, column : 0 .. (Width - 1)]
Origin == [row |-> 0, column |-> 0]

\* Cells from the beginning of the page.
Distance(p) == Width * p.row + p.column

\* Where the next character goes.
End(t) == Layout(t)[Len(t)]

LEMMA FollowingFacts ==
  ASSUME NEW p \in Positions, NEW char
  PROVE  LET q == Following(p, char)
         IN /\ q \in Positions /\ Distance(p) \in Nat /\ Distance(p) < Distance(q)
            /\ char = NewLine \/ p.column + 1 = Width => q.row = p.row + 1 /\ q.column = 0
            /\ ~(char = NewLine \/ p.column + 1 = Width) =>
                 q.row = p.row /\ q.column = p.column + 1
<1> DEFINE q == Following(p, char)
<1>0. Width \in Nat /\ Width > 1 BY Sizes
<1>1. p.row \in Nat /\ p.column \in 0 .. (Width - 1) BY DEF Positions
<1>2. Width * p.row \in Nat /\ Width * (p.row + 1) = Width * p.row + Width BY <1>1, RowFacts
<1>3. CASE char = NewLine \/ p.column + 1 = Width
  <2>1. q = [row |-> p.row + 1, column |-> 0] BY <1>3, Zenon DEF Following
  <2> HIDE DEF q
  <2>2. q.row = p.row + 1 /\ q.column = 0 BY <2>1
  <2>3. q \in Positions
    <3>1. p.row + 1 \in Nat /\ 0 \in 0 .. (Width - 1) BY <1>0, <1>1
    <3>q. QED BY <2>1, <3>1 DEF Positions
  <2>4. Distance(p) = Width * p.row + p.column BY DEF Distance
  <2>5. Distance(q) = Width * (p.row + 1) + 0 BY <2>2 DEF Distance
  <2>q. QED BY <1>0, <1>1, <1>2, <1>3, <2>2, <2>3, <2>4, <2>5 DEF q
<1>4. CASE ~(char = NewLine \/ p.column + 1 = Width)
  <2>1. q = [p EXCEPT !.column = p.column + 1] BY <1>4, Zenon DEF Following
  <2> HIDE DEF q
  <2>2. q.row = p.row /\ q.column = p.column + 1 BY <2>1 DEF Positions
  <2>3. q \in Positions
    <3>1. p.column + 1 \in 0 .. (Width - 1) BY <1>0, <1>1, <1>4
    <3>q. QED BY <2>1, <3>1 DEF Positions
  <2>4. Distance(p) = Width * p.row + p.column BY DEF Distance
  <2>5. Distance(q) = Width * p.row + (p.column + 1) BY <2>2 DEF Distance
  <2>q. QED BY <1>0, <1>1, <1>2, <1>4, <2>2, <2>3, <2>4, <2>5 DEF q
<1>q. QED BY <1>3, <1>4

\* The function that Layout names.
LEMMA LayoutSteps ==
  ASSUME NEW t \in Seq(Chars)
  PROVE  LET L == Layout(t)
         IN /\ L[0] = Origin
            /\ \A n \in 0 .. (Len(t) - 1) : L[n + 1] = Following(L[n], t[n + 1])
            /\ \A n \in 0 .. Len(t) : L[n] \in Positions
<1> DEFINE E(m, f) == f = [n \in 0 .. m |-> IF n = 0 THEN Origin ELSE Following(f[n - 1], t[n])]
           T == {m \in Nat : \E f : E(m, f)}
           L == Layout(t)
<1>l. Len(t) \in Nat OBVIOUS
<1>0. L = CHOOSE f : E(Len(t), f) BY DEF Layout, Origin
<1>1. 0 \in T
  <2>1. E(0, [k \in 0 .. 0 |-> Origin]) OBVIOUS
  <2>q. QED BY <2>1
<1>2. ASSUME NEW m \in Nat, m \in T PROVE m + 1 \in T
  <2>1. PICK f : E(m, f) BY <1>2
  <2> DEFINE g == [k \in 0 .. (m + 1) |-> IF k = m + 1 THEN Following(f[m], t[m + 1]) ELSE f[k]]
  <2>2. E(m + 1, g) BY <2>1
  <2>3. \E h : E(m + 1, h)
    <3> HIDE DEF E, g
    <3>q. QED BY <2>2
  <2> HIDE DEF E
  <2>q. QED BY <2>3
<1>3. Len(t) \in T
  <2> HIDE DEF T
  <2>q. QED BY <1>1, <1>2, <1>l, SetInduction
<1>4. \E f : E(Len(t), f) BY <1>3
<1>5. E(Len(t), L)
  <2> HIDE DEF E, L
  <2>q. QED BY <1>0, <1>4
<1> HIDE DEF L
<1>6. L[0] = Origin BY <1>5, <1>l
<1>7. \A n \in 0 .. (Len(t) - 1) : L[n + 1] = Following(L[n], t[n + 1])
  <2>1. TAKE n \in 0 .. (Len(t) - 1)
  <2>2. n + 1 \in 0 .. Len(t) /\ n + 1 # 0 /\ (n + 1) - 1 = n BY <1>l
  <2>q. QED BY <1>5, <2>2
<1> DEFINE S == {n \in 0 .. Len(t) : L[n] \in Positions}
<1>8. 0 \in S
  <2>1. Origin \in Positions BY Sizes DEF Origin, Positions
  <2>q. QED BY <1>6, <1>l, <2>1
<1>9. ASSUME NEW n \in 0 .. (Len(t) - 1), n \in S PROVE n + 1 \in S
  <2>1. n + 1 \in 0 .. Len(t) BY <1>l
  <2>2. L[n] \in Positions BY <1>9
  <2>3. Following(L[n], t[n + 1]) \in Positions BY <2>2, FollowingFacts
  <2>q. QED BY <1>7, <2>1, <2>3
<1>10. \A n \in 0 .. Len(t) : n \in S
  <2> HIDE DEF S
  <2>q. QED BY <1>8, <1>9, <1>l, BoundedInduction
<1>q. QED BY <1>6, <1>7, <1>10 DEF L

\* A further character moves none before it.
LEMMA LayoutPrefix ==
  ASSUME NEW t \in Seq(Chars), NEW char \in Chars
  PROVE  /\ \A n \in 0 .. Len(t) : Layout(Append(t, char))[n] = Layout(t)[n]
         /\ End(Append(t, char)) = Following(End(t), char)
         /\ End(t) \in Positions
<1> DEFINE u == Append(t, char)
           L == Layout(t)
           M == Layout(u)
           S == {n \in 0 .. Len(t) : M[n] = L[n]}
<1>l. Len(t) \in Nat OBVIOUS
<1>1. /\ u \in Seq(Chars) /\ Len(u) = Len(t) + 1 /\ u[Len(t) + 1] = char
      /\ \A i \in 1 .. Len(t) : u[i] = t[i]
  BY AppendFacts
<1> HIDE DEF u
<1>2. /\ L[0] = Origin
      /\ \A n \in 0 .. (Len(t) - 1) : L[n + 1] = Following(L[n], t[n + 1])
      /\ \A n \in 0 .. Len(t) : L[n] \in Positions
  BY LayoutSteps
<1>3. /\ M[0] = Origin
      /\ \A n \in 0 .. (Len(u) - 1) : M[n + 1] = Following(M[n], u[n + 1])
  BY <1>1, LayoutSteps
<1> HIDE DEF L, M
<1>4. 0 \in S BY <1>2, <1>3, <1>l
<1>5. ASSUME NEW n \in 0 .. (Len(t) - 1), n \in S PROVE n + 1 \in S
  <2>1. n + 1 \in 0 .. Len(t) /\ n + 1 \in 1 .. Len(t) /\ n \in 0 .. (Len(u) - 1)
    BY <1>1, <1>l
  <2>2. u[n + 1] = t[n + 1] /\ M[n] = L[n] BY <1>1, <1>5, <2>1
  <2>q. QED BY <1>2, <1>3, <2>1, <2>2
<1>6. \A n \in 0 .. Len(t) : n \in S
  <2> HIDE DEF S
  <2>q. QED BY <1>4, <1>5, <1>l, BoundedInduction
<1>7. Len(t) \in 0 .. (Len(u) - 1) /\ Len(t) \in 0 .. Len(t) BY <1>1, <1>l
<1>8. M[Len(t) + 1] = Following(M[Len(t)], u[Len(t) + 1]) BY <1>3, <1>7
<1>9. M[Len(u)] = Following(L[Len(t)], char) BY <1>1, <1>6, <1>7, <1>8
<1>10. L[Len(t)] \in Positions BY <1>2, <1>7
<1>q. QED BY <1>6, <1>9, <1>10 DEF End, L, M, u

\* Every character is behind those before it.
LEMMA DistanceGrows ==
  ASSUME NEW t \in Seq(Chars)
  PROVE  \A n \in 0 .. Len(t) : \A m \in 0 .. (n - 1) :
           Distance(Layout(t)[m]) < Distance(Layout(t)[n])
<1> DEFINE L == Layout(t)
           S == {n \in 0 .. Len(t) : \A m \in 0 .. (n - 1) : Distance(L[m]) < Distance(L[n])}
<1>l. Len(t) \in Nat OBVIOUS
<1>1. /\ \A n \in 0 .. (Len(t) - 1) : L[n + 1] = Following(L[n], t[n + 1])
      /\ \A n \in 0 .. Len(t) : L[n] \in Positions
  BY LayoutSteps
<1> HIDE DEF L
<1>2. 0 \in S BY <1>l
<1>3. ASSUME NEW n \in 0 .. (Len(t) - 1), n \in S PROVE n + 1 \in S
  <2>1. n + 1 \in 0 .. Len(t) /\ n \in 0 .. Len(t) BY <1>l
  <2>2. Distance(L[n]) < Distance(L[n + 1])
    <3> DEFINE p == L[n]
    <3>1. p \in Positions /\ L[n + 1] = Following(p, t[n + 1]) BY <1>1, <2>1
    <3> HIDE DEF p
    <3>2. Distance(p) < Distance(Following(p, t[n + 1])) BY <3>1, FollowingFacts
    <3>q. QED BY <3>1, <3>2 DEF p
  <2>3. ASSUME NEW m \in 0 .. ((n + 1) - 1) PROVE Distance(L[m]) < Distance(L[n + 1])
    <3>1. CASE m = n BY <2>2, <3>1
    <3>2. CASE m # n
      <4>1. m \in 0 .. (n - 1) /\ m \in 0 .. Len(t) BY <1>l, <3>2
      <4>2. Distance(L[m]) < Distance(L[n]) BY <1>3, <4>1
      <4>3. Distance(L[m]) \in Nat /\ Distance(L[n]) \in Nat /\ Distance(L[n + 1]) \in Nat
        BY <1>1, <2>1, <4>1, FollowingFacts
      <4>q. QED BY <2>2, <4>2, <4>3
    <3>q. QED BY <3>1, <3>2
  <2>q. QED BY <2>1, <2>3
<1>4. \A n \in 0 .. Len(t) : n \in S
  <2> HIDE DEF S
  <2>q. QED BY <1>2, <1>3, <1>l, BoundedInduction
<1>q. QED BY <1>4 DEF L

\* What the text puts into a cell after g rows have left the screen.
Place(p, g) == Width * (p.row - g) + p.column
There(t, g, a) == {n \in 1 .. Len(t) : t[n] # NewLine /\ Place(Layout(t)[n - 1], g) = a}
PrintedAt(t, g, a) ==
  IF There(t, g, a) = {} THEN " " ELSE t[CHOOSE n \in There(t, g, a) : TRUE]

LEMMA PrintedIs ==
  ASSUME NEW t, NEW a
  PROVE  Printed(t, a) = PrintedAt(t, Gone(t), a)
  BY DEF Printed, PrintedAt, There, Place

LEMMA PlaceIs ==
  ASSUME NEW p \in Positions, NEW g \in Int
  PROVE  /\ Place(p, g) = Distance(p) - Width * g
         /\ Width * g \in Int /\ Distance(p) \in Nat /\ Place(p, g) \in Int
         /\ Place(p, g + 1) = Place(p, g) - Width
<1>0. Width \in Nat BY Sizes
<1>1. p.row \in Nat /\ p.column \in Nat BY <1>0 DEF Positions
<1>2. Width * (p.row - g) = Width * p.row - Width * g BY <1>0, <1>1
<1>3. Width * (p.row - (g + 1)) = Width * (p.row - g) - Width
  <2>1. PICK k \in Int : k = p.row - g BY <1>1
  <2>2. p.row - (g + 1) = k - 1 BY <1>1, <2>1
  <2>3. Width * (k - 1) = Width * k - Width BY <1>0, <2>1
  <2>q. QED BY <2>1, <2>2, <2>3
<1>4. Width * g \in Int /\ Width * p.row \in Nat /\ Width * (p.row - g) \in Int BY <1>0, <1>1
<1> DEFINE a == Width * (p.row - g)
           b == Width * p.row
           c == Width * g
           d == Width * (p.row - (g + 1))
<1>5. /\ Place(p, g) = a + p.column /\ Distance(p) = b + p.column
      /\ Place(p, g + 1) = d + p.column
  BY DEF Place, Distance
<1>6. a = b - c /\ d = a - Width /\ c \in Int /\ b \in Nat /\ a \in Int BY <1>2, <1>3, <1>4
<1> HIDE DEF a, b, c, d
<1>7. /\ Place(p, g) = Distance(p) - c /\ c \in Int /\ Distance(p) \in Nat /\ Place(p, g) \in Int
      /\ Place(p, g + 1) = Place(p, g) - Width
  BY <1>0, <1>1, <1>5, <1>6
<1>q. QED BY <1>7 DEF c

\* No two characters are in one cell.
LEMMA OneThere ==
  ASSUME NEW t \in Seq(Chars), NEW g \in Int, NEW a, NEW n \in There(t, g, a)
  PROVE  PrintedAt(t, g, a) = t[n]
<1>1. ASSUME NEW m \in There(t, g, a), NEW k \in There(t, g, a), m < k PROVE FALSE
  <2>1. /\ m \in 1 .. Len(t) /\ k \in 1 .. Len(t) /\ Place(Layout(t)[m - 1], g) = a
        /\ Place(Layout(t)[k - 1], g) = a
    BY DEF There
  <2> DEFINE p == Layout(t)[m - 1]
             q == Layout(t)[k - 1]
  <2>2. m - 1 \in 0 .. Len(t) /\ k - 1 \in 0 .. Len(t) /\ m - 1 \in 0 .. ((k - 1) - 1)
    BY <1>1, <2>1
  <2>3. p \in Positions /\ q \in Positions BY <2>2, LayoutSteps
  <2>4. Distance(p) < Distance(q) BY <2>2, DistanceGrows
  <2> HIDE DEF p, q
  <2>5. Place(p, g) = Place(q, g) BY <2>1 DEF p, q
  <2>q. QED BY <2>3, <2>4, <2>5, PlaceIs
<1>2. \A m \in There(t, g, a), k \in There(t, g, a) : m = k
  <2>1. TAKE m \in There(t, g, a), k \in There(t, g, a)
  <2>2. m \in Int /\ k \in Int BY DEF There
  <2>q. QED BY <1>1, <2>2
<1>3. There(t, g, a) # {} OBVIOUS
<1>4. (CHOOSE m \in There(t, g, a) : TRUE) \in There(t, g, a) BY <1>3
<1>q. QED BY <1>2, <1>3, <1>4 DEF PrintedAt

\* A further character is in its cell, the others in theirs.
LEMMA PrintedAppend ==
  ASSUME NEW t \in Seq(Chars), NEW char \in Chars, NEW g \in Int, NEW a
  PROVE  PrintedAt(Append(t, char), g, a) =
           IF char # NewLine /\ Place(End(t), g) = a THEN char ELSE PrintedAt(t, g, a)
<1> DEFINE u == Append(t, char)
<1>1. /\ u \in Seq(Chars) /\ Len(u) = Len(t) + 1 /\ u[Len(t) + 1] = char
      /\ \A i \in 1 .. Len(t) : u[i] = t[i]
      /\ Len(t) \in Nat
  BY AppendFacts
<1> HIDE DEF u
<1>2. \A n \in 0 .. Len(t) : Layout(u)[n] = Layout(t)[n] BY LayoutPrefix DEF u
<1>3. CASE char # NewLine /\ Place(End(t), g) = a
  <2>1. Len(t) + 1 \in 1 .. Len(u) /\ (Len(t) + 1) - 1 = Len(t) /\ Len(t) \in 0 .. Len(t)
    BY <1>1
  <2>2. Layout(u)[(Len(t) + 1) - 1] = End(t) BY <1>2, <2>1 DEF End
  <2>3. Len(t) + 1 \in There(u, g, a) BY <1>1, <1>3, <2>1, <2>2 DEF There
  <2>4. PrintedAt(u, g, a) = u[Len(t) + 1] BY <1>1, <2>3, OneThere
  <2>q. QED BY <1>1, <1>3, <2>4 DEF u
<1>4. CASE ~(char # NewLine /\ Place(End(t), g) = a)
  <2>1. ASSUME NEW n \in There(u, g, a) PROVE n \in There(t, g, a)
    <3>1. n \in 1 .. Len(u) /\ u[n] # NewLine /\ Place(Layout(u)[n - 1], g) = a BY DEF There
    <3>2. n # Len(t) + 1
      <4>1. SUFFICES ASSUME n = Len(t) + 1 PROVE FALSE
        OBVIOUS
      <4>2. n - 1 = Len(t) /\ Len(t) \in 0 .. Len(t) BY <1>1, <4>1
      <4>3. Layout(u)[n - 1] = End(t) BY <1>2, <4>2 DEF End
      <4>q. QED BY <1>1, <1>4, <3>1, <4>1, <4>3
    <3>3. n \in 1 .. Len(t) /\ n - 1 \in 0 .. Len(t) BY <1>1, <3>1, <3>2
    <3>q. QED BY <1>1, <1>2, <3>1, <3>3 DEF There
  <2>2. ASSUME NEW n \in There(t, g, a) PROVE n \in There(u, g, a)
    <3>1. n \in 1 .. Len(t) /\ t[n] # NewLine /\ Place(Layout(t)[n - 1], g) = a BY DEF There
    <3>2. n \in 1 .. Len(u) /\ n - 1 \in 0 .. Len(t) BY <1>1, <3>1
    <3>q. QED BY <1>1, <1>2, <3>1, <3>2 DEF There
  <2>3. PrintedAt(u, g, a) = PrintedAt(t, g, a)
    <3>1. CASE There(t, g, a) = {}
      <4>1. There(u, g, a) = {} BY <2>1, <3>1
      <4>q. QED BY <3>1, <4>1 DEF PrintedAt
    <3>2. CASE There(t, g, a) # {}
      <4>1. PICK n : n \in There(t, g, a) BY <3>2
      <4>2. n \in There(u, g, a) BY <2>2, <4>1
      <4>3. PrintedAt(t, g, a) = t[n] BY <4>1, OneThere
      <4>4. PrintedAt(u, g, a) = u[n] BY <1>1, <4>2, OneThere
      <4>5. n \in 1 .. Len(t) BY <4>1 DEF There
      <4>q. QED BY <1>1, <4>3, <4>4, <4>5
    <3>q. QED BY <3>1, <3>2
  <2>q. QED BY <1>4, <2>3 DEF u
<1>q. QED BY <1>3, <1>4

\* One more row gone: everything is one row higher.
LEMMA PrintedMoved ==
  ASSUME NEW t \in Seq(Chars), NEW g \in Int, NEW a \in Int
  PROVE  PrintedAt(t, g + 1, a) = PrintedAt(t, g, a + Width)
<1>1. There(t, g + 1, a) = There(t, g, a + Width)
  <2>1. \A n \in 1 .. Len(t) :
          Place(Layout(t)[n - 1], g + 1) = a <=> Place(Layout(t)[n - 1], g) = a + Width
    <3>1. TAKE n \in 1 .. Len(t)
    <3> DEFINE p == Layout(t)[n - 1]
    <3>2. n - 1 \in 0 .. Len(t) OBVIOUS
    <3>3. p \in Positions BY <3>2, LayoutSteps
    <3> HIDE DEF p
    <3>4. Place(p, g + 1) = Place(p, g) - Width /\ Place(p, g) \in Int BY <3>3, PlaceIs
    <3>5. Width \in Int BY Sizes
    <3>6. Place(p, g + 1) = a <=> Place(p, g) = a + Width BY <3>4, <3>5
    <3>q. QED BY <3>6 DEF p
  <2>q. QED BY <2>1 DEF There
<1>2. PICK h : h = g + 1 OBVIOUS
<1>3. PICK b : b = a + Width OBVIOUS
<1>4. There(t, h, a) = There(t, g, b) BY <1>1, <1>2, <1>3
<1>5. h \in Int /\ b \in Int BY <1>2, <1>3, Sizes
<1>6. PrintedAt(t, h, a) = PrintedAt(t, g, b)
  <2>1. CASE There(t, h, a) = {} BY <1>4, <2>1 DEF PrintedAt
  <2>2. CASE There(t, h, a) # {}
    <3>1. PICK n : n \in There(t, h, a) BY <2>2
    <3>2. n \in There(t, g, b) BY <1>4, <3>1
    <3>3. PrintedAt(t, h, a) = t[n] BY <1>5, <3>1, OneThere
    <3>4. PrintedAt(t, g, b) = t[n] BY <1>5, <3>2, OneThere
    <3>q. QED BY <3>3, <3>4
  <2>q. QED BY <2>1, <2>2
<1>q. QED BY <1>2, <1>3, <1>6

\* Behind the end nothing is printed.
LEMMA PrintedBehind ==
  ASSUME NEW t \in Seq(Chars), NEW g \in Int, NEW a \in Int, a >= Place(End(t), g)
  PROVE  PrintedAt(t, g, a) = " "
<1>1. ASSUME NEW n \in There(t, g, a) PROVE FALSE
  <2>1. n \in 1 .. Len(t) /\ Place(Layout(t)[n - 1], g) = a BY DEF There
  <2>2. Len(t) \in 0 .. Len(t) /\ n - 1 \in 0 .. (Len(t) - 1) /\ n - 1 \in 0 .. Len(t) BY <2>1
  <2> DEFINE p == Layout(t)[n - 1]
             q == Layout(t)[Len(t)]
  <2>3. Distance(p) < Distance(q) BY <2>2, DistanceGrows
  <2>4. p \in Positions /\ q \in Positions BY <2>2, LayoutSteps
  <2>5. Place(p, g) = a /\ Place(q, g) <= a BY <2>1 DEF End
  <2> HIDE DEF p, q
  <2>q. QED BY <2>3, <2>4, <2>5, PlaceIs
<1>q. QED BY <1>1 DEF PrintedAt

----------------------------------------------------------------------------
\* The rows that have left the screen.

\* The rows that leave the screen when something is printed at row r.
Over(r) == IF r > Height - 1 THEN r - (Height - 1) ELSE 0

LEMMA OverFacts ==
  ASSUME NEW r \in Nat
  PROVE  /\ Over(r) \in Nat /\ r - Over(r) \in 0 .. (Height - 1)
         /\ Over(r + 1) \in {Over(r), Over(r) + 1}
         /\ (r + 1) - Over(r) <= Height - 1 => Over(r + 1) = Over(r)
         /\ (r + 1) - Over(r) > Height - 1 =>
              Over(r + 1) = Over(r) + 1 /\ (r + 1) - Over(r) = Height
<1>0. Height \in Nat /\ Height > 1 BY Sizes
<1>q. QED BY <1>0 DEF Over

\* The next character belongs on the screen, or in the line behind it.
LEMMA GoneFacts ==
  ASSUME NEW t \in Seq(Chars)
  PROVE  LET y == End(t).row - Gone(t)
         IN /\ Gone(t) \in Nat /\ End(t) \in Positions /\ y \in 0 .. Height
            /\ y = Height => End(t).column = 0 /\ Over(End(t).row) = Gone(t) + 1
            /\ y <= Height - 1 => Over(End(t).row) = Gone(t)
<1> DEFINE e == End(t)
           L == Layout(t)
<1>0. Height \in Nat /\ Height > 1 BY Sizes
<1>l. Len(t) \in Nat OBVIOUS
<1>1. /\ L[0] = Origin
      /\ \A n \in 0 .. (Len(t) - 1) : L[n + 1] = Following(L[n], t[n + 1])
      /\ \A n \in 0 .. Len(t) : L[n] \in Positions
  BY LayoutSteps
<1>2. e = L[Len(t)] BY DEF End
<1>3. CASE t = <<>>
  <2>1. Gone(t) = Over(0)
    BY <1>3, Zenon DEF Gone, Over
  <2>2. e = Origin BY <1>1, <1>2, <1>3
  <2>3. Over(0) = 0 BY <1>0 DEF Over
  <2>4. e.row = 0 /\ e.column = 0 BY <2>2 DEF Origin
  <2>5. e \in Positions BY <1>1, <1>2, <1>l
  <2> HIDE DEF e
  <2>6. e.row - Gone(t) = 0 /\ Gone(t) = 0 BY <2>1, <2>3, <2>4
  <2>q. QED BY <1>0, <2>3, <2>4, <2>5, <2>6 DEF e
<1>4. CASE t # <<>>
  <2> DEFINE p == L[Len(t) - 1]
             char == t[Len(t)]
  <2>1. Len(t) > 0 /\ Len(t) - 1 \in 0 .. (Len(t) - 1) /\ Len(t) - 1 \in 0 .. Len(t)
        /\ (Len(t) - 1) + 1 = Len(t) /\ Len(t) \in 0 .. Len(t)
    BY <1>4, <1>l
  <2>2. p \in Positions /\ e \in Positions BY <1>1, <1>2, <2>1
  <2>3. e = Following(p, char) BY <1>1, <1>2, <2>1
  <2>4. Gone(t) = Over(p.row) BY <1>4, Zenon DEF Gone, Over
  <2> HIDE DEF p, e, L, char
  <2>5. \/ e.row = p.row + 1 /\ e.column = 0
        \/ e.row = p.row
    BY <2>2, <2>3, FollowingFacts
  <2>6. p.row \in Nat BY <2>2 DEF Positions
  <2> DEFINE r == p.row
             o == Over(r)
  <2>7. /\ o \in Nat /\ r - o \in 0 .. (Height - 1)
        /\ (r + 1) - o <= Height - 1 => Over(r + 1) = o
        /\ (r + 1) - o > Height - 1 => Over(r + 1) = o + 1 /\ (r + 1) - o = Height
    BY <2>6, OverFacts
  <2>8. Gone(t) = o /\ ((e.row = r + 1 /\ e.column = 0) \/ e.row = r) BY <2>4, <2>5
  <2>9. CASE e.row = r + 1 /\ e.column = 0
    <3>1. Over(e.row) = Over(r + 1) BY <2>9
    <3>2. r \in Nat BY <2>6
    <3> HIDE DEF o, r
    <3>q. QED BY <1>0, <2>2, <2>7, <2>8, <2>9, <3>1, <3>2 DEF e
  <2>10. CASE e.row = r
    <3>1. Over(e.row) = o BY <2>10
    <3>2. r \in Nat BY <2>6
    <3> HIDE DEF o, r
    <3>q. QED BY <1>0, <2>2, <2>7, <2>8, <2>10, <3>1, <3>2 DEF e
  <2>q. QED BY <2>8, <2>9, <2>10
<1>q. QED BY <1>3, <1>4

\* What the next character moves off the screen.
LEMMA GoneAppend ==
  ASSUME NEW t \in Seq(Chars), NEW char \in Chars
  PROVE  Gone(Append(t, char)) = Over(End(t).row)
<1> DEFINE u == Append(t, char)
<1>1. /\ u \in Seq(Chars) /\ Len(u) = Len(t) + 1 /\ Len(t) \in Nat BY AppendFacts
<1>2. Layout(u)[Len(t)] = Layout(t)[Len(t)] BY <1>1, LayoutPrefix
<1> HIDE DEF u
<1>3. u # <<>> /\ Len(u) - 1 = Len(t) BY <1>1
<1>4. Gone(u) = Over(Layout(u)[Len(u) - 1].row) BY <1>3, Zenon DEF Gone, Over
<1>5. Gone(u) = Over(End(t).row) BY <1>2, <1>3, <1>4 DEF End, u
<1>q. QED BY <1>5 DEF u

----------------------------------------------------------------------------
\* What is on the screen.

\* After g rows have left, the cells show the text.
Shows(cell, t, g) == \A a \in Cells : cell[a].char = PrintedAt(t, g, a)

\* And the cursor is behind it.
Behind(c, t, g) ==
  /\ Shows(c.cell, t, g)
  /\ c.x = End(t).column /\ c.y = End(t).row - g

\* Between two characters, and once there is room for the next.
Settled(c, t) == Behind(c, t, Gone(t))
Roomed(c, t) == Behind(c, t, Over(End(t).row))

\* The next line would be the one behind the screen.
Full(t) == End(t).row - Gone(t) = Height /\ End(t).column = 0

LEMMA FullFacts ==
  ASSUME NEW t \in Seq(Chars), Full(t)
  PROVE  /\ Over(End(t).row) = Gone(t) + 1 /\ Gone(t) \in Nat
         /\ End(t).row - (Gone(t) + 1) = Height - 1
         /\ \A a \in Cells : PrintedAt(t, Gone(t) + 1, a) =
              IF a < Width * (Height - 1) THEN PrintedAt(t, Gone(t), a + Width) ELSE " "
<1> DEFINE g == Gone(t)
           h == g + 1
           e == End(t)
<1>0. Width \in Nat /\ Height \in Nat BY Sizes
<1>1. /\ Over(e.row) = g + 1 /\ g \in Nat /\ e \in Positions /\ e.row - g = Height
      /\ e.column = 0
  BY GoneFacts DEF Full
<1> HIDE DEF g, e
<1>2. e.row \in Nat BY <1>1 DEF Positions
<1>3. e.row - (g + 1) = Height - 1 /\ h \in Int BY <1>0, <1>1, <1>2
<1>4. Place(e, h) = Width * (Height - 1)
  <2>1. e.row - h = Height - 1 BY <1>3
  <2>2. Place(e, h) = Width * (Height - 1) + 0 BY <1>1, <2>1 DEF Place
  <2>q. QED BY <2>2, Sizes
<1>5. ASSUME NEW a \in Cells
      PROVE  PrintedAt(t, h, a) =
               IF a < Width * (Height - 1) THEN PrintedAt(t, g, a + Width) ELSE " "
  <2>1. a \in Int BY MemoryFacts, Sizes
  <2>2. CASE a < Width * (Height - 1)
    <3>1. PrintedAt(t, g + 1, a) = PrintedAt(t, g, a + Width) BY <1>1, <2>1, PrintedMoved
    <3>q. QED BY <2>2, <3>1
  <2>3. CASE ~(a < Width * (Height - 1))
    <3>1. a >= Place(e, h) BY <1>4, <2>1, <2>3, Sizes
    <3> HIDE DEF h
    <3>2. PrintedAt(t, h, a) = " " BY <1>3, <2>1, <3>1, PrintedBehind DEF e
    <3>q. QED BY <2>3, <3>2
  <2>q. QED BY <2>2, <2>3
<1>q. QED BY <1>1, <1>3, <1>5 DEF g, e

LEMMA GoneOver ==
  ASSUME NEW t \in Seq(Chars)
  PROVE  /\ End(t) \in Positions /\ Gone(t) \in Nat /\ Over(End(t).row) \in Nat
         /\ End(t).row - Over(End(t).row) \in 0 .. (Height - 1)
<1> DEFINE r == End(t).row
<1>1. End(t) \in Positions /\ Gone(t) \in Nat BY GoneFacts
<1>2. r \in Nat BY <1>1 DEF Positions
<1>3. r \in Nat => Over(r) \in Nat /\ r - Over(r) \in 0 .. (Height - 1)
  <2> HIDE DEF r
  <2>q. QED BY OverFacts
<1>q. QED BY <1>1, <1>2, <1>3

\* With the cursor on the screen there is room.
LEMMA SettledRoomed ==
  ASSUME NEW c \in Consoles, NEW t \in Seq(Chars), Settled(c, t)
  PROVE  /\ c.y \in 0 .. Height
         /\ c.y <= Height - 1 => Roomed(c, t)
         /\ c.y > Height - 1 => c.y = Height /\ Full(t)
<1>0. Height \in Nat BY Sizes
<1> DEFINE y == End(t).row - Gone(t)
<1>1. /\ y \in 0 .. Height
      /\ y = Height => End(t).column = 0
      /\ y <= Height - 1 => Over(End(t).row) = Gone(t)
  BY GoneFacts
<1>2. c.y = y BY DEF Settled, Behind
<1>3. y <= Height - 1 => Roomed(c, t) BY <1>1 DEF Settled, Roomed
<1>4. y = Height => Full(t) BY <1>1 DEF Full
<1> HIDE DEF y
<1>q. QED BY <1>0, <1>1, <1>2, <1>3, <1>4

\* Making room moves the text up when the cursor is behind the last line.
LEMMA RoomShows ==
  ASSUME NEW c \in Consoles, NEW t \in Seq(Chars), Settled(c, t) \/ Roomed(c, t)
  PROVE  Roomed(MadeRoom(c), t)
<1> DEFINE r == MadeRoom(c)
           o == Over(End(t).row)
<1>0. Width \in Nat /\ Height \in Nat BY Sizes
<1>1. /\ c.y > Height - 1 => r.y = Height - 1 /\ r.x = 0 /\ r.cell = Scrolled(c.cell)
      /\ c.y <= Height - 1 => r = c
  BY RoomFacts
<1>2. CASE Roomed(c, t)
  <2>1. c.y = End(t).row - o BY <1>2 DEF Roomed, Behind
  <2>2. c.y <= Height - 1 BY <1>0, <2>1, GoneOver
  <2>q. QED BY <1>1, <1>2, <2>2
<1>3. CASE Settled(c, t)
  <2>1. CASE c.y <= Height - 1 BY <1>1, <1>3, <2>1, SettledRoomed
  <2>2. CASE c.y > Height - 1
    <3>1. Full(t) BY <1>3, <2>2, SettledRoomed
    <3> DEFINE g == Gone(t)
    <3>2. /\ o = g + 1 /\ End(t).row - (g + 1) = Height - 1 /\ End(t).column = 0
          /\ \A a \in Cells : PrintedAt(t, g + 1, a) =
               IF a < Width * (Height - 1) THEN PrintedAt(t, g, a + Width) ELSE " "
      BY <3>1, FullFacts DEF Full
    <3>3. r.y = Height - 1 /\ r.x = 0 /\ r.cell = Scrolled(c.cell) BY <1>1, <2>2
    <3>4. Shows(c.cell, t, g) BY <1>3 DEF Settled, Behind
    <3> HIDE DEF r, o, g
    <3>5. ASSUME NEW a \in Cells PROVE r.cell[a].char = PrintedAt(t, o, a)
      <4> DEFINE w == Width * (Height - 1)
                 v == Width * Height
      <4>1. w \in Nat /\ v = w + Width /\ Cells = 0 .. (v - 1) /\ a \in Memory
        BY Sizes, MemoryFacts
      <4>2. PrintedAt(t, o, a) = IF a < w THEN PrintedAt(t, g, a + Width) ELSE " " BY <3>2
      <4>3. r.cell[a] = IF a + Width \in Cells THEN c.cell[a + Width]
                        ELSE IF a \in Cells THEN Cleared ELSE c.cell[a]
        BY <3>3, <4>1 DEF Scrolled
      <4> HIDE DEF w, v
      <4>4. CASE a < w
        <5>1. a + Width \in Cells BY <1>0, <4>1, <4>4
        <5>2. r.cell[a] = c.cell[a + Width] BY <4>3, <5>1
        <5>q. QED BY <3>4, <4>2, <4>4, <5>1, <5>2 DEF Shows
      <4>5. CASE ~(a < w)
        <5>1. a + Width \notin Cells BY <1>0, <4>1, <4>5
        <5>2. r.cell[a] = Cleared BY <4>3, <5>1
        <5>q. QED BY <4>2, <4>5, <5>2, CellsTyped
      <4>q. QED BY <4>4, <4>5
    <3>q. QED BY <3>2, <3>3, <3>5 DEF Roomed, Behind, Shows, r, o
  <2>3. c.y \in Int BY <1>0 DEF Consoles
  <2>q. QED BY <1>0, <2>1, <2>2, <2>3
<1>q. QED BY <1>2, <1>3

\* Where the next character goes, and what it changes.
LEMMA NextCharacter ==
  ASSUME NEW c \in Consoles, NEW t \in Seq(Chars), Roomed(c, t), NEW char \in Chars
  PROVE  LET u == Append(t, char)
             g == Gone(u)
         IN /\ u \in Seq(Chars) /\ g \in Nat
            /\ c.y \in 0 .. (Height - 1) /\ c.x \in 0 .. (Width - 1)
            /\ End(t) = [row |-> c.y + g, column |-> c.x]
            /\ End(u) = Following([row |-> c.y + g, column |-> c.x], char)
            /\ char = NewLine \/ c.x + 1 = Width =>
                 End(u).column = 0 /\ End(u).row - g = c.y + 1
            /\ ~(char = NewLine \/ c.x + 1 = Width) =>
                 End(u).column = c.x + 1 /\ End(u).row - g = c.y
            /\ \A a \in Cells : PrintedAt(u, g, a) =
                 IF char # NewLine /\ a = Width * c.y + c.x THEN char ELSE c.cell[a].char
<1> DEFINE u == Append(t, char)
           g == Gone(u)
           e == End(t)
<1>0. Width \in Nat /\ Height \in Nat BY Sizes
<1>1. u \in Seq(Chars) /\ g = Over(e.row) /\ End(u) = Following(e, char)
  BY AppendFacts, GoneAppend, LayoutPrefix
<1>2. e \in Positions /\ g \in Nat /\ e.row - g \in 0 .. (Height - 1) BY <1>1, GoneOver
<1>3. c.x = e.column /\ c.y = e.row - g /\ Shows(c.cell, t, g)
  BY <1>1 DEF Roomed, Behind
<1>4. \A a \in Cells : PrintedAt(u, g, a) =
        IF char # NewLine /\ Place(e, g) = a THEN char ELSE PrintedAt(t, g, a)
  <2> DEFINE h == g
  <2>1. h \in Int BY <1>2
  <2> HIDE DEF h
  <2>2. \A a \in Cells : PrintedAt(u, h, a) =
          IF char # NewLine /\ Place(e, h) = a THEN char ELSE PrintedAt(t, h, a)
    BY <2>1, PrintedAppend
  <2>q. QED BY <2>2 DEF h
<1> HIDE DEF e, g, u
<1>5. e.row \in Nat /\ e.column \in 0 .. (Width - 1) /\ e = [row |-> e.row, column |-> e.column]
  BY <1>2 DEF Positions
<1>6. c.y + g = e.row BY <1>2, <1>3, <1>5
<1>7. e = [row |-> c.y + g, column |-> c.x] BY <1>3, <1>5, <1>6
<1>8. Place(e, g) = Width * c.y + c.x BY <1>3 DEF Place
<1>9. \A a \in Cells : PrintedAt(u, g, a) =
        IF char # NewLine /\ a = Width * c.y + c.x THEN char ELSE c.cell[a].char
  BY <1>3, <1>4, <1>8 DEF Shows
<1>10. /\ char = NewLine \/ c.x + 1 = Width => End(u).column = 0 /\ End(u).row - g = c.y + 1
       /\ ~(char = NewLine \/ c.x + 1 = Width) =>
            End(u).column = c.x + 1 /\ End(u).row - g = c.y
  <2> DEFINE f == Following(e, char)
  <2>1. /\ char = NewLine \/ e.column + 1 = Width => f.row = e.row + 1 /\ f.column = 0
        /\ ~(char = NewLine \/ e.column + 1 = Width) =>
             f.row = e.row /\ f.column = e.column + 1
    BY <1>2, FollowingFacts
  <2> HIDE DEF f
  <2>2. End(u) = f BY <1>1 DEF f
  <2>q. QED BY <1>2, <1>3, <1>5, <2>1, <2>2
<1>11. End(u) = Following([row |-> c.y + g, column |-> c.x], char) BY <1>1, <1>7
<1>12. c.y \in 0 .. (Height - 1) /\ c.x \in 0 .. (Width - 1) BY <1>2, <1>3, <1>5
<1>q. QED BY <1>1, <1>2, <1>7, <1>9, <1>10, <1>11, <1>12 DEF e, g, u

\* A whole entry, the way a handler makes it.
LEMMA EntryShows ==
  ASSUME NEW c \in Consoles, NEW t \in Seq(Chars), Settled(c, t) \/ Roomed(c, t),
         NEW char \in Chars
  PROVE  Settled(PutEntry(c, char), Append(t, char))
<1> DEFINE d == PutEntry(c, char)
           r == MadeRoom(c)
           u == Append(t, char)
           g == Gone(u)
           i == Width * r.y + r.x
<1>0. Width \in Nat /\ Height \in Nat BY Sizes
<1>1. Roomed(r, t) BY RoomShows
<1>2. r \in Consoles BY RoomFacts
<1>3. /\ char = NewLine => d.cell = r.cell /\ d.x = 0 /\ d.y = r.y + 1
      /\ char # NewLine =>
           /\ d.cell = [r.cell EXCEPT ![i] = [char |-> char, color |-> LightGrey]]
           /\ r.x + 1 >= Width => d.x = 0 /\ d.y = r.y + 1
           /\ r.x + 1 < Width => d.x = r.x + 1 /\ d.y = r.y
  BY EntryFacts
<1> HIDE DEF r, d
<1>4. /\ g \in Nat /\ r.y \in 0 .. (Height - 1) /\ r.x \in 0 .. (Width - 1)
      /\ char = NewLine \/ r.x + 1 = Width => End(u).column = 0 /\ End(u).row - g = r.y + 1
      /\ ~(char = NewLine \/ r.x + 1 = Width) =>
           End(u).column = r.x + 1 /\ End(u).row - g = r.y
      /\ \A a \in Cells : PrintedAt(u, g, a) =
           IF char # NewLine /\ a = i THEN char ELSE r.cell[a].char
  BY <1>1, <1>2, NextCharacter
<1>5. r.cell \in [Memory -> Cell] /\ \A a \in Cells : a \in Memory
  BY <1>2, MemoryFacts DEF Consoles
<1> HIDE DEF u, g, i
<1>6. Shows(d.cell, u, g)
  <2>1. CASE char = NewLine BY <1>3, <1>4, <2>1 DEF Shows
  <2>2. CASE char # NewLine
    <3> DEFINE n == [char |-> char, color |-> LightGrey]
    <3>1. d.cell = [r.cell EXCEPT ![i] = n] /\ n.char = char BY <1>3, <2>2
    <3> HIDE DEF n
    <3>2. \A a \in Cells : d.cell[a] = IF a = i THEN n ELSE r.cell[a] BY <1>5, <3>1
    <3>q. QED BY <1>4, <2>2, <3>1, <3>2 DEF Shows
  <2>q. QED BY <2>1, <2>2
<1>7. d.x = End(u).column /\ d.y = End(u).row - g
  <2>1. r.x + 1 >= Width <=> r.x + 1 = Width BY <1>0, <1>4
  <2>2. r.x + 1 < Width <=> r.x + 1 # Width BY <1>0, <1>4
  <2>q. QED BY <1>3, <1>4, <2>1, <2>2
<1>q. QED BY <1>6, <1>7 DEF Settled, Behind, u, g, d

\* A digit stored changes nothing on the screen.
LEMMA SameShown ==
  ASSUME NEW c, NEW d, d.cell = c.cell, d.x = c.x, d.y = c.y, NEW t
  PROVE  /\ Settled(c, t) => Settled(d, t)
         /\ Roomed(c, t) => Roomed(d, t)
  BY DEF Settled, Roomed, Behind

\* One operation on a console that shows the text.
ShownAfter(c, t, d, u) ==
  /\ Settled(c, t) => Settled(d, u)
  /\ Settled(d, u) \/ Roomed(d, u)

LEMMA DoneShows ==
  ASSUME NEW c \in Consoles, NEW t \in Seq(Chars), Settled(c, t) \/ Roomed(c, t),
         NEW o \in Op, o.op = "show" => c.foo[o.at] = o.char
  PROVE  LET d == Done(c, o)
         IN /\ d.foo = Literal(c.foo, o)
            /\ o.op = "store" => ShownAfter(c, t, d, t)
            /\ o.op # "store" => Settled(d, Append(t, o.char))
<1>1. CASE o.op = "store"
  <2> DEFINE d == [c EXCEPT !.foo[o.at] = o.char]
  <2>1. o.at \in 1 .. 2 /\ o.char \in Chars /\ Done(c, o) = d BY <1>1, DoneCases
  <2>2. d.foo = [c.foo EXCEPT ![o.at] = o.char] /\ d.cell = c.cell /\ d.x = c.x /\ d.y = c.y
    BY <2>1, StoreFacts
  <2> HIDE DEF d
  <2>3. ShownAfter(c, t, d, t) BY <2>2, SameShown DEF ShownAfter
  <2>q. QED BY <1>1, <2>1, <2>2, <2>3 DEF Literal
<1>2. CASE o.op # "store"
  <2>1. Done(c, o) = PutEntry(c, o.char) /\ o.char \in Chars
    BY <1>2, DoneCases
  <2>2. PutEntry(c, o.char).foo = c.foo BY <2>1, EntryFacts
  <2>3. Settled(PutEntry(c, o.char), Append(t, o.char)) BY <2>1, EntryShows
  <2>q. QED BY <1>2, <2>1, <2>2, <2>3 DEF Literal
<1>q. QED BY <1>1, <1>2

LEMMA ConcatAppend ==
  ASSUME NEW s \in Seq(Chars), NEW t \in Seq(Chars), NEW char \in Chars
  PROVE  /\ s \o Append(t, char) = Append(s \o t, char)
         /\ s \o t \in Seq(Chars) /\ s \o <<>> = s
  OBVIOUS

\* All that a handler prints.
LEMMA RunShows ==
  ASSUME NEW c \in Consoles, NEW t \in Seq(Chars), Settled(c, t) \/ Roomed(c, t),
         NEW ops \in Seq(Op), Backed(ops)
  PROVE  ShownAfter(c, t, RunUpTo(c, ops)[Len(ops)], t \o Characters(ops))
<1> DEFINE R == RunUpTo(c, ops)
           C == CharactersUpTo(ops)
           S == {n \in 0 .. Len(ops) : /\ ShownAfter(c, t, R[n], t \o C[n])
                                       /\ Ready(ops, n, R[n].foo)}
<1>l. Len(ops) \in Nat OBVIOUS
<1>1. /\ R[0] = c
      /\ \A n \in 0 .. (Len(ops) - 1) : R[n + 1] = Done(R[n], ops[n + 1])
      /\ \A n \in 0 .. Len(ops) : R[n] \in Consoles
  BY RunSteps, RunTyped
<1>2. /\ C[0] = <<>>
      /\ \A n \in 0 .. Len(ops) : C[n] \in Seq(Chars)
      /\ \A n \in 1 .. Len(ops) :
           C[n] = IF ops[n].op = "store" THEN C[n - 1] ELSE Append(C[n - 1], ops[n].char)
  BY CharactersSteps
<1> HIDE DEF R, C
<1>3. 0 \in S
  <2>1. t \o C[0] = t BY <1>2, ConcatAppend
  <2>2. ShownAfter(c, t, c, t) BY DEF ShownAfter
  <2>3. Ready(ops, 0, R[0].foo) BY ReadyFirst
  <2>4. ShownAfter(c, t, R[0], t \o C[0]) BY <1>1, <2>1, <2>2, Zenon
  <2>5. 0 \in 0 .. Len(ops) BY <1>l
  <2>q. QED BY <2>3, <2>4, <2>5, Zenon
<1>4. ASSUME NEW n \in 0 .. (Len(ops) - 1), n \in S PROVE n + 1 \in S
  <2>1. n + 1 \in 0 .. Len(ops) /\ n + 1 \in 1 .. Len(ops) /\ n \in 0 .. Len(ops)
        /\ (n + 1) - 1 = n
    BY <1>l
  <2> DEFINE o == ops[n + 1]
             b == R[n]
             d == R[n + 1]
             v == t \o C[n]
             w == t \o C[n + 1]
  <2>2. b \in Consoles /\ d = Done(b, o) BY <1>1, <2>1
  <2>3. ShownAfter(c, t, b, v) /\ Ready(ops, n, b.foo) BY <1>4
  <2>4. b.foo \in [1 .. 2 -> Chars] BY <2>2 DEF Consoles
  <2>5. /\ o \in Op
        /\ o.op = "show" => b.foo[o.at] = o.char
        /\ Ready(ops, n + 1, Literal(b.foo, o))
    <3> DEFINE foo == b.foo
    <3> HIDE DEF foo, b, o
    <3>1. foo \in [1 .. 2 -> Chars] /\ Ready(ops, n, foo) BY <2>3, <2>4 DEF foo
    <3>2. /\ ops[n + 1] \in Op
          /\ ops[n + 1].op = "show" => foo[ops[n + 1].at] = ops[n + 1].char
          /\ Ready(ops, n + 1, Literal(foo, ops[n + 1]))
      BY <3>1, ReadyNext
    <3>q. QED BY <3>2 DEF o, foo
  <2>6. C[n] \in Seq(Chars) /\ v \in Seq(Chars) BY <1>2, <2>1, ConcatAppend
  <2>7. /\ o.op = "store" => w = v
        /\ o.op # "store" => w = Append(v, o.char)
    <3>1. C[n + 1] = IF o.op = "store" THEN C[n] ELSE Append(C[n], o.char)
      <4>1. C[n + 1] = IF ops[n + 1].op = "store" THEN C[(n + 1) - 1]
                       ELSE Append(C[(n + 1) - 1], ops[n + 1].char)
        BY <1>2, <2>1
      <4>q. QED BY <2>1, <4>1
    <3>2. o.char \in Chars BY <2>5, OpParts
    <3> HIDE DEF o
    <3>3. t \o Append(C[n], o.char) = Append(t \o C[n], o.char) BY <2>6, <3>2, ConcatAppend
    <3>4. o.op = "store" => C[n + 1] = C[n] BY <3>1
    <3>5. o.op # "store" => C[n + 1] = Append(C[n], o.char) BY <3>1
    <3>q. QED BY <3>3, <3>4, <3>5
  <2> HIDE DEF o, b, d, v, w
  <2>8. /\ Done(b, o).foo = Literal(b.foo, o)
        /\ o.op = "store" => ShownAfter(b, v, Done(b, o), v)
        /\ o.op # "store" => Settled(Done(b, o), Append(v, o.char))
    BY <2>2, <2>3, <2>5, <2>6, DoneShows DEF ShownAfter
  <2>9. ShownAfter(c, t, d, w)
    <3>1. CASE o.op = "store"
      <4>1. w = v /\ ShownAfter(b, v, d, v) BY <2>2, <2>7, <2>8, <3>1
      <4>q. QED BY <2>3, <4>1 DEF ShownAfter
    <3>2. CASE o.op # "store"
      <4>1. Settled(d, w) BY <2>2, <2>7, <2>8, <3>2
      <4>q. QED BY <4>1 DEF ShownAfter
    <3>q. QED BY <3>1, <3>2
  <2>10. Ready(ops, n + 1, d.foo) BY <2>2, <2>5, <2>8
  <2>q. QED BY <2>1, <2>9, <2>10 DEF d, w
<1>5. \A n \in 0 .. Len(ops) : n \in S
  <2> HIDE DEF S
  <2>q. QED BY <1>3, <1>4, <1>l, BoundedInduction
<1>6. Len(ops) \in S BY <1>5, <1>l
<1>q. QED BY <1>6 DEF R, C, Characters

----------------------------------------------------------------------------
\* What the screen shows at every place of vga_putEntry.

\* All but the character whose place kernel_main has taken from the cursor.
ShowsBut(c, t, char) ==
  \A a \in Cells :
    PrintedAt(t, Gone(t), a) = IF a = Width * c.y + c.x THEN char ELSE c.cell[a].char

\* The cursor is still where that character goes.
OnPlace(c, t, char) ==
  /\ char # NewLine
  /\ c.x \in 0 .. (Width - 1) /\ c.y \in 0 .. (Height - 1)
  /\ End(t) = Following([row |-> c.y + Gone(t), column |-> c.x], char)

\* The cursor is still in the line before the one where the text goes on.
LineToCome(c, t) ==
  Shows(c.cell, t, Gone(t)) /\ End(t).column = 0 /\ End(t).row - Gone(t) = c.y + 1

\* The cells before temp have moved up; as many behind them are cleared, those
\* of the first row only as they move.
Scrolling(cell, t, temp) ==
  \A a \in Cells :
    cell[a].char = IF a < temp THEN PrintedAt(t, Gone(t), a + Width)
                   ELSE IF a < temp + Width /\ a >= Width THEN " "
                   ELSE PrintedAt(t, Gone(t), a)

Stands(pc, c, t, char, temp) ==
  \/ pc \in {"next", "room"} /\ Settled(c, t)
  \/ pc = "clampY" /\ Settled(c, t) /\ Full(t)
  \/ pc = "clampX" /\ Shows(c.cell, t, Gone(t)) /\ Full(t) /\ c.y = Height - 1
  \/ pc = "scroll" /\ Scrolling(c.cell, t, temp) /\ Full(t) /\ c.y = Height - 1 /\ c.x = 0
  \/ pc = "line" /\ Roomed(c, t) /\ char = NewLine
  \/ pc = "row" /\ Roomed(c, t) /\ char # NewLine
  \/ pc = "lineStore" /\ LineToCome(c, t) /\ temp = c.y
  \/ /\ pc = "lineX" /\ Shows(c.cell, t, Gone(t))
     /\ End(t).column = 0 /\ End(t).row - Gone(t) = c.y
  \/ pc = "column" /\ OnPlace(c, t, char) /\ ShowsBut(c, t, char) /\ temp = Width * c.y
  \/ pc = "write" /\ OnPlace(c, t, char) /\ ShowsBut(c, t, char) /\ c.index = Width * c.y + c.x
  \/ pc = "load" /\ OnPlace(c, t, char) /\ Shows(c.cell, t, Gone(t))
  \/ pc = "store" /\ OnPlace(c, t, char) /\ Shows(c.cell, t, Gone(t)) /\ temp = c.x
  \/ pc = "wrap" /\ c.x < Width /\ Settled(c, t)
  \/ pc \in {"wrap", "wrapX"} /\ c.x >= Width /\ LineToCome(c, t)
  \/ pc = "wrapY" /\ LineToCome(c, t) /\ c.x = 0
  \/ pc = "wrapStore" /\ LineToCome(c, t) /\ c.x = 0 /\ temp = c.y

Printing == ~torn => Stands(main.pc, con, text, main.char, main.temp)

LEMMA PrintingInit == Init => Printing
<1> SUFFICES ASSUME Init PROVE Printing
  OBVIOUS
<1> DEFINE none == <<>>
<1>0. Height \in Nat /\ Height > 1 BY Sizes
<1>1. con.cell = [a \in Memory |-> IF a \in Cells THEN Blank ELSE Cleared] /\ con.x = 0 /\ con.y = 0
  BY DEF Init
<1>2. \A a \in Cells : con.cell[a].char = " " BY <1>1, MemoryFacts, CellsTyped
<1>3. none \in Seq(Chars) /\ Len(none) = 0 OBVIOUS
<1>4. text = none BY DEF Init
<1> HIDE DEF none
<1>5. Layout(none)[0] = Origin BY <1>3, LayoutSteps
<1>6. End(none) = Origin BY <1>3, <1>5 DEF End
<1>7. Gone(none) = 0
  <2>1. Gone(none) = Over(0) BY Zenon DEF Gone, Over, none
  <2>q. QED BY <1>0, <2>1 DEF Over
<1>8. \A a : There(none, 0, a) = {} BY <1>3 DEF There
<1>9. \A a : PrintedAt(none, 0, a) = " " BY <1>8 DEF PrintedAt
<1>10. Settled(con, none)
  <2>1. Shows(con.cell, none, Gone(none)) BY <1>2, <1>7, <1>9, Zenon DEF Shows
  <2>2. End(none).row = 0 /\ End(none).column = 0 BY <1>6 DEF Origin
  <2>3. con.x = End(none).column /\ con.y = End(none).row - Gone(none) BY <1>1, <1>7, <2>2
  <2>q. QED BY <2>1, <2>3 DEF Settled, Behind
<1>11. main.pc = "next"
  <2> DEFINE no == <<>>
  <2>1. PICK p \in Programs :
          main = [calls |-> p, format |-> no, args |-> no, ops |-> no,
                  pc |-> "next", char |-> " ", temp |-> 0]
    BY DEF Init
  <2> HIDE DEF no
  <2>q. QED BY <2>1
<1>q. QED BY <1>4, <1>10, <1>11 DEF Printing, Stands

\* One cell moves up.
LEMMA ScrollStep ==
  ASSUME NEW cell \in [Memory -> Cell], NEW t \in Seq(Chars), NEW temp \in Nat,
         temp < Width * (Height - 1), Scrolling(cell, t, temp),
         NEW next, next = [cell EXCEPT ![temp] = cell[temp + Width], ![temp + Width] = Cleared]
  PROVE  Scrolling(next, t, temp + 1)
<1> DEFINE w == Width * (Height - 1)
           v == Width * Height
           g == Gone(t)
           i == temp
           j == temp + Width
           from == cell[j]
<1>0. Width \in Nat /\ Width > 1 BY Sizes
<1>1. w \in Nat /\ v = w + Width /\ i < w /\ Cells = 0 .. (v - 1) BY Sizes, MemoryFacts
<1> HIDE DEF w, v, g
<1>2. i \in Cells /\ j \in Cells /\ i # j BY <1>0, <1>1
<1>3. \A a \in Cells : a \in Memory /\ a \in Nat BY <1>1, MemoryFacts
<1>4. next = [cell EXCEPT ![i] = from, ![j] = Cleared] OBVIOUS
<1>5. \A a \in Cells : next[a] = IF a = j THEN Cleared ELSE IF a = i THEN from ELSE cell[a]
  <2> HIDE DEF i, j, from
  <2>q. QED BY <1>2, <1>3, <1>4
<1>6. \A a \in Cells :
        cell[a].char = IF a < temp THEN PrintedAt(t, g, a + Width)
                       ELSE IF a < temp + Width /\ a >= Width THEN " "
                       ELSE PrintedAt(t, g, a)
  BY DEF Scrolling, g
<1>7. from.char = PrintedAt(t, g, j)
  <2>1. ~(j < temp) /\ ~(j < temp + Width /\ j >= Width) BY <1>0
  <2>q. QED BY <1>2, <1>6, <2>1
<1>8. ASSUME NEW a \in Cells
      PROVE  next[a].char = IF a < temp + 1 THEN PrintedAt(t, g, a + Width)
                            ELSE IF a < (temp + 1) + Width /\ a >= Width THEN " "
                            ELSE PrintedAt(t, g, a)
  <2>0. a \in Nat BY <1>3
  <2>1. CASE a = j
    <3>1. next[a] = Cleared BY <1>5, <2>1
    <3>2. ~(a < temp + 1) /\ a < (temp + 1) + Width /\ a >= Width BY <1>0, <2>0, <2>1
    <3>q. QED BY <3>1, <3>2, CellsTyped
  <2>2. CASE a = i
    <3>1. next[a] = from BY <1>2, <1>5, <2>2
    <3>2. a < temp + 1 /\ a + Width = j BY <1>0, <2>0, <2>2
    <3>q. QED BY <1>7, <3>1, <3>2
  <2>3. CASE a # i /\ a # j
    <3>1. next[a] = cell[a] BY <1>5, <2>3
    <3>2. /\ a < temp + 1 <=> a < temp
          /\ a < (temp + 1) + Width <=> a < temp + Width
      BY <1>0, <2>0, <2>3
    <3> DEFINE p == PrintedAt(t, g, a + Width)
               q == PrintedAt(t, g, a)
    <3>3. cell[a].char = IF a < temp THEN p ELSE IF a < temp + Width /\ a >= Width THEN " " ELSE q
      BY <1>6
    <3> HIDE DEF p, q
    <3>4. next[a].char = IF a < temp + 1 THEN p
                         ELSE IF a < (temp + 1) + Width /\ a >= Width THEN " " ELSE q
      BY <3>1, <3>2, <3>3
    <3>q. QED BY <3>4 DEF p, q
  <2>q. QED BY <2>1, <2>2, <2>3
<1>q. QED BY <1>8 DEF Scrolling, g

\* And when the last one has, the screen has moved by a row.
LEMMA ScrollEnds ==
  ASSUME NEW c \in Consoles, NEW t \in Seq(Chars), Full(t), c.y = Height - 1, c.x = 0,
         Scrolling(c.cell, t, Width * (Height - 1))
  PROVE  Roomed(c, t)
<1> DEFINE w == Width * (Height - 1)
           v == Width * Height
           g == Gone(t)
           o == Over(End(t).row)
<1>0. Width \in Nat /\ Width > 1 BY Sizes
<1>1. w \in Nat /\ v = w + Width /\ w >= Width /\ Cells = 0 .. (v - 1) BY Sizes, MemoryFacts
<1>2. /\ o = g + 1 /\ End(t).row - (g + 1) = Height - 1 /\ End(t).column = 0
      /\ \A a \in Cells : PrintedAt(t, g + 1, a) =
           IF a < w THEN PrintedAt(t, g, a + Width) ELSE " "
  BY FullFacts DEF Full
<1>3. \A a \in Cells :
        c.cell[a].char = IF a < w THEN PrintedAt(t, g, a + Width)
                         ELSE IF a < w + Width /\ a >= Width THEN " " ELSE PrintedAt(t, g, a)
  BY DEF Scrolling
<1> HIDE DEF w, v, g, o
<1>4. \A a \in Cells : a < w \/ (~(a < w) /\ a < w + Width /\ a >= Width) BY <1>0, <1>1
<1>5. \A a \in Cells : c.cell[a].char = PrintedAt(t, g + 1, a) BY <1>2, <1>3, <1>4
<1>6. Shows(c.cell, t, o) BY <1>2, <1>5 DEF Shows
<1>7. c.y = End(t).row - o BY <1>2
<1>q. QED BY <1>2, <1>6, <1>7 DEF Roomed, Behind, o

\* Every access of vga_putEntry keeps what the screen shows.
LEMMA AccessStands ==
  ASSUME Sound, Access, Stands(main.pc, con, text, main.char, main.temp)
  PROVE  Stands(main'.pc, con', text', main.char, main'.temp)
<1> DEFINE t == text
           g == Gone(t)
           char == main.char
           temp == main.temp
           Goal == Stands(main'.pc, con', text', char, main'.temp)
<1>0. Width \in Nat /\ Width > 1 /\ Height \in Nat /\ Height > 1 BY Sizes
<1>1. /\ AccessDoes /\ con \in Consoles /\ con' \in Consoles /\ t \in Seq(Chars)
      /\ char \in Chars /\ temp \in Nat /\ NewLine \in Chars
  BY AccessFacts, StdioAssumption DEF Sound, TypeOK, MainSet
<1>2. Stands(main.pc, con, t, char, temp) OBVIOUS
<1>3. con.x \in 0 .. Width /\ con.y \in 0 .. (Height + 1) /\ con.cell \in [Memory -> Cell]
  BY <1>1 DEF Consoles
<1> HIDE DEF t, char, temp
<1>4. ASSUME MakeRoomDoes PROVE Goal
  <2>1. main.pc = "room" /\ con' = con /\ text' = t BY <1>4 DEF MakeRoomDoes, t
  <2>2. Settled(con, t) BY <1>2, <2>1 DEF Stands
  <2>3. CASE con.y > Height - 1
    <3>1. main'.pc = "clampY" BY <1>4, <2>3 DEF MakeRoomDoes
    <3>2. Full(t) BY <1>1, <2>2, <2>3, SettledRoomed
    <3>q. QED BY <2>1, <2>2, <3>1, <3>2 DEF Stands
  <2>4. CASE ~(con.y > Height - 1)
    <3>1. con.y <= Height - 1 BY <1>0, <1>3, <2>4
    <3>2. main'.pc = IF char = NewLine THEN "line" ELSE "row" BY <1>4, <3>1 DEF MakeRoomDoes, char
    <3>3. Roomed(con, t) BY <1>1, <2>2, <3>1, SettledRoomed
    <3>q. QED BY <2>1, <3>2, <3>3 DEF Stands
  <2>q. QED BY <2>3, <2>4
<1>5. ASSUME ClampYDoes PROVE Goal
  <2>1. main.pc = "clampY" /\ main'.pc = "clampX" /\ text' = t /\ con'.y = Height - 1
        /\ con'.cell = con.cell
    BY <1>5 DEF ClampYDoes, t
  <2>2. Settled(con, t) /\ Full(t) BY <1>2, <2>1 DEF Stands
  <2>3. Shows(con.cell, t, g) BY <2>2 DEF Settled, Behind
  <2>q. QED BY <2>1, <2>2, <2>3 DEF Stands
<1>6. ASSUME ClampXDoes PROVE Goal
  <2>1. /\ main.pc = "clampX" /\ main'.pc = "scroll" /\ main'.temp = 0 /\ text' = t
        /\ con'.y = con.y /\ con'.x = 0 /\ con'.cell = con.cell
    BY <1>6 DEF ClampXDoes, t
  <2>2. Shows(con.cell, t, g) /\ Full(t) /\ con.y = Height - 1 BY <1>2, <2>1 DEF Stands
  <2>3. Scrolling(con.cell, t, 0)
    <3>1. \A a \in Cells : ~(a < 0) /\ ~(a < 0 + Width /\ a >= Width)
      BY <1>0, MemoryFacts, Sizes
    <3>q. QED BY <2>2, <3>1 DEF Shows, Scrolling
  <2>q. QED BY <2>1, <2>2, <2>3 DEF Stands
<1>7. ASSUME ScrollCellDoes PROVE Goal
  <2> DEFINE w == Width * (Height - 1)
  <2>1. /\ main.pc = "scroll" /\ text' = t /\ con'.y = con.y /\ con'.x = con.x
        /\ con'.cell = [con.cell EXCEPT ![temp] = con.cell[temp + Width],
                                        ![temp + Width] = Cleared]
    BY <1>7 DEF ScrollCellDoes, t, temp
  <2>2. Scrolling(con.cell, t, temp) /\ Full(t) /\ con.y = Height - 1 /\ con.x = 0
    BY <1>2, <2>1 DEF Stands
  <2>3. temp < w /\ w \in Nat BY <2>1, Sizes DEF Sound, Bounded, temp
  <2>4. Scrolling(con'.cell, t, temp + 1)
    <3> DEFINE cell == con.cell
               next == con'.cell
    <3> HIDE DEF cell, next
    <3>1. /\ cell \in [Memory -> Cell] /\ Scrolling(cell, t, temp)
          /\ next = [cell EXCEPT ![temp] = cell[temp + Width], ![temp + Width] = Cleared]
      BY <1>3, <2>1, <2>2 DEF cell, next
    <3>2. Scrolling(next, t, temp + 1) BY <1>1, <2>3, <3>1, ScrollStep
    <3>q. QED BY <3>2 DEF next
  <2>5. CASE temp + 1 < w
    <3>1. main'.pc = "scroll" /\ main'.temp = temp + 1 BY <1>7, <2>5 DEF ScrollCellDoes, temp
    <3>q. QED BY <2>1, <2>2, <2>4, <3>1 DEF Stands
  <2>6. CASE ~(temp + 1 < w)
    <3>1. main'.pc = IF char = NewLine THEN "line" ELSE "row"
      BY <1>7, <2>6 DEF ScrollCellDoes, temp, char
    <3>2. temp + 1 = w
      <4> HIDE DEF w
      <4>q. QED BY <1>1, <2>3, <2>6
    <3>3. Scrolling(con'.cell, t, w) BY <2>4, <3>2
    <3>4. Roomed(con', t)
      <4> DEFINE d == con'
      <4> HIDE DEF d
      <4>1. d \in Consoles /\ d.y = Height - 1 /\ d.x = 0 /\ Scrolling(d.cell, t, w)
        BY <1>1, <2>1, <2>2, <3>3 DEF d
      <4>2. Roomed(d, t) BY <1>1, <2>2, <4>1, ScrollEnds
      <4>q. QED BY <4>2 DEF d
    <3>q. QED BY <2>1, <3>1, <3>4 DEF Stands
  <2>q. QED BY <2>5, <2>6
<1>8. ASSUME LoadYDoes PROVE Goal
  <2>1. CASE main.pc = "line"
    <3>1. con' = con /\ main'.pc = "lineStore" /\ text' = Append(t, NewLine) /\ main'.temp = con.y
      BY <1>8, <2>1 DEF LoadYDoes, t
    <3>2. Roomed(con, t) BY <1>2, <2>1 DEF Stands
    <3> DEFINE u == Append(t, NewLine)
               h == Gone(u)
    <3>3. /\ End(u).column = 0 /\ End(u).row - h = con.y + 1
          /\ \A a \in Cells : PrintedAt(u, h, a) = con.cell[a].char
      BY <1>1, <3>2, NextCharacter
    <3> HIDE DEF u, h
    <3>4. LineToCome(con, u) BY <3>3 DEF LineToCome, Shows, h
    <3>q. QED BY <3>1, <3>4 DEF Stands, u
  <2>2. CASE main.pc = "wrapY"
    <3>1. con' = con /\ main'.pc = "wrapStore" /\ text' = t /\ main'.temp = con.y
      BY <1>8, <2>2 DEF LoadYDoes, t
    <3>2. LineToCome(con, t) /\ con.x = 0 BY <1>2, <2>2 DEF Stands
    <3>q. QED BY <3>1, <3>2 DEF Stands
  <2>q. QED BY <1>8, <2>1, <2>2 DEF LoadYDoes
<1>9. ASSUME StoreYDoes PROVE Goal
  <2>1. con'.y = temp + 1 /\ con'.x = con.x /\ con'.cell = con.cell /\ text' = t
    BY <1>9 DEF StoreYDoes, t, temp
  <2>2. CASE main.pc = "lineStore"
    <3>1. main'.pc = "lineX" BY <1>9, <2>2 DEF StoreYDoes
    <3>2. LineToCome(con, t) /\ temp = con.y BY <1>2, <2>2 DEF Stands
    <3>q. QED BY <2>1, <3>1, <3>2 DEF Stands, LineToCome
  <2>3. CASE main.pc = "wrapStore"
    <3>1. main'.pc = "next" BY <1>9, <2>3 DEF StoreYDoes
    <3>2. LineToCome(con, t) /\ temp = con.y /\ con.x = 0 BY <1>2, <2>3 DEF Stands
    <3>3. Settled(con', t) BY <2>1, <3>2 DEF LineToCome, Settled, Behind
    <3>q. QED BY <2>1, <3>1, <3>3 DEF Stands
  <2>q. QED BY <1>9, <2>2, <2>3 DEF StoreYDoes
<1>10. ASSUME ClearXDoes PROVE Goal
  <2>1. con'.y = con.y /\ con'.x = 0 /\ con'.cell = con.cell /\ text' = t
    BY <1>10 DEF ClearXDoes, t
  <2>2. CASE main.pc = "lineX"
    <3>1. main'.pc = "next" BY <1>10, <2>2 DEF ClearXDoes
    <3>2. Shows(con.cell, t, g) /\ End(t).column = 0 /\ End(t).row - g = con.y
      BY <1>2, <2>2 DEF Stands
    <3>3. Settled(con', t) BY <2>1, <3>2 DEF Settled, Behind
    <3>q. QED BY <2>1, <3>1, <3>3 DEF Stands
  <2>3. CASE main.pc = "wrapX"
    <3>1. main'.pc = "wrapY" BY <1>10, <2>3 DEF ClearXDoes
    <3>2. LineToCome(con, t) BY <1>2, <2>3 DEF Stands
    <3>3. LineToCome(con', t) BY <2>1, <3>2 DEF LineToCome
    <3>q. QED BY <2>1, <3>1, <3>3 DEF Stands
  <2>q. QED BY <1>10, <2>2, <2>3 DEF ClearXDoes
<1>11. ASSUME RowDoes PROVE Goal
  <2>1. /\ main.pc = "row" /\ main'.pc = "column" /\ main'.temp = Width * con.y
        /\ con' = con /\ text' = Append(t, char)
    BY <1>11 DEF RowDoes, t, char
  <2>2. Roomed(con, t) /\ char # NewLine BY <1>2, <2>1 DEF Stands
  <2> DEFINE u == Append(t, char)
             h == Gone(u)
  <2>3. /\ con.y \in 0 .. (Height - 1) /\ con.x \in 0 .. (Width - 1)
        /\ End(u) = Following([row |-> con.y + h, column |-> con.x], char)
        /\ \A a \in Cells : PrintedAt(u, h, a) =
             IF char # NewLine /\ a = Width * con.y + con.x THEN char ELSE con.cell[a].char
    BY <1>1, <2>2, NextCharacter
  <2> HIDE DEF u, h
  <2>4. OnPlace(con, u, char) BY <2>2, <2>3 DEF OnPlace, h
  <2>5. ShowsBut(con, u, char) BY <2>2, <2>3 DEF ShowsBut, h
  <2>q. QED BY <2>1, <2>4, <2>5 DEF Stands, u
<1>12. ASSUME ColumnDoes PROVE Goal
  <2>1. /\ main.pc = "column" /\ main'.pc = "write" /\ text' = t /\ con'.y = con.y
        /\ con'.x = con.x /\ con'.cell = con.cell /\ con'.index = temp + con.x
    BY <1>12 DEF ColumnDoes, t, temp
  <2>2. OnPlace(con, t, char) /\ ShowsBut(con, t, char) /\ temp = Width * con.y
    BY <1>2, <2>1 DEF Stands
  <2>3. OnPlace(con', t, char) BY <2>1, <2>2 DEF OnPlace
  <2>4. ShowsBut(con', t, char) BY <2>1, <2>2 DEF ShowsBut
  <2>5. con'.index = Width * con'.y + con'.x BY <2>1, <2>2
  <2>q. QED BY <2>1, <2>3, <2>4, <2>5 DEF Stands
<1>13. ASSUME WriteDoes PROVE Goal
  <2> DEFINE e == [char |-> char, color |-> LightGrey]
             i == con.index
  <2>1. /\ main.pc = "write" /\ main'.pc = "load" /\ text' = t
        /\ con'.y = con.y /\ con'.x = con.x
        /\ con'.cell = [con.cell EXCEPT ![i] = e]
    BY <1>13 DEF WriteDoes, t, char
  <2>2. OnPlace(con, t, char) /\ ShowsBut(con, t, char) /\ i = Width * con.y + con.x
    BY <1>2, <2>1 DEF Stands
  <2>3. OnPlace(con', t, char) BY <2>1, <2>2 DEF OnPlace
  <2>4. e.char = char OBVIOUS
  <2> HIDE DEF e, i
  <2>5. \A a \in Cells : con'.cell[a] = IF a = i THEN e ELSE con.cell[a]
    BY <1>3, <2>1, MemoryFacts
  <2>6. Shows(con'.cell, t, g) BY <2>2, <2>4, <2>5 DEF ShowsBut, Shows
  <2>q. QED BY <2>1, <2>3, <2>6 DEF Stands
<1>14. ASSUME LoadXDoes PROVE Goal
  <2>1. main.pc = "load" /\ main'.pc = "store" /\ main'.temp = con.x /\ con' = con /\ text' = t
    BY <1>14 DEF LoadXDoes, t
  <2>2. OnPlace(con, t, char) /\ Shows(con.cell, t, g) BY <1>2, <2>1 DEF Stands
  <2>q. QED BY <2>1, <2>2 DEF Stands
<1>15. ASSUME StoreXDoes PROVE Goal
  <2>1. /\ main.pc = "store" /\ main'.pc = "wrap" /\ text' = t
        /\ con'.y = con.y /\ con'.x = temp + 1 /\ con'.cell = con.cell
    BY <1>15 DEF StoreXDoes, t, temp
  <2>2. OnPlace(con, t, char) /\ Shows(con.cell, t, g) /\ temp = con.x BY <1>2, <2>1 DEF Stands
  <2> DEFINE p == [row |-> con.y + g, column |-> con.x]
  <2>3. /\ char # NewLine /\ con.x \in 0 .. (Width - 1) /\ con.y \in 0 .. (Height - 1)
        /\ End(t) = Following(p, char)
    BY <2>2 DEF OnPlace
  <2>4. g \in Nat BY <1>1, GoneOver
  <2> HIDE DEF g
  <2>5. con.y + g \in Nat BY <1>0, <2>3, <2>4
  <2>6. p \in Positions /\ p.row = con.y + g /\ p.column = con.x
    BY <2>3, <2>5 DEF Positions
  <2> HIDE DEF p
  <2>7. /\ p.column + 1 = Width => End(t).row = p.row + 1 /\ End(t).column = 0
        /\ p.column + 1 # Width => End(t).row = p.row /\ End(t).column = p.column + 1
    <3> DEFINE q == Following(p, char)
    <3>1. /\ char = NewLine \/ p.column + 1 = Width => q.row = p.row + 1 /\ q.column = 0
          /\ ~(char = NewLine \/ p.column + 1 = Width) =>
               q.row = p.row /\ q.column = p.column + 1
      BY <2>6, FollowingFacts
    <3> HIDE DEF q
    <3>2. End(t) = q BY <2>3 DEF q
    <3>q. QED BY <2>3, <3>1, <3>2
  <2>8. CASE con.x + 1 = Width
    <3>1. /\ con'.x >= Width /\ End(t).column = 0 /\ End(t).row - g = con'.y + 1
      BY <1>0, <2>1, <2>2, <2>3, <2>4, <2>6, <2>7, <2>8
    <3>2. LineToCome(con', t) BY <2>1, <2>2, <3>1 DEF LineToCome, g
    <3>q. QED BY <2>1, <3>1, <3>2 DEF Stands
  <2>9. CASE con.x + 1 # Width
    <3>1. /\ con'.x < Width /\ End(t).column = con'.x /\ End(t).row - g = con'.y
      BY <1>0, <2>1, <2>2, <2>3, <2>4, <2>6, <2>7, <2>9
    <3>2. Settled(con', t) BY <2>1, <2>2, <3>1 DEF Settled, Behind, g
    <3>q. QED BY <2>1, <3>1, <3>2 DEF Stands
  <2>q. QED BY <2>8, <2>9
<1>16. ASSUME WrapDoes PROVE Goal
  <2>1. main.pc = "wrap" /\ con' = con /\ text' = t BY <1>16 DEF WrapDoes, t
  <2>2. CASE con.x >= Width
    <3>1. main'.pc = "wrapX" BY <1>16, <2>2 DEF WrapDoes
    <3>2. ~(con.x < Width) BY <1>0, <1>3, <2>2
    <3>3. LineToCome(con, t) BY <1>2, <2>1, <3>2 DEF Stands
    <3>q. QED BY <2>1, <2>2, <3>1, <3>3 DEF Stands
  <2>3. CASE ~(con.x >= Width)
    <3>1. con.x < Width BY <1>0, <1>3, <2>3
    <3>2. main'.pc = "next" BY <1>16, <3>1 DEF WrapDoes
    <3>3. Settled(con, t) BY <1>2, <2>1, <2>3 DEF Stands
    <3>q. QED BY <2>1, <3>2, <3>3 DEF Stands
  <2>q. QED BY <2>2, <2>3
<1> HIDE DEF Goal
<1>17. Goal
  BY <1>1, <1>4, <1>5, <1>6, <1>7, <1>8, <1>9, <1>10, <1>11, <1>12, <1>13, <1>14, <1>15, <1>16
  DEF AccessDoes
<1>q. QED BY <1>17 DEF Goal, char

\* The mouse changes colors only.
LEMMA SameCharacters ==
  ASSUME NEW c, NEW d, NEW pc, NEW t, NEW char, NEW temp, Stands(pc, c, t, char, temp),
         d.x = c.x, d.y = c.y, d.index = c.index,
         \A a \in Cells : d.cell[a].char = c.cell[a].char
  PROVE  Stands(pc, d, t, char, temp)
<1>1. \A g : Shows(c.cell, t, g) => Shows(d.cell, t, g) BY DEF Shows
<1>2. /\ Settled(c, t) => Settled(d, t)
      /\ Roomed(c, t) => Roomed(d, t)
      /\ LineToCome(c, t) => LineToCome(d, t)
  BY <1>1 DEF Settled, Roomed, Behind, LineToCome
<1>3. Scrolling(c.cell, t, temp) => Scrolling(d.cell, t, temp) BY DEF Scrolling
<1>4. ShowsBut(c, t, char) => ShowsBut(d, t, char) BY DEF ShowsBut
<1>5. OnPlace(c, t, char) => OnPlace(d, t, char) BY DEF OnPlace
<1>q. QED BY <1>1, <1>2, <1>3, <1>4, <1>5 DEF Stands

LEMMA PrintingMain ==
  ASSUME Sound, Printing, Main
  PROVE  Printing'
<1>1. main \in MainSet /\ con \in Consoles /\ mouse \in [x : 0 .. (Width - 1), y : 0 .. (Height - 1)]
      /\ \A a \in Cells : a \in Memory
  BY MemoryFacts DEF Sound, TypeOK, MainTyped, MainSet
<1>2. ASSUME main.pc = "next", main'.pc \in {"next", "room"}, UNCHANGED <<text, torn>>,
             con'.x = con.x, con'.y = con.y, \A a \in Cells : con'.cell[a].char = con.cell[a].char
      PROVE  Printing'
  <2>1. SUFFICES ASSUME ~torn
                 PROVE  Stands(main'.pc, con', text, main'.char, main'.temp)
    BY <1>2 DEF Printing
  <2>2. Stands(main.pc, con, text, main.char, main.temp) BY <2>1 DEF Printing
  <2>3. Settled(con, text) BY <1>2, <2>2 DEF Stands
  <2>4. Settled(con', text) BY <1>2, <2>3 DEF Settled, Behind, Shows
  <2>q. QED BY <1>2, <2>4 DEF Stands
<1>3. CASE Call \/ Convert \/ PutChar \/ Activate
  <2>1. main.pc = "next" /\ con' = con /\ UNCHANGED <<text, torn>>
    BY <1>3 DEF Call, Convert, PutChar, Activate
  <2>2. main'.pc \in {"next", "room"}
    <3>1. CASE Call \/ Convert \/ Activate
      BY <1>1, <3>1 DEF Call, Convert, Activate, MainSet
    <3>2. CASE PutChar
      <4> DEFINE c == IF main.ops[1].op = "show" THEN con.foo[main.ops[1].at]
                      ELSE main.ops[1].char
      <4>1. main' = [main EXCEPT !.ops = Tail(@), !.char = c, !.pc = "room"]
        BY <3>2 DEF PutChar
      <4> HIDE DEF c
      <4>q. QED BY <1>1, <4>1 DEF MainSet
    <3>q. QED BY <1>3, <3>1, <3>2
  <2>q. QED BY <1>2, <2>1, <2>2
<1>4. CASE StoreDigit
  <2> DEFINE o == main.ops[1]
  <2>1. main.pc = "next" /\ main' = [main EXCEPT !.ops = Tail(@)] /\ UNCHANGED <<text, torn>>
    BY <1>4 DEF StoreDigit
  <2>2. con' = [con EXCEPT !.foo[o.at] = o.char] BY <1>4 DEF StoreDigit
  <2>3. con'.x = con.x /\ con'.y = con.y /\ con'.cell = con.cell BY <1>1, <2>2 DEF Consoles
  <2>4. main'.pc = "next" BY <1>1, <2>1 DEF MainSet
  <2>q. QED BY <1>2, <2>1, <2>3, <2>4
<1>5. CASE ConstructMouse
  <2>1. /\ main.pc = "next" /\ main' = [main EXCEPT !.calls = Tail(@)] /\ UNCHANGED <<text, torn>>
        /\ con' = [con EXCEPT !.cell = Invert(@, mouse)]
    BY <1>5 DEF ConstructMouse
  <2>2. main'.pc = "next" BY <1>1, <2>1 DEF MainSet
  <2>3. /\ con'.x = con.x /\ con'.y = con.y
        /\ \A a \in Memory : con'.cell[a].char = con.cell[a].char
    BY <1>1, <2>1, InvertTyped
  <2>q. QED BY <1>1, <1>2, <2>1, <2>2, <2>3
<1>6. CASE Access
  <2>1. torn' = torn /\ main'.char = main.char BY <1>6, AccessFacts DEF SameCall
  <2>2. SUFFICES ASSUME ~torn
                 PROVE  Stands(main'.pc, con', text', main'.char, main'.temp)
    BY <2>1 DEF Printing
  <2>3. Stands(main.pc, con, text, main.char, main.temp) BY <2>2 DEF Printing
  <2>4. Stands(main'.pc, con', text', main.char, main'.temp) BY <1>6, <2>3, AccessStands
  <2>q. QED BY <2>1, <2>4
<1>q. QED BY <1>3, <1>4, <1>5, <1>6 DEF Main, Access

LEMMA PrintingInterrupt ==
  ASSUME Sound, Printing, Interrupt
  PROVE  Printing'
<1>0. Width \in Nat /\ Height \in Nat BY Sizes
<1>1. /\ main.pc \in Pcs /\ con \in Consoles /\ text \in Seq(Chars) /\ Bounded
      /\ mouse \in [x : 0 .. (Width - 1), y : 0 .. (Height - 1)]
      /\ \A a \in Cells : a \in Memory
  BY MemoryFacts DEF Sound, TypeOK, MainTyped
<1>2. con.x \in 0 .. Width /\ con.y \in 0 .. (Height + 1) BY <1>1 DEF Consoles
<1>3. CASE Prints
  <2>1. PICK ops \in Seq(Op) : Backed(ops) /\ HandlerPrints(ops) BY <1>3 DEF Prints
  <2>2. /\ con' = RunUpTo(con, ops)[Len(ops)] /\ con' \in Consoles
        /\ con.x <= Width - 1 => con'.x <= Width - 1
        /\ text' = text \o Characters(ops) /\ text' \in Seq(Chars) /\ main' = main
        /\ ~torn' => ~torn /\ ~Tears(con')
    BY <2>1, PrintsFacts
  <2>3. SUFFICES ASSUME ~torn, ~Tears(con')
                 PROVE  Stands(main.pc, con', text', main.char, main.temp)
    BY <2>2 DEF Printing
  <2>4. Stands(main.pc, con, text, main.char, main.temp) BY <2>3 DEF Printing
  <2>5. /\ main.pc \in {"next", "room", "line", "row", "wrap"}
        /\ main.pc \in {"line", "row"} => ~(con'.y > Height - 1)
        /\ main.pc = "wrap" => ~(con.x >= Width)
    <3>1. /\ main.pc \notin {"clampY", "clampX", "scroll", "column", "write", "load", "store",
                             "wrapX", "wrapY", "wrapStore", "lineStore", "lineX"}
          /\ main.pc \in {"line", "row"} => ~(con'.y > Height - 1)
          /\ main.pc = "wrap" => ~(con.x >= Width)
      BY <2>3 DEF Tears
    <3>q. QED BY <1>1, <3>1 DEF Pcs
  <2> DEFINE d == con'
             u == text'
  <2>6. d \in Consoles /\ u \in Seq(Chars) BY <2>2
  <2>7. Settled(con, text) \/ Roomed(con, text) => ShownAfter(con, text, d, u)
    <3>1. Settled(con, text) \/ Roomed(con, text) =>
            ShownAfter(con, text, RunUpTo(con, ops)[Len(ops)], text \o Characters(ops))
      BY <1>1, <2>1, RunShows
    <3>q. QED BY <2>2, <3>1
  <2> HIDE DEF d, u
  <2>8. CASE main.pc \in {"next", "room"}
    <3>1. Settled(con, text) BY <2>4, <2>8 DEF Stands
    <3>2. Settled(d, u) BY <2>7, <3>1 DEF ShownAfter
    <3>q. QED BY <2>8, <3>2 DEF Stands, d, u
  <2>9. CASE main.pc \in {"line", "row"}
    <3>1. Roomed(con, text) BY <2>4, <2>9 DEF Stands
    <3>2. Settled(d, u) \/ Roomed(d, u) BY <2>7, <3>1 DEF ShownAfter
    <3>3. d.y <= Height - 1
      <4>1. ~(d.y > Height - 1) BY <2>5, <2>9 DEF d
      <4>2. d.y \in Int BY <1>0, <2>6 DEF Consoles
      <4>q. QED BY <1>0, <4>1, <4>2
    <3>4. Roomed(d, u) BY <2>6, <3>2, <3>3, SettledRoomed
    <3>5. /\ main.pc = "line" => main.char = NewLine
          /\ main.pc = "row" => main.char # NewLine
      BY <2>4 DEF Stands
    <3>q. QED BY <2>9, <3>4, <3>5 DEF Stands, d, u
  <2>10. CASE main.pc = "wrap"
    <3>1. con.x < Width BY <1>0, <1>2, <2>5, <2>10
    <3>2. Settled(con, text) BY <2>4, <2>5, <2>10 DEF Stands
    <3>3. Settled(d, u) BY <2>7, <3>2 DEF ShownAfter
    <3>4. d.x < Width
      <4>1. con.x <= Width - 1 BY <1>0, <1>2, <3>1
      <4>2. d.x <= Width - 1 BY <2>2, <4>1 DEF d
      <4>3. d.x \in Int BY <1>0, <2>6 DEF Consoles
      <4>q. QED BY <1>0, <4>2, <4>3
    <3>q. QED BY <2>10, <3>3, <3>4 DEF Stands, d, u
  <2>q. QED BY <2>5, <2>8, <2>9, <2>10
<1>4. CASE \E m \in Moves : OnMouseMove(m)
  <2>1. PICK m \in Moves : OnMouseMove(m) BY <1>4
  <2> DEFINE c == [con EXCEPT !.cell = Invert(@, mouse)]
             n == Invert(con.cell, mouse)
  <2>2. /\ mouse' \in [x : 0 .. (Width - 1), y : 0 .. (Height - 1)]
        /\ con'.x = con.x /\ con'.y = con.y /\ con'.index = con.index
        /\ con'.cell = Invert(n, mouse')
        /\ UNCHANGED <<main, text, torn>>
    BY <2>1, MovesFacts
  <2>3. c \in Consoles /\ c.cell = n /\ \A a \in Memory : n[a].char = con.cell[a].char
    BY <1>1, InvertTyped
  <2> HIDE DEF c, n
  <2>4. \A a \in Memory : con'.cell[a].char = con.cell[a].char
    <3> DEFINE new == mouse'
               cell == con'.cell
    <3>1. new \in [x : 0 .. (Width - 1), y : 0 .. (Height - 1)] /\ cell = Invert(n, new)
      BY <2>2
    <3> HIDE DEF new, cell
    <3>2. \A a \in Memory : Invert(c.cell, new)[a].char = c.cell[a].char
      BY <2>3, <3>1, InvertTyped
    <3>3. \A a \in Memory : cell[a].char = con.cell[a].char BY <2>3, <3>1, <3>2
    <3>q. QED BY <3>3 DEF cell
  <2>5. SUFFICES ASSUME ~torn
                 PROVE  Stands(main.pc, con', text, main.char, main.temp)
    BY <2>2 DEF Printing
  <2>6. Stands(main.pc, con, text, main.char, main.temp) BY <2>5 DEF Printing
  <2> DEFINE d == con'
  <2>7. /\ d.x = con.x /\ d.y = con.y /\ d.index = con.index
        /\ \A a \in Cells : d.cell[a].char = con.cell[a].char
    BY <1>1, <2>2, <2>4
  <2> HIDE DEF d
  <2>8. Stands(main.pc, d, text, main.char, main.temp) BY <2>6, <2>7, SameCharacters
  <2>q. QED BY <2>8 DEF d
<1>q. QED BY <1>3, <1>4, InterruptCases

\* The screen shows the end of everything kernel_main and the handlers
\* printed, in the order of text, with nothing lost, doubled or out of place,
\* unless a handler printed at one of the places of vga_putEntry, or between
\* the halves of printfHex, that Tears names.
THEOREM ScreenShowsText == Spec => []ShowsWhatWasPrinted
<1>1. Init => Sound /\ Printing BY InitSound, PrintingInit
<1>2. Sound /\ Printing /\ [Next]_vars => (Sound /\ Printing)'
  <2> SUFFICES ASSUME Sound, Printing, [Next]_vars PROVE Sound' /\ Printing'
    OBVIOUS
  <2>1. CASE UNCHANGED vars
    <3>1. UNCHANGED <<con, main, text, torn>> BY <2>1 DEF vars
    <3>q. QED BY <2>1, <3>1, NextKeepsSound DEF Printing
  <2>q. QED BY <2>1, NextKeepsSound, PrintingMain, PrintingInterrupt DEF Next
<1>3. Printing => ShowsWhatWasPrinted
  <2>1. SUFFICES ASSUME Printing, main.pc = "next", ~torn, NEW a \in Cells
                 PROVE  con.cell[a].char = Printed(text, a)
    BY DEF ShowsWhatWasPrinted
  <2>2. Stands("next", con, text, main.char, main.temp) BY <2>1 DEF Printing
  <2>3. Settled(con, text) BY <2>2 DEF Stands
  <2>4. con.cell[a].char = PrintedAt(text, Gone(text), a)
    BY <2>3 DEF Settled, Behind, Shows
  <2>q. QED BY <2>4, PrintedIs
<1>q. QED BY <1>1, <1>2, <1>3, PTL DEF Spec
==============================================================================
