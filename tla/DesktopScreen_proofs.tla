------------------------ MODULE DesktopScreen_proofs ------------------------
(****************************************************************************)
(* Proofs about Desktop and DesktopScreen, for every screen, any windows on *)
(* it and any packets of the mouse: the window in front follows the cursor  *)
(* only while it is held and stays reachable; no window moves otherwise     *)
(* than with the cursor; a press of the button reaches what is drawn under  *)
(* the cursor; and FillRect, with its running unsigned offset, paints the   *)
(* rectangle it is asked to paint.                                          *)
(****************************************************************************)
EXTENDS DesktopScreen, TLAPS, WellFoundedInduction

----------------------------------------------------------------------------
\* The cursor and the windows.

Places == [Children -> [x : Int, y : Int]]
Points == [x : Int, y : Int]

\* What a packet is computed from, for a movement that is not nothing.
AfterMove(delta) == IF delta = <<0, 0>> THEN cursor ELSE Moved(cursor, delta)
PlacesAfter(delta) == IF delta = <<0, 0>> THEN at ELSE Dragged(cursor, AfterMove(delta))

LEMMA ConstantsTyped ==
  /\ Width \in Nat \ {0} /\ Height \in Nat \ {0}
  /\ 1 \in Children /\ Children \subseteq Nat \ {0}
  /\ \A i \in Children : Windows[i] \in [x : Int, y : Int, w : Nat, h : Nat]
  /\ Steps \subseteq Int \X Int
<1> DEFINE Frames == [x : Int, y : Int, w : Nat, h : Nat]
<1>1. Windows \in Seq(Frames) /\ Len(Windows) > 0 /\ Len(Windows) \in Nat
  BY DesktopAssumption
<1>2. \A i \in 1 .. Len(Windows) : Windows[i] \in Frames
  <2> HIDE DEF Frames
  <2> QED
    BY <1>1
<1> QED
  BY <1>1, <1>2, DesktopAssumption DEF Children

\* No child is before the first one: it is hit wherever it is.
LEMMA FrontIsHit ==
  ASSUME NEW places, NEW p
  PROVE  /\ 1 \in Hit(places, p) <=> Contains(places, 1, p)
         /\ Contains(places, 1, p) => Hit(places, p) = {1}
<1>1. \A j \in Children : ~ j < 1
  BY ConstantsTyped
<1>2. \A i \in Children : i # 1 => 1 < i
  BY ConstantsTyped
<1> QED
  BY <1>1, <1>2, ConstantsTyped DEF Hit

LEMMA HitsChildren ==
  ASSUME NEW places, NEW p
  PROVE  Hit(places, p) \subseteq Children
BY DEF Hit

LEMMA ClampedOnScreen ==
  ASSUME NEW v \in Int, NEW limit \in Nat \ {0}
  PROVE  Clamped(v, limit) \in 0 .. (limit - 1)
BY DEF Clamped

LEMMA MovedOnScreen ==
  ASSUME NEW p \in Points, NEW delta \in Int \X Int
  PROVE  Moved(p, delta) \in Points /\ OnScreen(Moved(p, delta))
<1>1. p.x + delta[1] \in Int /\ p.y + delta[2] \in Int
  BY DEF Points
<1>2. /\ Clamped(p.x + delta[1], Width) \in 0 .. (Width - 1)
      /\ Clamped(p.y + delta[2], Height) \in 0 .. (Height - 1)
  BY <1>1, ClampedOnScreen, ConstantsTyped
<1> QED
  BY <1>2, ConstantsTyped DEF Moved, OnScreen, Points

LEMMA DragTyped ==
  ASSUME NEW places \in Places, NEW ws, NEW old \in Points, NEW new \in Points
  PROVE  Drag(places, ws, old, new) \in Places
BY DEF Drag, Places, Points

LEMMA DraggedTyped ==
  ASSUME at \in Places, NEW old \in Points, NEW new \in Points
  PROVE  Dragged(old, new) \in Places
BY DragTyped DEF Dragged

\* The two passes together: each window has moved at most once, with the cursor.
LEMMA DraggedOnce ==
  ASSUME at \in Places, NEW old \in Points, NEW new \in Points,
         NEW i \in Children
  PROVE  \/ Dragged(old, new)[i] = at[i]
         \/ /\ dragging[i]
            /\ Dragged(old, new)[i] =
                 [x |-> at[i].x + new.x - old.x, y |-> at[i].y + new.y - old.y]
<1> DEFINE from == Hit(at, old)
           places == Drag(at, from, old, new)
<1>1. /\ i \in from /\ dragging[i] =>
           places[i] = [x |-> at[i].x + new.x - old.x, y |-> at[i].y + new.y - old.y]
      /\ ~(i \in from /\ dragging[i]) => places[i] = at[i]
  BY DEF Drag
<1> DEFINE then == Hit(places, new) \ from
<1>2. /\ i \in then /\ dragging[i] =>
           Drag(places, then, old, new)[i] =
             [x |-> places[i].x + new.x - old.x, y |-> places[i].y + new.y - old.y]
      /\ ~(i \in then /\ dragging[i]) => Drag(places, then, old, new)[i] = places[i]
  BY DEF Drag
<1>3. Dragged(old, new) = Drag(places, then, old, new)
  BY DEF Dragged
<1>4. ~(i \in from /\ i \in then)
  OBVIOUS
<1> HIDE DEF from, places, then
<1> QED
  BY <1>1, <1>2, <1>3, <1>4

\* A front window that is held is under the cursor after the movement too.
LEMMA HeldStaysUnder ==
  ASSUME at \in Places, NEW old \in Points, NEW new \in Points,
         dragging[1], Contains(at, 1, old)
  PROVE  Contains(Dragged(old, new), 1, new)
<1> DEFINE places == Drag(at, {1}, old, new)
<1>0. 1 \in Children /\ Windows[1] \in [x : Int, y : Int, w : Nat, h : Nat]
  BY ConstantsTyped
<1>1. Hit(at, old) = {1}
  BY FrontIsHit
<1>2. places[1] = [x |-> at[1].x + new.x - old.x, y |-> at[1].y + new.y - old.y]
  BY <1>0 DEF Drag
<1>3. Contains(places, 1, new)
  <2> HIDE DEF places
  <2> QED
    BY <1>0, <1>2 DEF Contains, Places, Points
<1>4. Hit(places, new) = {1}
  BY <1>3, FrontIsHit
<1>5. Dragged(old, new) = Drag(places, {}, old, new)
  BY <1>1, <1>4 DEF Dragged
<1>6. Dragged(old, new)[1] = places[1]
  BY <1>0, <1>5 DEF Drag
<1> QED
  BY <1>3, <1>6 DEF Contains

\* One button, pressed, released or neither, at the window in front.
LEMMA ButtonAtFront ==
  ASSUME NEW drags \in [Children -> BOOLEAN], NEW ws \in SUBSET Children,
         NEW b \in 1 .. 3, NEW down
  PROVE  /\ Button(drags, ws, b, down) \in [Children -> BOOLEAN]
         /\ 1 \notin ws => Button(drags, ws, b, down)[1] = drags[1]
         /\ ~drags[1] /\ Left \notin down => ~Button(drags, ws, b, down)[1]
         /\ 1 \in ws /\ Left \in buttons /\ Left \notin down /\ b = Left =>
              ~Button(drags, ws, b, down)[1]
<1>0. 1 \in Children
  BY ConstantsTyped
<1>1. CASE b \in buttons /\ b \notin down
  BY <1>0, <1>1 DEF Button, Released
<1>2. CASE ~(b \in buttons /\ b \notin down) /\ b \in down /\ b \notin buttons
  BY <1>0, <1>2 DEF Button, Pressed, Left
<1>3. CASE ~(b \in buttons /\ b \notin down) /\ ~(b \in down /\ b \notin buttons)
  BY <1>0, <1>3 DEF Button, Left
<1> QED
  BY <1>1, <1>2, <1>3

----------------------------------------------------------------------------
\* What holds before and after a packet.

\* The cursor is on the screen and whatever holds the front window is on it.
IInv == TypeOK /\ FrontDragEnds

LEMMA InitIInv == Init => IInv
<1> SUFFICES ASSUME Init PROVE IInv
  OBVIOUS
<1>1. Width \div 2 \in 0 .. (Width - 1) /\ Height \div 2 \in 0 .. (Height - 1)
  BY ConstantsTyped
<1>2. cursor \in Points /\ OnScreen(cursor)
  BY <1>1, ConstantsTyped DEF Init, InitInput, OnScreen, Points
<1>3. at \in Places /\ dragging = [i \in Children |-> FALSE] /\ buttons = {}
  BY ConstantsTyped DEF Init, InitInput, Places
<1>4. ~dragging[1]
  BY <1>3, ConstantsTyped
<1> QED
  BY <1>2, <1>3, <1>4 DEF IInv, TypeOK, FrontDragEnds, Places, Points

\* A packet, by parts: the movement, then the three buttons.
LEMMA PacketParts ==
  ASSUME NEW delta \in Steps, NEW down \in SUBSET Buttons, Packet(delta, down)
  PROVE  /\ cursor' = AfterMove(delta)
         /\ at' = PlacesAfter(delta)
         /\ buttons' = down
         /\ dragging' =
              Button(Button(Button(dragging, Hit(at', cursor'), 1, down),
                            Hit(at', cursor'), 2, down), Hit(at', cursor'), 3, down)
BY DEF Packet, AfterMove, PlacesAfter

LEMMA MovementKeepsTypes ==
  ASSUME TypeOK, NEW delta \in Steps
  PROVE  /\ AfterMove(delta) \in Points /\ OnScreen(AfterMove(delta))
         /\ PlacesAfter(delta) \in Places
<1>1. cursor \in Points /\ at \in Places /\ OnScreen(cursor)
  BY DEF TypeOK, Points, Places
<1>2. Moved(cursor, delta) \in Points /\ OnScreen(Moved(cursor, delta))
  BY <1>1, MovedOnScreen, ConstantsTyped
<1>3. AfterMove(delta) \in Points /\ OnScreen(AfterMove(delta))
  BY <1>1, <1>2 DEF AfterMove
<1> QED
  BY <1>1, <1>3, DraggedTyped DEF PlacesAfter

LEMMA PacketKeepsIInv ==
  ASSUME IInv, NEW delta \in Steps, NEW down \in SUBSET Buttons, Packet(delta, down)
  PROVE  IInv'
<1> DEFINE ws == Hit(at', cursor')
           d1 == Button(dragging, ws, 1, down)
           d2 == Button(d1, ws, 2, down)
<1>0. TypeOK /\ FrontDragEnds
  BY DEF IInv
<1>1. /\ cursor' = AfterMove(delta) /\ at' = PlacesAfter(delta)
      /\ buttons' = down /\ dragging' = Button(d2, ws, 3, down)
  BY PacketParts
<1>2. cursor' \in Points /\ OnScreen(cursor') /\ at' \in Places
  BY <1>0, <1>1, MovementKeepsTypes
<1>3. ws \in SUBSET Children
  BY HitsChildren
<1>4. /\ dragging \in [Children -> BOOLEAN] /\ cursor \in Points /\ at \in Places
  BY <1>0 DEF TypeOK, Points, Places
<1>w. (1 \in ws) <=> Contains(at', 1, cursor')
  BY FrontIsHit
<1>b. 1 \in 1 .. 3 /\ 2 \in 1 .. 3 /\ 3 \in 1 .. 3
  OBVIOUS
<1> HIDE DEF ws
<1>5. d1 \in [Children -> BOOLEAN]
  BY <1>3, <1>4, ButtonAtFront
<1>6. d2 \in [Children -> BOOLEAN]
  BY <1>3, <1>5, ButtonAtFront
<1>7. dragging' \in [Children -> BOOLEAN]
  BY <1>1, <1>3, <1>6, ButtonAtFront
<1>8. dragging[1] => Contains(at', 1, cursor')
  <2> SUFFICES ASSUME dragging[1] PROVE Contains(at', 1, cursor')
    OBVIOUS
  <2>1. Contains(at, 1, cursor)
    BY <1>0 DEF FrontDragEnds
  <2>2. CASE delta = <<0, 0>>
    BY <1>1, <2>1, <2>2 DEF AfterMove, PlacesAfter
  <2>3. CASE delta # <<0, 0>>
    <3>1. Contains(Dragged(cursor, cursor'), 1, cursor')
      BY <1>2, <1>4, <2>1, HeldStaysUnder
    <3> QED
      BY <1>1, <2>3, <3>1 DEF PlacesAfter
  <2> QED
    BY <2>2, <2>3
<1>9. dragging'[1] => 1 \in ws
  <2> SUFFICES ASSUME 1 \notin ws PROVE ~dragging'[1]
    OBVIOUS
  <2>1. ~dragging[1]
    BY <1>8, <1>w
  <2>2. d1[1] = dragging[1]
    BY <1>3, <1>4, ButtonAtFront
  <2>3. d2[1] = d1[1]
    BY <1>3, <1>5, ButtonAtFront
  <2>4. dragging'[1] = d2[1]
    BY <1>1, <1>3, <1>6, ButtonAtFront
  <2> QED
    BY <2>1, <2>2, <2>3, <2>4
<1>10. dragging'[1] => Left \in down
  <2> SUFFICES ASSUME Left \notin down, dragging'[1] PROVE FALSE
    OBVIOUS
  <2>0. 1 \in ws
    BY <1>9
  <2>1. ~d1[1]
    <3>1. CASE dragging[1]
      <4>1. Left \in buttons
        BY <1>0, <3>1 DEF FrontDragEnds
      <4> QED
        BY <1>3, <1>4, <2>0, <4>1, ButtonAtFront DEF Left
    <3>2. CASE ~dragging[1]
      BY <1>b, <1>3, <1>4, <3>2, ButtonAtFront, Zenon
    <3> QED
      BY <3>1, <3>2
  <2>2. ~d2[1]
    BY <1>b, <1>3, <1>5, <2>1, ButtonAtFront, Zenon
  <2>3. ~dragging'[1]
    BY <1>b, <1>1, <1>3, <1>6, <2>2, ButtonAtFront, Zenon
  <2> QED
    BY <2>3
<1>11. TypeOK'
  BY <1>1, <1>2, <1>7 DEF TypeOK, Points, Places
<1>12. FrontDragEnds'
  BY <1>1, <1>9, <1>10, <1>w DEF FrontDragEnds
<1> QED
  BY <1>11, <1>12 DEF IInv

LEMMA NextKeepsIInv == IInv /\ [Next]_input => IInv'
<1> SUFFICES ASSUME IInv, [Next]_input PROVE IInv'
  OBVIOUS
<1>1. CASE Next
  BY <1>1, PacketKeepsIInv DEF Next, MousePacket
<1>2. CASE UNCHANGED input
  BY <1>2 DEF IInv, TypeOK, FrontDragEnds, OnScreen, Contains, input
<1> QED
  BY <1>1, <1>2

\* A window moves only while it is dragged, with the cursor.
LEMMA PacketMovesWithCursor ==
  ASSUME IInv, NEW delta \in Steps, NEW down \in SUBSET Buttons, Packet(delta, down),
         NEW i \in Children, at'[i] # at[i]
  PROVE  /\ dragging[i]
         /\ at'[i].x - at[i].x = cursor'.x - cursor.x
         /\ at'[i].y - at[i].y = cursor'.y - cursor.y
<1>1. cursor \in Points /\ at \in Places /\ TypeOK
  BY DEF IInv, TypeOK, Points, Places
<1>2. cursor' = AfterMove(delta) /\ at' = PlacesAfter(delta)
  BY PacketParts
<1>3. cursor' \in Points
  BY <1>1, <1>2, MovementKeepsTypes
<1>4. at' = Dragged(cursor, cursor')
  BY <1>2 DEF PlacesAfter
<1>5. /\ dragging[i]
      /\ at'[i] = [x |-> at[i].x + cursor'.x - cursor.x,
                   y |-> at[i].y + cursor'.y - cursor.y]
  BY <1>1, <1>3, <1>4, DraggedOnce
<1>6. at[i] \in Points
  BY <1>1 DEF Places, Points
<1> QED
  BY <1>1, <1>3, <1>5, <1>6 DEF Points

LEMMA PacketKeepsFrontReachable ==
  ASSUME IInv, FrontStaysReachable,
         NEW delta \in Steps, NEW down \in SUBSET Buttons, Packet(delta, down)
  PROVE  FrontStaysReachable'
<1>1. CASE at'[1] = at[1]
  BY <1>1 DEF FrontStaysReachable, Contains
<1>2. CASE at'[1] # at[1]
  <2>1. dragging[1] /\ cursor \in Points /\ at \in Places /\ TypeOK
    BY <1>2, PacketMovesWithCursor, ConstantsTyped DEF IInv, TypeOK, Points, Places
  <2>2. Contains(at, 1, cursor)
    BY <2>1 DEF IInv, FrontDragEnds
  <2>3. cursor' = AfterMove(delta) /\ at' = PlacesAfter(delta)
    BY PacketParts
  <2>4. cursor' \in Points /\ OnScreen(cursor')
    BY <2>1, <2>3, MovementKeepsTypes
  <2>5. at' = Dragged(cursor, cursor')
    BY <1>2, <2>3 DEF PlacesAfter
  <2>6. Contains(at', 1, cursor')
    BY <2>1, <2>2, <2>4, <2>5, HeldStaysUnder
  <2>7. Contains(at', 1, [x |-> cursor'.x, y |-> cursor'.y])
    BY <2>6 DEF Contains
  <2> QED
    BY <2>4, <2>7 DEF FrontStaysReachable, OnScreen
<1> QED
  BY <1>1, <1>2

----------------------------------------------------------------------------
\* The theorems.

\* The inductive invariant, for every screen, windows and mouse.
THEOREM DesktopInvariant == Spec => []IInv
<1> QED
  BY InitIInv, NextKeepsIInv, PTL DEF Spec

\* The clamping of Desktop::OnMouseMove keeps the cursor on the screen.
THEOREM TypeCorrect == Spec => []TypeOK
<1>1. IInv => TypeOK
  BY DEF IInv
<1> QED
  BY <1>1, DesktopInvariant, PTL

\* The window in front never sticks to the cursor.
THEOREM DragsEnd == Spec => []FrontDragEnds
<1>1. IInv => FrontDragEnds
  BY DEF IInv
<1> QED
  BY <1>1, DesktopInvariant, PTL

\* CompositeWidget::OnMouseMove moves no window but by dragging, and none twice.
THEOREM MovesWithCursor == Spec => WindowsMoveWithCursor
<1> DEFINE Moves ==
      \A i \in Children : at'[i] # at[i] =>
        /\ dragging[i]
        /\ at'[i].x - at[i].x = cursor'.x - cursor.x
        /\ at'[i].y - at[i].y = cursor'.y - cursor.y
<1>1. IInv /\ [Next]_input => [Moves]_input
  <2> SUFFICES ASSUME IInv, Next PROVE Moves
    OBVIOUS
  <2> QED
    BY PacketMovesWithCursor DEF Next, MousePacket
<1>2. [][Moves]_input => WindowsMoveWithCursor
  BY DEF WindowsMoveWithCursor
<1> HIDE DEF Moves
<1> QED
  BY <1>1, <1>2, DesktopInvariant, PTL DEF Spec

\* Where the program creates the front window so that some pixel of the screen
\* is on it, as kernel_main does, it can be reached at any time.
THEOREM FrontReachable ==
  ASSUME \E x \in 0 .. (Width - 1), y \in 0 .. (Height - 1) :
           /\ x >= Windows[1].x /\ x <= Windows[1].x + Windows[1].w
           /\ y >= Windows[1].y /\ y <= Windows[1].y + Windows[1].h
  PROVE  Spec => []FrontStaysReachable
<1>1. Init => FrontStaysReachable
  <2> SUFFICES ASSUME Init PROVE FrontStaysReachable
    OBVIOUS
  <2>1. at[1] = [x |-> Windows[1].x, y |-> Windows[1].y]
    BY ConstantsTyped DEF Init, InitInput
  <2> QED
    BY <2>1 DEF FrontStaysReachable, Contains
<1>2. IInv /\ FrontStaysReachable /\ [Next]_input => FrontStaysReachable'
  <2> SUFFICES ASSUME IInv, FrontStaysReachable, [Next]_input
               PROVE  FrontStaysReachable'
    OBVIOUS
  <2>1. CASE Next
    BY <2>1, PacketKeepsFrontReachable DEF Next, MousePacket
  <2>2. CASE UNCHANGED input
    BY <2>2 DEF FrontStaysReachable, Contains, input
  <2> QED
    BY <2>1, <2>2
<1> QED
  BY <1>1, <1>2, DesktopInvariant, PTL DEF Spec

----------------------------------------------------------------------------
\* Pixels and their indices.

\* Rows are at least Width apart.
LEMMA RowsApart ==
  ASSUME NEW y \in Int, NEW z \in Int, y < z
  PROVE  Width * y + Width <= Width * z
<1>1. z >= y + 1
  OBVIOUS
<1>2. Width * (y + 1) <= Width * z
  BY <1>1, DesktopAssumption
<1>3. Width * (y + 1) = Width * y + Width
  BY DesktopAssumption
<1> QED
  BY <1>2, <1>3, DesktopAssumption

\* The first pixel of a row: of the screen, above it, below it.
LEMMA RowStarts ==
  ASSUME NEW y \in Int
  PROVE  /\ Width * y \in Int
         /\ y < 0 => Width * y + Width <= 0
         /\ y \in 0 .. (Height - 1) =>
              Width * y >= 0 /\ Width * y + Width <= Width * Height
         /\ y >= Height => Width * y >= Width * Height
<1>0. Width * y \in Int /\ Width * Height \in Int /\ Width * 0 = 0
  BY DesktopAssumption
<1>1. y < 0 => Width * y + Width <= 0
  BY <1>0, RowsApart
<1>2. y \in 0 .. (Height - 1) => Width * y >= 0
  BY DesktopAssumption
<1>3. y \in 0 .. (Height - 1) => Width * y + Width <= Width * Height
  BY RowsApart, DesktopAssumption
<1>4. ASSUME y > Height PROVE Width * y >= Width * Height
  <2>1. Width * Height + Width <= Width * y
    BY <1>4, RowsApart, DesktopAssumption
  <2> DEFINE a == Width * Height
             b == Width * y
  <2>2. a \in Int /\ b \in Int /\ a + Width <= b
    BY <2>1, <1>0
  <2> HIDE DEF a, b
  <2>3. b >= a
    BY <2>2, DesktopAssumption
  <2> QED
    BY <2>3 DEF a, b
<1>5. y = Height => Width * y >= Width * Height
  BY <1>0
<1> QED
  BY <1>0, <1>1, <1>2, <1>3, <1>4, <1>5, DesktopAssumption

\* A column of the screen, in a row on it, above it or below it.
LEMMA PixelRange ==
  ASSUME NEW x \in 0 .. (Width - 1), NEW y \in Int
  PROVE  /\ PixelAt(x, y) \in Int
         /\ PixelAt(x, y) \in Addresses <=> y \in 0 .. (Height - 1)
         /\ y < 0 => PixelAt(x, y) < 0
<1> DEFINE a == Width * y
           n == Width * Height
<1>1. a \in Int /\ n \in Int /\ Width \in Int /\ Height \in Int
  BY RowStarts, DesktopAssumption
<1>2. /\ y < 0 => a + Width <= 0
      /\ y \in 0 .. (Height - 1) => a >= 0 /\ a + Width <= n
      /\ y >= Height => a >= n
  BY RowStarts
<1>3. PixelAt(x, y) = a + x /\ Addresses = 0 .. (n - 1)
  BY DEF PixelAt, Addresses
<1> HIDE DEF a, n
<1> QED
  BY <1>1, <1>2, <1>3

\* Two places on the screen are two pixels.
LEMMA PixelsApart ==
  ASSUME NEW x \in 0 .. (Width - 1), NEW y \in Int,
         NEW u \in 0 .. (Width - 1), NEW v \in Int,
         PixelAt(x, y) = PixelAt(u, v)
  PROVE  x = u /\ y = v
<1> DEFINE a == Width * y
           b == Width * v
<1>1. a \in Int /\ b \in Int /\ Width \in Int
  BY RowStarts, DesktopAssumption
<1>2. /\ y < v => a + Width <= b
      /\ v < y => b + Width <= a
      /\ y = v => a = b
  BY RowsApart
<1>3. a + x = b + u
  BY DEF PixelAt
<1> HIDE DEF a, b
<1> QED
  BY <1>1, <1>2, <1>3

\* PutPixel paints a pixel of the screen exactly if it is called for it.
LEMMA InPixels ==
  ASSUME NEW x \in 0 .. (Width - 1), NEW y \in 0 .. (Height - 1),
         NEW points, points \subseteq Int \X Int
  PROVE  PixelAt(x, y) \in Pixels(points) <=> <<x, y>> \in points
<1>1. ASSUME <<x, y>> \in points
      PROVE  PixelAt(x, y) \in Pixels(points)
  BY <1>1 DEF Pixels, Visible
<1>2. ASSUME PixelAt(x, y) \in Pixels(points)
      PROVE  <<x, y>> \in points
  <2>1. PICK q \in points : Visible(q[1], q[2]) /\ PixelAt(x, y) = PixelAt(q[1], q[2])
    BY <1>2 DEF Pixels
  <2>2. q[1] \in 0 .. (Width - 1) /\ q[2] \in Int /\ y \in Int
    BY <2>1 DEF Visible
  <2>3. x = q[1] /\ y = q[2]
    BY <2>1, <2>2, PixelsApart
  <2>4. q = <<q[1], q[2]>>
    BY <2>1
  <2> QED
    BY <2>1, <2>3, <2>4
<1> QED
  BY <1>1, <1>2

----------------------------------------------------------------------------
\* FillRect.

\* In a rectangle that is not empty the running offset is that of the pixel,
\* as far as an unsigned word can tell.
LEMMA OffsetIsPixel ==
  ASSUME NEW x \in Int, NEW y \in Int, NEW w \in Int, w > 0,
         NEW i \in Int, NEW j \in Int
  PROVE  Offset(x, y, w, i, j) = PixelAt(i, j) % Word
<1>1. Width * j = Width * y + (j - y) * Width
  BY DesktopAssumption
<1>2. w + Width - w = Width
  BY DesktopAssumption
<1> DEFINE a == Width * y
           b == Width * j
           d == (j - y) * Width
<1>3. a \in Int /\ b \in Int /\ d \in Int /\ b = a + d
  BY <1>1, DesktopAssumption
<1>4. Offset(x, y, w, i, j) = (a + x + d + (i - x)) % Word
  BY <1>2 DEF Offset
<1>5. PixelAt(i, j) = b + i
  BY DEF PixelAt
<1> HIDE DEF a, b, d
<1>6. a + x + d + (i - x) = b + i
  BY <1>3
<1> QED
  BY <1>4, <1>5, <1>6

\* An unsigned word holds small numbers as they are; a negative one becomes
\* a large one.
LEMMA Unsigned ==
  ASSUME NEW n \in Int, -Word <= n, n < Word
  PROVE  n % Word = IF n < 0 THEN n + Word ELSE n
<1>0. Word \in Nat \ {0}
  BY ScreenAssumption
<1> DEFINE q == n \div Word
           r == n % Word
<1>1. q \in Int /\ r \in 0 .. (Word - 1) /\ n = Word * q + r
  BY <1>0
<1> HIDE DEF q, r
<1>2. CASE n >= 0
  BY <1>0, <1>1, <1>2 DEF r
<1>3. CASE n < 0
  BY <1>0, <1>1, <1>3 DEF r
<1> QED
  BY <1>2, <1>3

\* No row of the rectangle is so far above or below the screen that its offset
\* comes round to the screen again.
InReach(r) ==
  \A j \in r.y .. (r.y + r.h - 1) :
    Width * Height - Word <= Width * j /\ Width * j + Width <= Word

\* One point of the loops: it is painted if it is on the screen, at its pixel.
LEMMA PointPainted ==
  ASSUME NEW x \in Int, NEW y \in Int, NEW w \in Int, w > 0,
         NEW i \in 0 .. (Width - 1), NEW j \in Int,
         Width * Height - Word <= Width * j, Width * j + Width <= Word
  PROVE  /\ Offset(x, y, w, i, j) \in Addresses <=> j \in 0 .. (Height - 1)
         /\ j \in 0 .. (Height - 1) => Offset(x, y, w, i, j) = PixelAt(i, j)
<1> DEFINE a == Width * j
           n == Width * Height
           p == PixelAt(i, j)
<1>1. a \in Int /\ n \in Nat /\ Width \in Nat \ {0} /\ Word \in Nat /\ i \in Int
  BY RowStarts, DesktopAssumption, ScreenAssumption
<1>2. p = a + i /\ Addresses = 0 .. (n - 1)
  BY DEF PixelAt, Addresses
<1>3. n - Word <= a /\ a + Width <= Word
  OBVIOUS
<1>4. p \in Int /\ (p \in Addresses <=> j \in 0 .. (Height - 1))
  BY PixelRange
<1> HIDE DEF a, n, p
<1>5. -Word <= p /\ p < Word /\ n - Word <= p
  BY <1>1, <1>2, <1>3
<1>6. p % Word = IF p < 0 THEN p + Word ELSE p
  BY <1>4, <1>5, Unsigned
<1>7. Offset(x, y, w, i, j) = p % Word
  BY <1>1, OffsetIsPixel DEF p
<1>8. p < 0 => p + Word \notin Addresses
  BY <1>1, <1>2, <1>4, <1>5
<1>9. p < 0 => p \notin Addresses
  BY <1>1, <1>2, <1>4
<1> QED
  BY <1>4, <1>6, <1>7, <1>8, <1>9 DEF p

\* FillRect paints what the naive method paints.
LEMMA FilledIsNaive ==
  ASSUME NEW r \in [x : Int, y : Int, w : Int, h : Int], InReach(r)
  PROVE  Filled(r) = NaivelyFilled(r)
<1> DEFINE x == IF r.x < 0 THEN 0 ELSE r.x
           w == IF r.x < 0 THEN r.w + r.x ELSE r.w
           columns == {c \in x .. (x + w - 1) : c < Width}
           rows == r.y .. (r.y + r.h - 1)
           rectangle == (r.x .. (r.x + r.w - 1)) \X rows
<1>0. /\ x \in Int /\ w \in Int /\ r.y \in Int /\ r.h \in Int /\ rows \subseteq Int
      /\ Width \in Nat \ {0} /\ Height \in Nat \ {0}
  BY DesktopAssumption
<1>1. /\ columns \subseteq 0 .. (Width - 1) /\ (columns # {} => w > 0)
      /\ \A i \in Int : i \in columns <=>
           i \in r.x .. (r.x + r.w - 1) /\ i \in 0 .. (Width - 1)
  BY <1>0
<1>2. Filled(r) = {Offset(x, r.y, w, i, j) : i \in columns, j \in rows} \cap Addresses
  BY DEF Filled
<1>3. NaivelyFilled(r) =
        {PixelAt(p[1], p[2]) : p \in {q \in rectangle : Visible(q[1], q[2])}}
  BY DEF NaivelyFilled, Pixels
<1>4. \A j \in rows : Width * Height - Word <= Width * j /\ Width * j + Width <= Word
  BY DEF InReach
<1> HIDE DEF x, w, columns
<1>5. \A i \in columns, j \in rows :
        /\ Offset(x, r.y, w, i, j) \in Addresses <=> j \in 0 .. (Height - 1)
        /\ j \in 0 .. (Height - 1) => Offset(x, r.y, w, i, j) = PixelAt(i, j)
  <2> TAKE i \in columns, j \in rows
  <2>1. i \in 0 .. (Width - 1) /\ w > 0 /\ j \in Int
    BY <1>0, <1>1
  <2> HIDE DEF rows
  <2>2. Width * Height - Word <= Width * j /\ Width * j + Width <= Word
    BY <1>4
  <2> QED
    BY <1>0, <2>1, <2>2, PointPainted
<1>6. ASSUME NEW a \in Filled(r) PROVE a \in NaivelyFilled(r)
  <2>1. PICK i \in columns, j \in rows : a = Offset(x, r.y, w, i, j) /\ a \in Addresses
    BY <1>2, <1>6
  <2>2. j \in 0 .. (Height - 1) /\ a = PixelAt(i, j)
    BY <2>1, <1>5
  <2>3. <<i, j>> \in rectangle /\ Visible(i, j)
    BY <2>1, <2>2, <1>1 DEF Visible
  <2> QED
    BY <2>2, <2>3, <1>3
<1>7. ASSUME NEW a \in NaivelyFilled(r) PROVE a \in Filled(r)
  <2>1. PICK q \in rectangle : Visible(q[1], q[2]) /\ a = PixelAt(q[1], q[2])
    BY <1>3, <1>7
  <2>2. q[1] \in columns /\ q[2] \in rows /\ q[2] \in 0 .. (Height - 1)
    BY <2>1, <1>0, <1>1 DEF Visible
  <2>3. a = Offset(x, r.y, w, q[1], q[2]) /\ a \in Addresses
    BY <2>1, <2>2, <1>5
  <2> QED
    BY <2>2, <2>3, <1>2
<1> QED
  BY <1>6, <1>7

----------------------------------------------------------------------------
\* How far a window can get.

\* Only a window under the cursor, before or after the movement, moves.
LEMMA OnlyHitMoves ==
  ASSUME at \in Places, NEW old \in Points, NEW new \in Points,
         NEW i \in Children, Dragged(old, new)[i] # at[i]
  PROVE  Contains(at, i, old) \/ Contains(at, i, new)
<1> DEFINE from == Hit(at, old)
           places == Drag(at, from, old, new)
<1>1. Dragged(old, new) = Drag(places, Hit(places, new) \ from, old, new)
  BY DEF Dragged
<1>2. CASE i \in from
  BY <1>2 DEF Hit
<1>3. CASE i \notin from
  <2>1. places[i] = at[i]
    BY <1>3 DEF Drag
  <2> HIDE DEF places, from
  <2>2. i \in Hit(places, new)
    BY <1>1, <2>1 DEF Drag
  <2>3. Contains(places, i, new)
    BY <2>2 DEF Hit
  <2> QED
    BY <2>1, <2>3 DEF Contains
<1> QED
  BY <1>2, <1>3

\* Every window overlaps rows from -margin to margin only.
Near(margin) ==
  \A i \in Children : -margin <= at[i].y /\ at[i].y + Windows[i].h <= margin

LEMMA DraggedStaysNear ==
  ASSUME NEW margin \in Nat, TypeOK, Near(margin),
         NEW new \in Points, OnScreen(new),
         NEW i \in Children, 2 * Height + Windows[i].h <= margin
  PROVE  /\ -margin <= Dragged(cursor, new)[i].y
         /\ Dragged(cursor, new)[i].y + Windows[i].h <= margin
<1>0. /\ at \in Places /\ cursor \in Points /\ OnScreen(cursor)
      /\ at[i].y \in Int /\ cursor.y \in Int /\ new.y \in Int
      /\ Windows[i].h \in Nat /\ Height \in Nat
  BY ConstantsTyped DEF TypeOK, Places, Points
<1>1. CASE Dragged(cursor, new)[i] = at[i]
  BY <1>1 DEF Near
<1>2. CASE Dragged(cursor, new)[i] # at[i]
  <2>1. PICK p \in {cursor, new} : Contains(at, i, p)
    BY <1>0, <1>2, OnlyHitMoves
  <2>2. at[i].y <= p.y /\ p.y <= at[i].y + Windows[i].h
    BY <2>1 DEF Contains
  <2>3. /\ cursor.y \in 0 .. (Height - 1) /\ new.y \in 0 .. (Height - 1)
        /\ p.y \in 0 .. (Height - 1)
    BY <1>0, <2>1 DEF OnScreen
  <2>4. Dragged(cursor, new)[i].y = at[i].y + new.y - cursor.y
    <3>1. Dragged(cursor, new)[i] =
            [x |-> at[i].x + new.x - cursor.x, y |-> at[i].y + new.y - cursor.y]
      BY <1>0, <1>2, DraggedOnce
    <3> QED
      BY <3>1
  <2> QED
    BY <1>0, <2>2, <2>3, <2>4
<1> QED
  BY <1>1, <1>2

LEMMA PacketStaysNear ==
  ASSUME NEW margin \in Nat, TypeOK, Near(margin),
         \A i \in Children : 2 * Height + Windows[i].h <= margin,
         NEW by \in Steps, NEW down \in SUBSET Buttons, Packet(by, down)
  PROVE  Near(margin)'
<1>1. at' = PlacesAfter(by) /\ AfterMove(by) \in Points /\ OnScreen(AfterMove(by))
  BY PacketParts, MovementKeepsTypes
<1>2. CASE by = <<0, 0>>
  BY <1>1, <1>2 DEF PlacesAfter, Near
<1>3. CASE by # <<0, 0>>
  <2>1. at' = Dragged(cursor, AfterMove(by))
    BY <1>1, <1>3 DEF PlacesAfter
  <2> QED
    BY <1>1, <2>1, DraggedStaysNear DEF Near
<1> QED
  BY <1>2, <1>3

----------------------------------------------------------------------------
\* From the desktop to the screen.

\* Drawing changes nothing the mouse's packets are about.
LEMMA ScreenStep ==
  ASSUME [NextOnScreen]_vars
  PROVE  [Next]_input
<1>1. CASE Main
  BY <1>1 DEF Main, DrawNext, Swap
<1>2. CASE Mouse
  BY <1>2 DEF Mouse, Next
<1>3. CASE UNCHANGED vars
  BY <1>3 DEF vars
<1> QED
  BY <1>1, <1>2, <1>3 DEF NextOnScreen

\* The desktop's invariant, while it is being drawn.
LEMMA InvariantOnScreen == SpecOnScreen => []IInv
<1>1. InitScreen => IInv
  BY InitIInv DEF InitScreen, Init
<1>2. IInv /\ [NextOnScreen]_vars => IInv'
  BY ScreenStep, NextKeepsIInv
<1> QED
  BY <1>1, <1>2, PTL DEF SpecOnScreen

\* An operation of a frame that paints an area paints that of a window.
LEMMA AreaOfWindow ==
  ASSUME step \in 1 .. Len(Frame), Frame[step][1] = "area"
  PROVE  Frame[step][2] \in Children
<1> DEFINE n == Len(Windows)
<1>1. n \in Nat /\ n > 0
  BY DesktopAssumption
<1>2. Len(Frame) = 2 * n + 2
  BY <1>1 DEF Frame
<1>3. step \in 1 .. (2 * n + 2)
  BY <1>2
<1>4. step # 1 /\ step # 2 * n + 2
  BY <1>3 DEF Frame, Background, Cursor
<1>5. Frame[step][2] = n + 1 - (step \div 2)
  BY <1>3, <1>4 DEF Frame
<1> HIDE DEF n
<1>6. step \div 2 \in 1 .. n
  BY <1>1, <1>3, <1>4
<1> QED
  BY <1>1, <1>5, <1>6 DEF Children, n

\* A rectangle near the screen is in reach of the offset.
LEMMA NearIsInReach ==
  ASSUME NEW margin \in Nat, Width * (margin + Height) <= Word,
         NEW r \in [x : Int, y : Int, w : Int, h : Int],
         -margin <= r.y, r.y + r.h <= margin
  PROVE  InReach(r)
<1> SUFFICES ASSUME NEW j \in r.y .. (r.y + r.h - 1)
             PROVE  Width * Height - Word <= Width * j /\ Width * j + Width <= Word
  BY DEF InReach
<1>0. j \in Int /\ -margin <= j /\ j + 1 <= margin /\ Height >= 1
  BY DesktopAssumption
<1>1. Width * (-margin) <= Width * j
  BY <1>0, DesktopAssumption
<1>2. Width * (j + 1) <= Width * (margin + Height)
  BY <1>0, DesktopAssumption
<1>3. /\ Width * (-margin) = -(Width * margin)
      /\ Width * (margin + Height) = Width * margin + Width * Height
      /\ Width * (j + 1) = Width * j + Width
  BY <1>0, DesktopAssumption
<1> DEFINE m == Width * margin
           n == Width * Height
           a == Width * j
           c == Width * (-margin)
           d == Width * (j + 1)
           e == Width * (margin + Height)
<1>4. m \in Int /\ n \in Int /\ a \in Int /\ Word \in Int /\ Width \in Int
  BY <1>0, DesktopAssumption, ScreenAssumption
<1>5. c <= a /\ d <= e /\ c = -m /\ e = m + n /\ d = a + Width /\ e <= Word
  BY <1>1, <1>2, <1>3
<1> HIDE DEF m, n, a, c, d, e
<1>6. n - Word <= a /\ a + Width <= Word
  BY <1>4, <1>5
<1> QED
  BY <1>6 DEF n, a

\* On a screen that leaves some room in a word, as 1024 by 768 pixels do in 32
\* bits, and for windows that begin near it, FillRect paints what the naive
\* method in its comment would, wherever the windows are dragged.
THEOREM FillRectCorrect ==
  ASSUME NEW CONSTANT margin \in Nat,
         Width * (margin + Height) <= Word,
         \A i \in Children : /\ -margin <= Windows[i].y
                             /\ Windows[i].y + Windows[i].h <= margin
                             /\ 2 * Height + Windows[i].h <= margin
  PROVE  SpecOnScreen => []FillRectIsNaive
<1>1. InitScreen => Near(margin)
  BY ConstantsTyped DEF InitScreen, InitInput, Near
<1>2. IInv /\ Near(margin) /\ [NextOnScreen]_vars => Near(margin)'
  <2> SUFFICES ASSUME IInv, Near(margin), [NextOnScreen]_vars PROVE Near(margin)'
    OBVIOUS
  <2>1. CASE Next
    BY <2>1, PacketStaysNear DEF Next, MousePacket, IInv
  <2>2. CASE UNCHANGED input
    BY <2>2 DEF Near, input
  <2> QED
    BY <2>1, <2>2, ScreenStep
<1>3. IInv /\ Near(margin) => FillRectIsNaive
  <2> SUFFICES ASSUME IInv, Near(margin),
                      step \in 1 .. Len(Frame), Frame[step][1] = "area"
               PROVE  Filled(Inside(Frame[step][2])) = NaivelyFilled(Inside(Frame[step][2]))
    BY DEF FillRectIsNaive
  <2> DEFINE i == Frame[step][2]
             r == Inside(i)
  <2>1. i \in Children
    BY AreaOfWindow
  <2> HIDE DEF i
  <2>2. at[i] \in [x : Int, y : Int] /\ Windows[i] \in [x : Int, y : Int, w : Nat, h : Nat]
    BY <2>1, ConstantsTyped DEF IInv, TypeOK
  <2>3. /\ r \in [x : Int, y : Int, w : Int, h : Int]
        /\ -margin <= r.y /\ r.y + r.h <= margin
    BY <2>1, <2>2 DEF Inside, Near
  <2> HIDE DEF r
  <2>4. InReach(r)
    BY <2>3, NearIsInReach
  <2>5. Filled(r) = NaivelyFilled(r)
    BY <2>3, <2>4, FilledIsNaive
  <2> QED
    BY <2>5 DEF r, i
<1> QED
  BY <1>1, <1>2, <1>3, InvariantOnScreen, PTL DEF SpecOnScreen

----------------------------------------------------------------------------
\* What a press of the button reaches.

Below == {p \in Nat \X Nat : p[1] < p[2]}

\* Of some children one comes first.
LEMMA FirstChild ==
  ASSUME NEW some, some \subseteq Children, some # {}
  PROVE  \E i \in some : \A j \in some : i <= j
<1>1. IsWellFoundedOn(Below, Nat)
  BY NatLessThanWellFounded DEF Below, OpToRel
<1>2. some \subseteq Nat
  BY ConstantsTyped
<1>3. \E i \in some : \A j \in some : <<j, i>> \notin Below
  BY <1>1, <1>2, WFMin
<1>4. ASSUME NEW i \in some, NEW j \in some, <<j, i>> \notin Below
      PROVE  i <= j
  <2>1. i \in Nat /\ j \in Nat
    BY <1>2
  <2>2. ~(j < i)
    BY <1>4, <2>1 DEF Below
  <2> QED
    BY <2>1, <2>2
<1> QED
  BY <1>3, <1>4

Covers(i, p) == PixelAt(p.x, p.y) \in Outline(Around(i)) \cup NaivelyFilled(Inside(i))

\* The cursor is drawn below the pixel it points to.
LEMMA TipIsFree ==
  ASSUME TypeOK
  PROVE  PixelAt(cursor.x, cursor.y) \notin Arrow
<1> DEFINE rows == {p \in (0 .. CursorRows) \X (0 .. (CursorRows - 1)) : p[1] < p[2]}
           points == {<<cursor.x + p[1], cursor.y + CursorRows - p[2]>> : p \in rows}
<1>0. /\ cursor.x \in 0 .. (Width - 1) /\ cursor.y \in 0 .. (Height - 1)
      /\ cursor.x \in Int /\ cursor.y \in Int /\ CursorRows \in Nat
  BY ScreenAssumption DEF TypeOK, OnScreen
<1>1. points \subseteq Int \X Int
  BY <1>0
<1>2. <<cursor.x, cursor.y>> \notin points
  BY <1>0
<1> HIDE DEF points
<1>3. PixelAt(cursor.x, cursor.y) \notin Pixels(points)
  BY <1>0, <1>1, <1>2, InPixels
<1> QED
  BY <1>3 DEF Arrow, points

\* What is drawn of a window where the cursor points to.
LEMMA CoveredWhere ==
  ASSUME TypeOK, NEW i \in Children
  PROVE  /\ PixelAt(cursor.x, cursor.y) \in NaivelyFilled(Inside(i)) <=>
              /\ cursor.x \in at[i].x .. (at[i].x + Windows[i].w - 1)
              /\ cursor.y \in at[i].y .. (at[i].y + Windows[i].h - 1)
         /\ PixelAt(cursor.x, cursor.y) \in Outline(Around(i)) <=>
              \/ /\ cursor.x \in (at[i].x - 1) .. (at[i].x + Windows[i].w - 1)
                 /\ cursor.y \in {at[i].y - 1, at[i].y + Windows[i].h}
              \/ /\ cursor.x \in {at[i].x - 1, at[i].x + Windows[i].w}
                 /\ cursor.y \in (at[i].y - 1) .. (at[i].y + Windows[i].h - 1)
<1> DEFINE x == at[i].x
           y == at[i].y
           w == Windows[i].w
           h == Windows[i].h
           area == (x .. (x + w - 1)) \X (y .. (y + h - 1))
           edges == (((x - 1) .. (x - 1 + (w + 1) - 1)) \X {y - 1, y - 1 + (h + 1)})
                      \cup ({x - 1, x - 1 + (w + 1)} \X ((y - 1) .. (y - 1 + (h + 1) - 1)))
<1>0. /\ cursor.x \in 0 .. (Width - 1) /\ cursor.y \in 0 .. (Height - 1)
      /\ x \in Int /\ y \in Int /\ w \in Nat /\ h \in Nat
  BY ConstantsTyped DEF TypeOK, OnScreen
<1>1. NaivelyFilled(Inside(i)) = Pixels(area)
  BY DEF NaivelyFilled, Inside
<1>2. Outline(Around(i)) = Pixels(edges)
  BY DEF Outline, Around
<1> HIDE DEF x, y, w, h
<1>3. area \subseteq Int \X Int /\ edges \subseteq Int \X Int
  BY <1>0
<1>4. <<cursor.x, cursor.y>> \in area <=>
        cursor.x \in x .. (x + w - 1) /\ cursor.y \in y .. (y + h - 1)
  BY <1>0
<1>5. <<cursor.x, cursor.y>> \in edges <=>
        \/ cursor.x \in (x - 1) .. (x + w - 1) /\ cursor.y \in {y - 1, y + h}
        \/ cursor.x \in {x - 1, x + w} /\ cursor.y \in (y - 1) .. (y + h - 1)
  <2>1. x - 1 + (w + 1) = x + w /\ y - 1 + (h + 1) = y + h
    BY <1>0
  <2> QED
    BY <1>0, <2>1
<1> HIDE DEF area, edges
<1>6. /\ PixelAt(cursor.x, cursor.y) \in Pixels(area) <=> <<cursor.x, cursor.y>> \in area
      /\ PixelAt(cursor.x, cursor.y) \in Pixels(edges) <=> <<cursor.x, cursor.y>> \in edges
  BY <1>0, <1>3, InPixels
<1> QED
  BY <1>1, <1>2, <1>4, <1>5, <1>6 DEF x, y, w, h

\* Between what is drawn of a window and where it can be hit there is only
\* the corner.
LEMMA ContainsIsCovered ==
  ASSUME TypeOK, NEW i \in Children
  PROVE  /\ Contains(at, i, cursor) => Covers(i, cursor) \/ AtCorner(i, cursor)
         /\ PixelAt(cursor.x, cursor.y) \in NaivelyFilled(Inside(i)) =>
              Contains(at, i, cursor)
<1>0. /\ cursor.x \in Int /\ cursor.y \in Int
      /\ at[i].x \in Int /\ at[i].y \in Int
      /\ Windows[i].w \in Nat /\ Windows[i].h \in Nat
  BY ConstantsTyped DEF TypeOK
<1> QED
  BY <1>0, CoveredWhere DEF Contains, Covers, AtCorner

\* A screen that is up to date, at the pixel the cursor points to.
LEMMA SeenUnderCursor ==
  ASSUME TypeOK, UpToDate,
         NEW covering, covering = {i \in Children : Covers(i, cursor)}
  PROVE  LET seen == screen[PixelAt(cursor.x, cursor.y)]
         IN \/ covering = {} /\ seen = Background
            \/ \E i \in covering :
                 /\ \A j \in covering : i <= j
                 /\ \/ seen = Edge(i)
                    \/ /\ seen = Area(i)
                       /\ PixelAt(cursor.x, cursor.y) \in NaivelyFilled(Inside(i))
<1> DEFINE a == PixelAt(cursor.x, cursor.y)
           outline == [i \in Children |-> Outline(Around(i))]
           area == [i \in Children |-> NaivelyFilled(Inside(i))]
           over == {i \in Children : a \in outline[i] \cup area[i]}
           front == CHOOSE i \in over : \A j \in over : i <= j
<1>1. cursor.x \in 0 .. (Width - 1) /\ cursor.y \in 0 .. (Height - 1) /\ cursor.y \in Int
  BY DEF TypeOK, OnScreen
<1>2. a \in Addresses
  BY <1>1, PixelRange
<1>3. a \notin Arrow
  BY TipIsFree
<1>4. over = covering
  BY DEF Covers
<1>5. screen[a] = IF a \in Arrow THEN Cursor
                  ELSE IF over = {} THEN Background
                  ELSE IF a \in outline[front] THEN Edge(front) ELSE Area(front)
  BY <1>2 DEF UpToDate
<1> HIDE DEF a
<1>6. CASE over = {}
  BY <1>3, <1>4, <1>5, <1>6 DEF a
<1>7. CASE over # {}
  <2>1. over \subseteq Children
    OBVIOUS
  <2>2. \E i \in over : \A j \in over : i <= j
    <3> HIDE DEF over
    <3> QED
      BY <1>7, <2>1, FirstChild
  <2>3. front \in over /\ \A j \in over : front <= j
    <3> HIDE DEF over
    <3> QED
      BY <2>2
  <2>4. a \in outline[front] \/ a \in area[front]
    <3> HIDE DEF front
    <3> QED
      BY <2>3
  <2>5. area[front] = NaivelyFilled(Inside(front))
    BY <2>1, <2>3
  <2> HIDE DEF over, front, outline, area
  <2>6. screen[a] = Edge(front) \/ (screen[a] = Area(front) /\ a \in area[front])
    BY <1>3, <1>5, <1>7, <2>4
  <2> QED
    BY <1>4, <2>3, <2>5, <2>6 DEF a
<1> QED
  BY <1>6, <1>7

\* Some child is hit where some child is, and it is the first.
LEMMA SomeIsHit ==
  ASSUME NEW i \in Children, Contains(at, i, cursor)
  PROVE  \E k \in Children : /\ Hit(at, cursor) = {k} /\ Contains(at, k, cursor)
                             /\ \A j \in Children : Contains(at, j, cursor) => k <= j
<1> DEFINE some == {j \in Children : Contains(at, j, cursor)}
<1>1. PICK k \in some : \A j \in some : k <= j
  <2>1. some \subseteq Children /\ some # {}
    OBVIOUS
  <2> HIDE DEF some
  <2> QED
    BY <2>1, FirstChild
<1>2. \A j \in some : j \in Nat /\ k \in Nat
  BY <1>1, ConstantsTyped
<1>3. \A j \in Children : j < k => ~Contains(at, j, cursor)
  BY <1>1, <1>2
<1>4. \A j \in some : j # k => k < j
  BY <1>1, <1>2
<1>5. Hit(at, cursor) = {k}
  BY <1>1, <1>3, <1>4 DEF Hit
<1> QED
  BY <1>1, <1>5

\* When the screen is up to date a press of the button reaches the window
\* whose area is drawn under the cursor: OnMouseDown and Draw go through the
\* children in opposite orders.
THEOREM UserIsRight == SpecOnScreen => []UserHitsWhatIsSeen
<1>1. IInv => UserHitsWhatIsSeen
  <2> DEFINE seen == screen[PixelAt(cursor.x, cursor.y)]
             covering == {i \in Children : Covers(i, cursor)}
             hit == Hit(at, cursor)
             Right == \/ seen[1] = "area" /\ hit = {seen[2]}
                      \/ seen = Background /\ hit = {}
                      \/ seen[1] = "frame"
                      \/ \E i \in hit : AtCorner(i, cursor)
  <2> SUFFICES ASSUME IInv, UpToDate PROVE Right
    BY DEF UserHitsWhatIsSeen
  <2>0. TypeOK
    BY DEF IInv
  <2>1. CASE covering = {}
    <3>1. seen = Background
      BY <2>0, <2>1, SeenUnderCursor
    <3>2. CASE hit = {}
      BY <3>1, <3>2
    <3>3. ASSUME NEW i \in hit PROVE AtCorner(i, cursor)
      <4>1. i \in Children /\ Contains(at, i, cursor)
        BY DEF Hit
      <4> QED
        BY <2>0, <2>1, <4>1, ContainsIsCovered
    <3> QED
      BY <3>2, <3>3
  <2>2. CASE covering # {}
    <3>1. PICK i \in covering :
            /\ \A j \in covering : i <= j
            /\ \/ seen = Edge(i)
               \/ /\ seen = Area(i)
                  /\ PixelAt(cursor.x, cursor.y) \in NaivelyFilled(Inside(i))
      BY <2>0, <2>2, SeenUnderCursor
    <3>2. CASE seen = Edge(i)
      BY <3>2 DEF Edge
    <3>3. CASE /\ seen = Area(i)
               /\ PixelAt(cursor.x, cursor.y) \in NaivelyFilled(Inside(i))
      <4>1. i \in Children /\ Contains(at, i, cursor)
        BY <2>0, <3>3, ContainsIsCovered
      <4>2. PICK k \in Children :
              /\ hit = {k} /\ Contains(at, k, cursor)
              /\ \A j \in Children : Contains(at, j, cursor) => k <= j
        BY <4>1, SomeIsHit
      <4>3. CASE AtCorner(k, cursor)
        BY <4>2, <4>3
      <4>4. CASE ~AtCorner(k, cursor)
        <5>1. k \in covering
          BY <2>0, <4>2, <4>4, ContainsIsCovered
        <5>2. k <= i /\ i <= k /\ i \in Nat /\ k \in Nat
          BY <3>1, <4>1, <4>2, <5>1, ConstantsTyped
        <5>3. seen[1] = "area" /\ seen[2] = k
          BY <3>3, <5>2 DEF Area
        <5> QED
          BY <4>2, <5>3
      <4> QED
        BY <4>3, <4>4
    <3> QED
      BY <3>1, <3>2, <3>3
  <2> QED
    BY <2>1, <2>2
<1> QED
  BY <1>1, InvariantOnScreen, PTL
==============================================================================
