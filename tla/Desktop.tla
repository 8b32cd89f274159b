------------------------------ MODULE Desktop ------------------------------
(****************************************************************************)
(* os::gui::desktop::Desktop and the windows on it, as the mouse driver's   *)
(* interrupt handler drives them: one packet moves the cursor, perhaps a    *)
(* window with it, and presses or releases buttons.  The windows have no    *)
(* children, as in kernel_main; keys go to focussedChild, which nothing     *)
(* ever sets there.                                                         *)
(****************************************************************************)
EXTENDS Integers, Sequences

CONSTANTS
  Width, Height,   \* of the screen
  Windows,         \* AddChild order: where they are created and their size
  Steps,           \* movements <<x, y>> a packet reports
  Buttons          \* that the mouse has: 1 is the left one

ASSUME DesktopAssumption ==
  /\ Width \in Nat \ {0} /\ Height \in Nat \ {0}
  /\ Windows \in Seq([x : Int, y : Int, w : Nat, h : Nat]) /\ Len(Windows) > 0
  /\ Steps \subseteq Int \X Int
  /\ Buttons \subseteq 1 .. 3

VARIABLES
  cursor,      \* MouseX, MouseY
  at,          \* x and y of every window
  dragging,
  buttons      \* MouseDriver's buttons: those that are down

input == <<cursor, at, dragging, buttons>>

Children == 1 .. Len(Windows)
Left == 1

InitInput ==
  /\ cursor = [x |-> Width \div 2, y |-> Height \div 2]
  /\ at = [i \in Children |-> [x |-> Windows[i].x, y |-> Windows[i].y]]
  /\ dragging = [i \in Children |-> FALSE]
  /\ buttons = {}

----------------------------------------------------------------------------
\* Which window a point belongs to.

\* The edges at x + w and y + h belong to the window.
Contains(places, i, p) ==
  /\ p.x >= places[i].x /\ p.x <= places[i].x + Windows[i].w
  /\ p.y >= places[i].y /\ p.y <= places[i].y + Windows[i].h

\* Mutant: the search goes on, so the last child that contains it answers.
HitLast(places, p) ==
  {i \in Children : /\ Contains(places, i, p)
                    /\ \A j \in Children : j > i => ~Contains(places, j, p)}

\* The first child that contains it, in AddChild order; none or one.
Hit(places, p) ==
  {i \in Children : /\ Contains(places, i, p)
                    /\ \A j \in Children : j < i => ~Contains(places, j, p)}

----------------------------------------------------------------------------
\* Desktop::OnMouseMove.

\* Mutant: the cursor is not kept in at the right and the lower edge.
ClampedBelow(v, limit) == IF v < 0 THEN 0 ELSE v

Clamped(v, limit) ==
  IF v < 0 THEN 0 ELSE IF v >= limit - 1 THEN limit - 1 ELSE v

Moved(p, step) ==
  [x |-> Clamped(p.x + step[1], Width), y |-> Clamped(p.y + step[2], Height)]

\* Window::OnMouseMove, for the windows in ws.
Drag(places, ws, old, new) ==
  [i \in Children |->
     IF i \in ws /\ dragging[i]
       THEN [x |-> places[i].x + new.x - old.x, y |-> places[i].y + new.y - old.y]
       ELSE places[i]]

\* Mutant: the window under both points hears of the movement twice.
DraggedTwice(old, new) ==
  LET places == Drag(at, Hit(at, old), old, new)
  IN Drag(places, Hit(places, new), old, new)

\* The window under the old place hears of the movement first, then the one
\* that is now under the new place, if it is another one.
Dragged(old, new) ==
  LET from == Hit(at, old)
      places == Drag(at, from, old, new)
  IN Drag(places, Hit(places, new) \ from, old, new)

----------------------------------------------------------------------------
\* Desktop::OnMouseDown and OnMouseUp reach the window under the cursor.

Pressed(drags, ws, b) ==
  [i \in Children |-> IF i \in ws THEN b = Left ELSE drags[i]]

\* Mutant: the window keeps moving when the left button is released.
ReleasedOther(drags, ws, b) ==
  [i \in Children |-> IF i \in ws THEN drags[i] /\ b = Left ELSE drags[i]]

\* The release of any button ends the drag.
Released(drags, ws, b) ==
  [i \in Children |-> IF i \in ws THEN FALSE ELSE drags[i]]

\* MouseDriver compares button b before and after the packet.
Button(drags, ws, b, down) ==
  IF b \in buttons /\ b \notin down THEN Released(drags, ws, b)
  ELSE IF b \in down /\ b \notin buttons THEN Pressed(drags, ws, b)
  ELSE drags

\* The whole packet, in one interrupt: the movement, then the buttons.
Packet(step, down) ==
  LET new == IF step = <<0, 0>> THEN cursor ELSE Moved(cursor, step)
      places == IF step = <<0, 0>> THEN at ELSE Dragged(cursor, new)
      ws == Hit(places, new)
  IN /\ cursor' = new
     /\ at' = places
     /\ dragging' = Button(Button(Button(dragging, ws, 1, down), ws, 2, down),
                           ws, 3, down)
     /\ buttons' = down

\* Bytes out of step with the mouse are packets too: any buttons may come.
MousePacket == \E step \in Steps, down \in SUBSET Buttons : Packet(step, down)

Init == InitInput
Next == MousePacket
Spec == Init /\ [][Next]_input

----------------------------------------------------------------------------
\* Correctness.

OnScreen(p) == p.x \in 0 .. (Width - 1) /\ p.y \in 0 .. (Height - 1)

TypeOK ==
  /\ cursor \in [x : Int, y : Int] /\ OnScreen(cursor)
  /\ at \in [Children -> [x : Int, y : Int]]
  /\ dragging \in [Children -> BOOLEAN]
  /\ buttons \subseteq Buttons

\* The window in front never sticks to the cursor: it moves only while the
\* left button that took hold of it is down, and the cursor stays on it, up to
\* the edges of the screen, so that the release reaches it.  (A window behind
\* another one may stick: the release goes to the window in front.)
FrontDragEnds ==
  dragging[1] => Left \in buttons /\ Contains(at, 1, cursor)

\* No drag takes the window in front off the screen altogether.
FrontStaysReachable ==
  \E x \in 0 .. (Width - 1), y \in 0 .. (Height - 1) :
    Contains(at, 1, [x |-> x, y |-> y])

\* A packet moves a window only if it is being dragged, and by as much as the
\* cursor really moved: the two passes of CompositeWidget::OnMouseMove never
\* move one window twice.
WindowsMoveWithCursor ==
  [][\A i \in Children : at'[i] # at[i] =>
       /\ dragging[i]
       /\ at'[i].x - at[i].x = cursor'.x - cursor.x
       /\ at'[i].y - at[i].y = cursor'.y - cursor.y]_input
==============================================================================
