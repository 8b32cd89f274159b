--------------------------- MODULE DesktopScreen ---------------------------
(****************************************************************************)
(* kernel_main in graphics mode: draw the desktop into the double buffer    *)
(* and swap it to the screen, for ever, while the mouse's interrupts move   *)
(* what is being drawn.  Paints stand for colors: one for the background,   *)
(* each window's area, each window's frame and the cursor.                  *)
(****************************************************************************)
EXTENDS Desktop

CONSTANTS
  Word,         \* 2^32
  CursorRows    \* DrawCursor's 8

\* Every offset FillRect can reach is told apart.
ASSUME ScreenAssumption ==
  /\ Word \in Nat /\ Word > 2 * Width * Height
  /\ CursorRows \in Nat

INSTANCE Surface

VARIABLES
  step,     \* the next drawing operation of the frame
  back,     \* doublebuffer
  screen    \* buffer: what Swap copied last

vars == <<input, step, back, screen>>

Background == <<"background", 0>>
Cursor == <<"cursor", 0>>
Area(i) == <<"area", i>>
Edge(i) == <<"frame", i>>

\* Desktop::Draw: the background, the children from the last to the first,
\* each its area and then its frame, and the cursor.
Frame ==
  [k \in 1 .. 2 * Len(Windows) + 2 |->
     CASE k = 1 -> Background
       [] k = 2 * Len(Windows) + 2 -> Cursor
       [] OTHER -> <<IF k % 2 = 0 THEN "area" ELSE "frame",
                     Len(Windows) + 1 - (k \div 2)>>]

\* A window's area, and the rectangle one pixel around it.
Inside(i) == [x |-> at[i].x, y |-> at[i].y, w |-> Windows[i].w, h |-> Windows[i].h]
Around(i) == [x |-> at[i].x - 1, y |-> at[i].y - 1,
              w |-> Windows[i].w + 1, h |-> Windows[i].h + 1]

Desk == [x |-> 0, y |-> 0, w |-> Width, h |-> Height]

\* DrawCursor: rows that grow upwards, all below the point it points to.
Arrow ==
  LET rows == {p \in (0 .. CursorRows) \X (0 .. (CursorRows - 1)) : p[1] < p[2]}
  IN Pixels({<<cursor.x + p[1], cursor.y + CursorRows - p[2]>> : p \in rows})

\* The pixels a drawing operation paints.
Reach(paint) ==
  CASE paint = Background -> Filled(Desk)
    [] paint = Cursor -> Arrow
    [] paint[1] = "area" -> Filled(Inside(paint[2]))
    [] paint[1] = "frame" -> Outline(Around(paint[2]))

InitScreen ==
  /\ InitInput
  /\ step = 1
  /\ back = [a \in Addresses |-> <<"memory", 0>>]
  /\ screen = [a \in Addresses |-> <<"memory", 0>>]

----------------------------------------------------------------------------
\* kernel_main.

DrawNext ==
  /\ step \in 1 .. Len(Frame)
  /\ back' = Painted(back, Reach(Frame[step]), Frame[step])
  /\ step' = step + 1
  /\ UNCHANGED <<input, screen>>

\* Mutant: the frame is shown before the cursor is drawn on it.
SwapEarly ==
  /\ step >= Len(Frame)
  /\ screen' = back
  /\ step' = 1
  /\ UNCHANGED <<input, back>>

Swap ==
  /\ step > Len(Frame)
  /\ screen' = back
  /\ step' = 1
  /\ UNCHANGED <<input, back>>

Main == DrawNext \/ Swap

----------------------------------------------------------------------------
\* The mouse's interrupts come between any two drawing operations.

Mouse == MousePacket /\ UNCHANGED <<step, back, screen>>

NextOnScreen == Main \/ Mouse

\* The loop of kernel_main never waits, and every interrupt returns to it.
SpecOnScreen == InitScreen /\ [][NextOnScreen]_vars /\ WF_vars(Main)

----------------------------------------------------------------------------
\* Correctness.

\* Every pixel shows what it should: the cursor, or the first window that
\* covers it with its area or the frame around it, or the background.
UpToDate ==
  LET arrow == Arrow
      outline == [i \in Children |-> Outline(Around(i))]
      area == [i \in Children |-> NaivelyFilled(Inside(i))]
  IN \A a \in Addresses :
       LET covering == {i \in Children : a \in outline[i] \cup area[i]}
           front == CHOOSE i \in covering : \A j \in covering : i <= j
       IN screen[a] = IF a \in arrow THEN Cursor
                      ELSE IF covering = {} THEN Background
                      ELSE IF a \in outline[front] THEN Edge(front) ELSE Area(front)

\* Contains takes the edges at x + w and y + h in, DrawRect leaves out the
\* corner where they meet.
AtCorner(i, p) == p.x = at[i].x + Windows[i].w /\ p.y = at[i].y + Windows[i].h

\* When the screen is up to date, a press of the button reaches the window
\* whose area the user sees under the cursor, or none if that is the
\* background: OnMouseDown searches the children in the order opposite to the
\* one Draw paints them in.  Only the corner of a window is not painted and
\* yet belongs to it.
UserHitsWhatIsSeen ==
  UpToDate =>
    LET seen == screen[PixelAt(cursor.x, cursor.y)]
        hit == Hit(at, cursor)
    IN \/ seen[1] = "area" /\ hit = {seen[2]}
       \/ seen = Background /\ hit = {}
       \/ seen[1] = "frame"
       \/ \E i \in hit : AtCorner(i, cursor)

\* Wherever a window is when it is drawn, over every edge of the screen, FillRect
\* with its running offset paints what the naive method in its comment would.
FillRectIsNaive ==
  step \in 1 .. Len(Frame) =>
    LET paint == Frame[step]
    IN paint[1] = "area" => Filled(Inside(paint[2])) = NaivelyFilled(Inside(paint[2]))

\* Once the mouse rests, the screen comes to show exactly the cursor and the
\* windows where they are, and keeps showing them, whatever the frames drawn
\* meanwhile had mixed up.
ScreenCatchesUp == <>[][UNCHANGED input]_vars => <>[]UpToDate
==============================================================================
