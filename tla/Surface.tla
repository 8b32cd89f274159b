------------------------------- MODULE Surface -------------------------------
(****************************************************************************)
(* vesa.cpp: drawing into the double buffer.  The buffer maps the index of  *)
(* each pixel to the paint on it.                                           *)
(****************************************************************************)
EXTENDS Integers

CONSTANTS
  Width, Height,   \* of the screen
  Word             \* 2^32: offsets are unsigned and wrap around

Addresses == 0 .. (Width * Height - 1)

\* The index of the pixel at <<x, y>>.
PixelAt(x, y) == Width * y + x

Visible(x, y) == x \in 0 .. (Width - 1) /\ y \in 0 .. (Height - 1)

Painted(buffer, addresses, paint) ==
  [a \in Addresses |-> IF a \in addresses THEN paint ELSE buffer[a]]

\* The addresses PutPixel writes for these points.
Pixels(points) == {PixelAt(p[1], p[2]) : p \in {q \in points : Visible(q[1], q[2])}}

\* DrawRect: the four sides; the right lower corner is not among them.
Outline(r) ==
  Pixels(((r.x .. (r.x + r.w - 1)) \X {r.y, r.y + r.h})
           \cup ({r.x, r.x + r.w} \X (r.y .. (r.y + r.h - 1))))

\* Where FillRect's offset is in column i of row j.  It starts at the clipped
\* corner and steps over the rest of each row; it is unsigned.
Offset(x, y, w, i, j) ==
  (Width * y + x + (j - y) * ((IF w > 0 THEN w ELSE 0) + Width - w) + (i - x)) % Word

\* Mutant: the right edge is not looked at.
FilledNoEdge(r) ==
  LET x == IF r.x < 0 THEN 0 ELSE r.x
      w == IF r.x < 0 THEN r.w + r.x ELSE r.w
  IN {Offset(x, r.y, w, i, j) : i \in x .. (x + w - 1), j \in r.y .. (r.y + r.h - 1)}
       \cap Addresses

\* FillRect: clipped at the left by the corner, at the right by the column,
\* above and below by the offset.
Filled(r) ==
  LET x == IF r.x < 0 THEN 0 ELSE r.x
      w == IF r.x < 0 THEN r.w + r.x ELSE r.w
  IN {Offset(x, r.y, w, i, j) : i \in {c \in x .. (x + w - 1) : c < Width},
                                j \in r.y .. (r.y + r.h - 1)}
       \cap Addresses

\* The "naive method" in FillRect's comment: PutPixel for every point.
NaivelyFilled(r) ==
  Pixels((r.x .. (r.x + r.w - 1)) \X (r.y .. (r.y + r.h - 1)))
==============================================================================
