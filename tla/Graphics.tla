------------------------------ MODULE Graphics ------------------------------
(***************************************************************************)
(* graphics.c: rectangles and characters in the framebuffer, memory in      *)
(* which a row of pixels begins Pitch words after the one above.  Nothing   *)
(* is clipped; callers stay inside (the terminal on its cells, which are    *)
(* the framebuffer's size divided by a character's, rounded down).          *)
(***************************************************************************)
EXTENDS Integers, Sequences

CONSTANTS
  GraphicsWidth, GraphicsHeight, Pitch,  \* in pixels
  CharWidth, CharHeight,                 \* 8 and 16
  Font,                                  \* character -> its rows, as numbers
  Colors,
  MaxCalls                               \* bound: calls after graphics_init

ASSUME GraphicsAssumption ==
  /\ GraphicsWidth \in Nat /\ GraphicsHeight \in Nat /\ Pitch \in Nat
  /\ GraphicsWidth <= Pitch /\ CharWidth \in Nat \ {0} /\ CharHeight \in Nat \ {0}

VARIABLES
  Pixels,  \* the framebuffer, by offset
  calls,
  drawn    \* history: the last call

graphics == <<Pixels, calls, drawn>>

Offsets == 0..Pitch * GraphicsHeight - 1

(* The framebuffer with the w words from offset on set: memset32.           *)
memset32(fb, offset, color, w) ==
  [o \in Offsets |-> IF o \in offset..offset + w - 1 THEN color ELSE fb[o]]

(* Where the row k below the one at offset begins.                          *)
RowBelow_Width(offset, k) == offset + k * GraphicsWidth
RowBelow(offset, k) == offset + k * Pitch

Call == calls < MaxCalls /\ calls' = calls + 1

graphics_rect(x, y, w, h, color) ==
  LET offset == y * Pitch + x
      rows[k \in 0..h] ==
        IF k = 0 THEN Pixels ELSE memset32(rows[k - 1], RowBelow(offset, k - 1), color, w)
  IN  Pixels' = rows[h]

(* A row of the bitmap holds the leftmost pixel in its highest bit.         *)
Ink(row, xc) == (row \div 2 ^ (CharWidth - 1 - xc)) % 2 = 1

graphics_char(x, y, c, fg, bg) ==
  LET offset == y * Pitch + x
      Drawn(o) == {q \in (0..CharWidth - 1) \X (0..CharHeight - 1) :
                     o = RowBelow(offset, q[2]) + q[1]}
  IN  Pixels' = [o \in Offsets |->
                   IF Drawn(o) = {} THEN Pixels[o]
                   ELSE LET p == CHOOSE q \in Drawn(o) : TRUE
                        IN  IF Ink(Font[c][p[2] + 1], p[1]) THEN fg ELSE bg]

FillRect ==
  /\ Call
  /\ \E x \in 0..GraphicsWidth, y \in 0..GraphicsHeight :
       \E w \in 0..GraphicsWidth - x, h \in 0..GraphicsHeight - y, color \in Colors :
         /\ graphics_rect(x, y, w, h, color)
         /\ drawn' = [what |-> "rect", x |-> x, y |-> y, w |-> w, h |-> h, color |-> color]

(* As terminal_put calls it, for a cell of terminal_init's screen.          *)
PutChar ==
  /\ Call
  /\ \E k \in 0..(GraphicsWidth \div CharWidth) - 1,
        r \in 0..(GraphicsHeight \div CharHeight) - 1 :
       \E c \in DOMAIN Font, fg, bg \in Colors :
         /\ graphics_char(CharWidth * k, CharHeight * r, c, fg, bg)
         /\ drawn' = [what |-> "char", x |-> CharWidth * k, y |-> CharHeight * r,
                      c |-> c, fg |-> fg, bg |-> bg]

(* graphics_init clears the picture; before it the memory held anything,    *)
(* of which one value, not a colour, stays visible between the rows.        *)
Stale == "stale"
GraphicsInit ==
  /\ calls = 0 /\ drawn = [what |-> "none"]
  /\ \E color \in Colors :
       Pixels = [o \in Offsets |-> IF o % Pitch < GraphicsWidth THEN color ELSE Stale]

GraphicsNext == FillRect \/ PutChar

GraphicsSpec == GraphicsInit /\ [][GraphicsNext]_graphics

-----------------------------------------------------------------------------
(* Properties *)

(* What the framebuffer shows is a picture on which rectangles and upright  *)
(* characters appear where they are asked for, whatever its pitch; what     *)
(* lies between the rows is never written (graphics.c:45-87).               *)
Visible == [q \in (0..GraphicsWidth - 1) \X (0..GraphicsHeight - 1) |->
              Pixels[q[2] * Pitch + q[1]]]
Between == [o \in {o \in Offsets : o % Pitch >= GraphicsWidth} |-> Pixels[o]]
InkOf == [c \in DOMAIN Font |->
            {q \in (0..CharWidth - 1) \X (0..CharHeight - 1) : Ink(Font[c][q[2] + 1], q[1])}]
Shown == INSTANCE Picture WITH Width <- GraphicsWidth, Height <- GraphicsHeight,
                               Font <- InkOf, pixels <- Visible, padding <- Between
ShowsPicture == Shown!Spec
=============================================================================
