------------------------------ MODULE Picture -------------------------------
(***************************************************************************)
(* What graphics.c promises: a picture of pixels by column and row, filled  *)
(* by rectangles and characters, and memory between its rows that is left   *)
(* alone.                                                                   *)
(***************************************************************************)
EXTENDS Integers

CONSTANTS
  Width, Height,          \* of the picture
  CharWidth, CharHeight,  \* of a character
  Font,                   \* character -> the columns and rows that are ink
  Colors

VARIABLES
  drawn,    \* what was asked for last
  pixels,   \* the colour of <<column, row>>
  padding   \* the memory between the rows

vars == <<drawn, pixels, padding>>

(* The pixels from (x, y) on, w wide and h high.                            *)
Box(x, y, w, h) == (x..x + w - 1) \X (y..y + h - 1)

Fill(a) ==
  pixels' = [q \in DOMAIN pixels |->
               IF q \in Box(a.x, a.y, a.w, a.h) THEN a.color ELSE pixels[q]]

Draw(a) ==
  pixels' = [q \in DOMAIN pixels |->
               CASE q \notin Box(a.x, a.y, CharWidth, CharHeight) -> pixels[q]
                 [] <<q[1] - a.x, q[2] - a.y>> \in Font[a.c] -> a.fg
                 [] OTHER -> a.bg]

Init ==
  drawn.what = "none" /\ \E color \in Colors : pixels = [q \in Box(0, 0, Width, Height) |-> color]

Next ==
  /\ UNCHANGED padding
  /\ \/ drawn'.what = "rect" /\ Fill(drawn')
     \/ drawn'.what = "char" /\ Draw(drawn')

Spec == Init /\ [][Next]_vars
=============================================================================
