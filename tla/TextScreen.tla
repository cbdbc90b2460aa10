----------------------------- MODULE TextScreen -----------------------------
(***************************************************************************)
(* What the terminal promises to whoever prints: a screen of rows of        *)
(* coloured characters with a cursor, which scrolls by a row when the       *)
(* cursor leaves the last one.                                              *)
(***************************************************************************)
EXTENDS Integers

CONSTANTS Width, Height, Blank, Glyphs

VARIABLES
  rows,    \* row -> column -> coloured character shown
  x, y,    \* the cursor
  colors   \* the colours in force, [fg, bg]

vars == <<rows, x, y, colors>>

Cell(c) == [c |-> c, fg |-> colors.fg, bg |-> colors.bg]

Init ==
  /\ x = 0 /\ y = 0
  /\ rows = [r \in 0..Height - 1 |-> [k \in 0..Width - 1 |-> Cell(Blank)]]

(* The rows and the cursor's row after moving to row r of the picture p.    *)
Advance(p, r) ==
  IF r < Height THEN rows' = p /\ y' = r
  ELSE /\ rows' = [i \in 0..Height - 1 |->
                     IF i < Height - 1 THEN p[i + 1]
                     ELSE [k \in 0..Width - 1 |-> Cell(Blank)]]
       /\ y' = Height - 1

NewLine == x' = 0 /\ Advance(rows, y + 1) /\ UNCHANGED colors

Put(c) ==
  /\ x' = IF x + 1 = Width THEN 0 ELSE x + 1
  /\ Advance([rows EXCEPT ![y][x] = Cell(c)], IF x + 1 = Width THEN y + 1 ELSE y)
  /\ UNCHANGED colors

(* Backspace blanks the previous cell; at the left edge that is the FIRST   *)
(* cell of the row above, if there is one.                                  *)
Backspace ==
  /\ x' = IF x = 0 THEN 0 ELSE x - 1
  /\ y' = IF x = 0 /\ y > 0 THEN y - 1 ELSE y
  /\ rows' = [rows EXCEPT ![y'][x'] = Cell(Blank)]
  /\ UNCHANGED colors

SetColor == UNCHANGED <<rows, x, y>>

Next == NewLine \/ Backspace \/ SetColor \/ \E c \in Glyphs : Put(c)

Spec == Init /\ [][Next]_vars
=============================================================================
