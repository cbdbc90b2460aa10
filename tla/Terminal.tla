------------------------------ MODULE Terminal ------------------------------
(***************************************************************************)
(* The text terminal of terminal.c: a buffer of packed entries, the picture *)
(* of it in the framebuffer, and a cursor drawn as a two pixel bar over the *)
(* left of its cell.  One terminal_char is one step: only one context       *)
(* prints at a time (TerminalExclusive of module Interrupts).  Module       *)
(* Console has those who print.                                             *)
(***************************************************************************)
EXTENDS Integers

CONSTANTS
  Width, Height,  \* in characters
  Glyphs          \* the printable characters printed

Space  == 32
Colors == 0..7  \* the table of color_lookup, of eight different colours
Black  == 0
White  == 7

ASSUME SizeAssumption == Width \in Nat \ {0} /\ Height \in Nat \ {0}
ASSUME GlyphsAssumption == Space \in Glyphs /\ Glyphs \subseteq 32..126

VARIABLES
  X, Y,      \* the cursor
  colors,    \* FG and BG
  Buffer,    \* packed entries, by cell number
  screen     \* what each cell of the framebuffer shows

vars == <<X, Y, colors, Buffer, screen>>

Size  == Width * Height
Cells == 0..Size - 1
Index(x, y) == y * Width + x

(* The 16 bit entry of a coloured character, and its fields.                *)
vga_entry(c, fg, bg) == (c + (fg + bg * 16) * 256) % 65536
Unpack(v) == [c |-> v % 256, fg |-> (v \div 256) % 16, bg |-> v \div 4096]

BlankEntry == vga_entry(Space, colors.fg, colors.bg)

(* A cell of the picture: a glyph, and the colour of the bar over it if the *)
(* cursor has been there since.                                             *)
NoBar == -1
Glyph(cell) == [c |-> cell.c, fg |-> cell.fg, bg |-> cell.bg, bar |-> NoBar]

(* The positions the statements of terminal_char work on.                   *)
WrapX(x) == IF x + 1 = Width THEN 0 ELSE x + 1

Bar(picture, x, y, color) ==
  IF x = Width \/ y = Height THEN picture
  ELSE [picture EXCEPT ![Index(x, y)].bar = color]

Erased_Kept == screen
Erased == Bar(screen, X, Y, colors.bg)

(* memmove up by one row and memset16 of the last one.                      *)
Scrolled_NoClear(buffer) ==
  [i \in Cells |-> IF i < Size - Width THEN buffer[i + Width] ELSE buffer[i]]
Scrolled(buffer) ==
  [i \in Cells |-> IF i < Size - Width THEN buffer[i + Width] ELSE BlankEntry]

Redrawn(buffer) == [i \in Cells |-> Glyph(Unpack(buffer[i]))]

(* The end of terminal_char: scroll and redraw everything if the cursor     *)
(* left the last row, and draw the cursor.                                  *)
Finish(x, y, buffer, picture) ==
  /\ X' = x
  /\ IF y >= Height
       THEN /\ Y' = Height - 1
            /\ Buffer' = Scrolled(buffer)
            /\ screen' = Bar(Redrawn(Buffer'), x, Height - 1, colors.fg)
       ELSE /\ Y' = y
            /\ Buffer' = buffer
            /\ screen' = Bar(picture, x, y, colors.fg)
  /\ UNCHANGED colors

(* terminal_put                                                             *)
PutEntry(c, x, y) == [Buffer EXCEPT ![Index(x, y)] = vga_entry(c, colors.fg, colors.bg)]
PutGlyph_ThenErases(c, x, y) ==
  [screen EXCEPT ![Index(x, y)] =
     [c |-> c, fg |-> colors.fg, bg |-> colors.bg, bar |-> colors.bg]]
PutGlyph(c, x, y) ==
  [Erased EXCEPT ![Index(x, y)] = Glyph([c |-> c, fg |-> colors.fg, bg |-> colors.bg])]

NewLine == Finish(0, Y + 1, Buffer, Erased)

PrintGlyph(c) ==
  Finish(WrapX(X), IF X + 1 = Width THEN Y + 1 ELSE Y, PutEntry(c, X, Y), PutGlyph(c, X, Y))

Backspace ==
  LET x == IF X = 0 THEN 0 ELSE X - 1
      y == IF X = 0 /\ Y > 0 THEN Y - 1 ELSE Y
  IN  Finish(x, y, PutEntry(Space, x, y), PutGlyph(Space, x, y))

terminal_char(c) ==
  CASE c = 8  -> Backspace
    [] c = 10 -> NewLine
    [] OTHER  -> PrintGlyph(c)

terminal_set_color(p) == colors' = p /\ UNCHANGED <<X, Y, Buffer, screen>>

(* terminal_init; the framebuffer is black, as spaces look.                 *)
Init ==
  /\ X = 0 /\ Y = 0 /\ colors = [fg |-> White, bg |-> Black]
  /\ Buffer = [i \in Cells |-> BlankEntry]
  /\ screen = [i \in Cells |-> Glyph(Unpack(BlankEntry))]

(* terminal_print sends one character after the other; all callers keep the *)
(* background black.                                                        *)
Next == \/ \E c \in Glyphs \cup {8, 10} : terminal_char(c)
        \/ \E fg \in Colors : terminal_set_color([fg |-> fg, bg |-> Black])

Spec == Init /\ [][Next]_vars

-----------------------------------------------------------------------------
(* Properties *)

(* The cursor is drawn once: a cell it has left shows no bar, or one in the *)
(* cell's own background (terminal.c:86-91, 95, 154).  It holds while all   *)
(* callers keep one background, as the kernel and its modules do.           *)
OneCursor ==
  \A i \in Cells \ {Index(X, Y)} : screen[i].bar \in {NoBar, screen[i].bg}

(* What the framebuffer shows is a scrolling text screen, though scrolls    *)
(* redraw it from the packed entries and nothing else does: picture and     *)
(* buffer never come apart (terminal.c:80-84, 93-155).                      *)
ShownRows == [r \in 0..Height - 1 |-> [k \in 0..Width - 1 |->
               LET s == screen[Index(k, r)] IN [c |-> s.c, fg |-> s.fg, bg |-> s.bg]]]
Shown == INSTANCE TextScreen WITH rows <- ShownRows, x <- X, y <- Y, Blank <- Space
ShowsTextScreen == Shown!Spec
=============================================================================
