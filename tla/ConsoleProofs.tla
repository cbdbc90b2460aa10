-------------------------- MODULE ConsoleProofs -----------------------------
(***************************************************************************)
(* For every size of screen: the cursor leaves no trace, and the terminal   *)
(* implements TextScreen.  The invariant says of every cell what picture    *)
(* and buffer have in common: without it a scroll, which draws everything   *)
(* again from the buffer, could show anything.                              *)
(*                                                                          *)
(* For every sequence of bytes, and whatever the firmware left in the UART: *)
(* the serial line carries what is printed.  What serial_init writes is     *)
(* part of the invariant: with other settings a write to the first port     *)
(* would not be a character, or lose bits.                                  *)
(*                                                                          *)
(* For the console of which both are parts, with the shell: each of its     *)
(* steps is one of theirs, so that what was proved of them holds here; and  *)
(* the row of the cursor reads as the line.  That takes an invariant with a *)
(* case for every kind of output under way, since a row is only readable    *)
(* again when all of it is printed.                                         *)
(***************************************************************************)
EXTENDS Console, WellFoundedInduction, TLAPS

-----------------------------------------------------------------------------
(* Cell numbers.  A product of two variables is beyond the solver: what the *)
(* others need of it is said here.                                          *)

Columns == 0..Width - 1
Rows    == 0..Height - 1

LEMMA TimesMonotone ==
  ASSUME NEW a \in Nat, NEW b \in Nat, NEW w \in Nat, a <= b
  PROVE  a * w <= b * w
OBVIOUS

(* What a scroll moves is all but the last row (terminal.c:132-136).       *)
LEMMA LastRow ==
  /\ Size \in Nat /\ Size - Width = (Height - 1) * Width /\ Size - Width \in Nat
BY SizeAssumption DEF Size

(* A cell inside the screen is inside the buffer (terminal.c:82).          *)
LEMMA IndexInside ==
  ASSUME NEW x \in Columns, NEW y \in Rows
  PROVE  Index(x, y) \in Cells
<1>1. y * Width <= (Height - 1) * Width
  BY TimesMonotone, SizeAssumption DEF Rows
<1>2. y * Width \in Nat
  BY SizeAssumption DEF Rows
<1> QED
  BY <1>1, <1>2, LastRow, SizeAssumption DEF Columns, Cells, Index

(* Rows follow each other in the buffer.                                   *)
LEMMA IndexOrder ==
  ASSUME NEW x \in Columns, NEW y \in Rows, NEW k \in Columns, NEW r \in Rows, r < y
  PROVE  Index(k, r) < Index(x, y)
<1>1. (r + 1) * Width <= y * Width
  BY TimesMonotone, SizeAssumption DEF Rows
<1>2. (r + 1) * Width = r * Width + Width
  BY SizeAssumption DEF Rows
<1>3. r * Width \in Nat /\ y * Width \in Nat
  BY SizeAssumption DEF Rows
<1> QED
  BY <1>1, <1>2, <1>3, SizeAssumption DEF Columns, Index

(* No two cells share an entry.                                            *)
LEMMA IndexInjective ==
  ASSUME NEW x \in Columns, NEW y \in Rows, NEW k \in Columns, NEW r \in Rows,
         Index(k, r) = Index(x, y)
  PROVE  k = x /\ r = y
<1>1. r = y
  BY IndexOrder, IndexInside DEF Rows, Cells
<1>2. y * Width \in Nat
  BY SizeAssumption DEF Rows
<1> QED
  BY <1>1, <1>2, SizeAssumption DEF Columns, Index

(* The cell below is Width entries further, and the last row has none below. *)
LEMMA IndexBelow ==
  ASSUME NEW x \in Columns, NEW y \in Rows
  PROVE  /\ y < Height - 1 => Index(x, y) < Size - Width /\ Index(x, y) + Width = Index(x, y + 1)
         /\ y = Height - 1 => ~(Index(x, y) < Size - Width)
<1>1. y * Width \in Nat /\ (y + 1) * Width = y * Width + Width
  BY SizeAssumption DEF Rows
<1>2. CASE y < Height - 1
  <2>1. (y + 1) * Width <= (Height - 1) * Width
    BY <1>2, TimesMonotone, SizeAssumption DEF Rows
  <2> QED
    BY <1>1, <1>2, <2>1, LastRow, SizeAssumption DEF Columns, Index
<1>3. CASE y = Height - 1
  BY <1>1, <1>3, LastRow, SizeAssumption DEF Columns, Index
<1> QED
  BY <1>2, <1>3, SizeAssumption DEF Rows

-----------------------------------------------------------------------------
(* Entries and pictures *)

Marks   == [c : Glyphs, fg : Colors, bg : {Black}]
Entries == {vga_entry(m.c, m.fg, m.bg) : m \in Marks}
Shapes  == [c : Glyphs, fg : Colors, bg : {Black}, bar : {NoBar} \cup Colors]

Plain(s) == [c |-> s.c, fg |-> s.fg, bg |-> s.bg]

(* The fields of a packed entry are what was packed: no carry from one into *)
(* another (terminal.c:22-30, 142-146).                                    *)
LEMMA UnpackEntry ==
  ASSUME NEW m \in Marks
  PROVE  Unpack(vga_entry(m.c, m.fg, m.bg)) = m
<1> DEFINE v == vga_entry(m.c, m.fg, m.bg)
<1>1. m.c \in 32..126 /\ m.fg \in 0..7 /\ m.bg = 0
  BY GlyphsAssumption DEF Marks, Colors, Black
<1>2. v = m.c + m.fg * 256
  BY <1>1 DEF vga_entry
<1>3. v % 256 = m.c /\ (v \div 256) % 16 = m.fg /\ v \div 4096 = 0
  BY <1>1, <1>2
<1>4. Unpack(v) = [c |-> m.c, fg |-> m.fg, bg |-> m.bg]
  BY <1>1, <1>3 DEF Unpack
<1> QED
  BY <1>4 DEF Marks

(* What is in the buffer can be drawn.                                     *)
LEMMA EntryUnpacks ==
  ASSUME NEW e \in Entries
  PROVE  Unpack(e) \in Marks
BY UnpackEntry DEF Entries

(* A glyph drawn covers the bar (terminal.c:83).                           *)
LEMMA GlyphOfMark ==
  ASSUME NEW m \in Marks
  PROVE  Glyph(m) \in Shapes /\ Plain(Glyph(m)) = m /\ Glyph(m).bar = NoBar
<1>1. Glyph(m) = [c |-> m.c, fg |-> m.fg, bg |-> m.bg, bar |-> NoBar]
  BY DEF Glyph
<1>2. Glyph(m) \in Shapes /\ Glyph(m).bar = NoBar
  BY <1>1 DEF Shapes, Marks
<1>3. Plain(Glyph(m)) = [c |-> m.c, fg |-> m.fg, bg |-> m.bg]
  BY <1>1 DEF Plain
<1> QED
  BY <1>2, <1>3 DEF Marks

(* Without its bar a cell shown is a coloured character.                   *)
LEMMA ShapeIsPlain ==
  ASSUME NEW s \in Shapes
  PROVE  Plain(s) \in Marks
BY DEF Plain, Shapes, Marks

(* A bar changes what no one reads back.                                    *)
LEMMA BarKeeps ==
  ASSUME NEW p \in [Cells -> Shapes], NEW x \in 0..Width, NEW y \in 0..Height, NEW color \in Colors
  PROVE  /\ Bar(p, x, y, color) \in [Cells -> Shapes]
         /\ \A i \in Cells :
              /\ Plain(Bar(p, x, y, color)[i]) = Plain(p[i])
              /\ i # Index(x, y) => Bar(p, x, y, color)[i] = p[i]
              /\ Bar(p, x, y, color)[i].bar \in {p[i].bar, color}
              /\ i = Index(x, y) /\ x < Width /\ y < Height => Bar(p, x, y, color)[i].bar = color
<1>1. CASE x = Width \/ y = Height
  BY <1>1 DEF Bar
<1>2. CASE ~(x = Width \/ y = Height)
  <2> DEFINE j == Index(x, y)
             q == [p EXCEPT ![j].bar = color]
  <2>1. Bar(p, x, y, color) = q
    BY <1>2 DEF Bar
  <2>2. j \in Cells
    BY <1>2, IndexInside, SizeAssumption DEF Columns, Rows
  <2> HIDE DEF j
  <2>3. \A s \in Shapes : /\ [s EXCEPT !.bar = color] \in Shapes
                          /\ Plain([s EXCEPT !.bar = color]) = Plain(s)
                          /\ [s EXCEPT !.bar = color].bar = color
    BY DEF Shapes, Plain
  <2>4. q = [p EXCEPT ![j] = [p[j] EXCEPT !.bar = color]]
    BY <2>2
  <2>5. \A i \in Cells : q[i] = IF i = j THEN [p[j] EXCEPT !.bar = color] ELSE p[i]
    BY <2>2, <2>4
  <2>6. q \in [Cells -> Shapes]
    BY <2>2, <2>3, <2>4
  <2> HIDE DEF q
  <2>7. \A i \in Cells : /\ Plain(q[i]) = Plain(p[i])
                         /\ i # j => q[i] = p[i]
                         /\ q[i].bar \in {p[i].bar, color}
                         /\ i = j => q[i].bar = color
    BY <2>3, <2>5
  <2> QED
    BY <2>1, <2>6, <2>7 DEF j
<1> QED
  BY <1>1, <1>2

-----------------------------------------------------------------------------
(* The invariant *)

Agree(buffer, picture) ==
  /\ buffer \in [Cells -> Entries] /\ picture \in [Cells -> Shapes]
  /\ \A i \in Cells : Plain(picture[i]) = Unpack(buffer[i])

Unbarred(picture) == \A i \in Cells : picture[i].bar \in {NoBar, Black}

IInv ==
  /\ X \in Columns /\ Y \in Rows /\ colors \in [fg : Colors, bg : {Black}]
  /\ Agree(Buffer, screen)
  /\ \A i \in Cells \ {Index(X, Y)} : screen[i].bar \in {NoBar, Black}

(* In the colours in force every character has an entry.                   *)
LEMMA EntryInForce ==
  ASSUME colors \in [fg : Colors, bg : {Black}], NEW c \in Glyphs
  PROVE  /\ vga_entry(c, colors.fg, colors.bg) \in Entries
         /\ Unpack(vga_entry(c, colors.fg, colors.bg)) = [c |-> c, fg |-> colors.fg, bg |-> colors.bg]
<1> DEFINE m == [c |-> c, fg |-> colors.fg, bg |-> colors.bg]
<1>1. m \in Marks
  BY DEF Marks
<1>2. vga_entry(c, colors.fg, colors.bg) = vga_entry(m.c, m.fg, m.bg)
  OBVIOUS
<1> QED
  BY <1>1, <1>2, UnpackEntry DEF Entries

(* A scroll leaves entries.                                                *)
LEMMA ScrolledEntries ==
  ASSUME colors \in [fg : Colors, bg : {Black}], NEW buffer \in [Cells -> Entries]
  PROVE  Scrolled(buffer) \in [Cells -> Entries]
<1>1. BlankEntry \in Entries
  BY EntryInForce, GlyphsAssumption DEF BlankEntry
<1>2. \A i \in Cells : i < Size - Width => i + Width \in Cells
  BY LastRow, SizeAssumption DEF Cells
<1> QED
  BY <1>1, <1>2 DEF Scrolled

(* Drawing everything again gives a picture of the buffer without a bar.    *)
LEMMA RedrawnAgrees ==
  ASSUME NEW buffer \in [Cells -> Entries]
  PROVE  Agree(buffer, Redrawn(buffer)) /\ Unbarred(Redrawn(buffer))
<1>1. \A i \in Cells : Unpack(buffer[i]) \in Marks
  BY EntryUnpacks
<1>2. \A i \in Cells : /\ Glyph(Unpack(buffer[i])) \in Shapes
                       /\ Plain(Glyph(Unpack(buffer[i]))) = Unpack(buffer[i])
                       /\ Glyph(Unpack(buffer[i])).bar = NoBar
  BY <1>1, GlyphOfMark
<1> QED
  BY <1>2 DEF Agree, Unbarred, Redrawn

(* The end of terminal_char draws one bar, at the cursor.                  *)
LEMMA FinishKeeps ==
  ASSUME colors \in [fg : Colors, bg : {Black}], NEW x \in Columns, NEW y \in 0..Height,
         NEW buffer, NEW picture, Agree(buffer, picture), Unbarred(picture),
         Finish(x, y, buffer, picture)
  PROVE  IInv'
<1> DEFINE row == IF y >= Height THEN Height - 1 ELSE y
           b   == IF y >= Height THEN Scrolled(buffer) ELSE buffer
           p   == IF y >= Height THEN Redrawn(b) ELSE picture
<1>1. /\ X' = x /\ Y' = row /\ colors' = colors /\ Buffer' = b
      /\ screen' = Bar(p, x, row, colors.fg)
  BY DEF Finish
<1>2. row \in Rows /\ row \in 0..Height /\ x \in 0..Width
  BY SizeAssumption DEF Rows, Columns
<1>3. Agree(b, p) /\ Unbarred(p)
  <2>1. CASE y >= Height
    <3>1. b \in [Cells -> Entries]
      BY <2>1, ScrolledEntries DEF Agree
    <3> QED
      BY <2>1, <3>1, RedrawnAgrees
  <2>2. CASE ~(y >= Height)
    BY <2>2
  <2> QED
    BY <2>1, <2>2
<1> HIDE DEF row, b, p
<1>4. p \in [Cells -> Shapes] /\ colors.fg \in Colors
  BY <1>3 DEF Agree
<1>5. /\ screen' \in [Cells -> Shapes]
      /\ \A i \in Cells : /\ Plain(screen'[i]) = Plain(p[i])
                          /\ i # Index(x, row) => screen'[i] = p[i]
  BY <1>1, <1>2, <1>4, BarKeeps
<1>6. Agree(b, screen')
  BY <1>3, <1>5 DEF Agree
<1>7. Agree(Buffer, screen)'
  BY <1>1, <1>6 DEF Agree
<1>8. \A i \in Cells \ {Index(x, row)} : screen'[i].bar \in {NoBar, Black}
  BY <1>3, <1>5 DEF Unbarred
<1>9. (\A i \in Cells \ {Index(X, Y)} : screen[i].bar \in {NoBar, Black})'
  BY <1>1, <1>8 DEF Index, Cells, Size
<1> QED
  BY <1>1, <1>2, <1>7, <1>9 DEF IInv, Columns, Rows

(* Erasing the cursor leaves no bar that shows (terminal.c:95).            *)
LEMMA ErasedAgrees ==
  ASSUME IInv
  PROVE  Agree(Buffer, Erased) /\ Unbarred(Erased)
<1>1. /\ X \in 0..Width /\ Y \in 0..Height /\ X < Width /\ Y < Height
      /\ colors.bg = Black /\ colors.bg \in Colors /\ screen \in [Cells -> Shapes]
  BY SizeAssumption DEF IInv, Columns, Rows, Colors, Black, Agree
<1>2. /\ Erased \in [Cells -> Shapes]
      /\ \A i \in Cells :
           /\ Plain(Erased[i]) = Plain(screen[i])
           /\ i # Index(X, Y) => Erased[i] = screen[i]
           /\ i = Index(X, Y) => Erased[i].bar = Black
  BY <1>1, BarKeeps DEF Erased
<1> QED
  BY <1>2 DEF IInv, Agree, Unbarred

(* Writing the entry and its glyph at the same place keeps them together.   *)
LEMMA PutAgrees ==
  ASSUME IInv, NEW c \in Glyphs, NEW x \in Columns, NEW y \in Rows
  PROVE  Agree(PutEntry(c, x, y), PutGlyph(c, x, y)) /\ Unbarred(PutGlyph(c, x, y))
<1> DEFINE m == [c |-> c, fg |-> colors.fg, bg |-> colors.bg]
           e == vga_entry(c, colors.fg, colors.bg)
<1>1. m \in Marks /\ e \in Entries /\ Unpack(e) = m
  BY EntryInForce DEF IInv, Marks
<1>2. Glyph(m) \in Shapes /\ Plain(Glyph(m)) = m /\ Glyph(m).bar = NoBar
  BY <1>1, GlyphOfMark
<1>3. PutEntry(c, x, y) = [Buffer EXCEPT ![Index(x, y)] = e]
  BY DEF PutEntry
<1>4. PutGlyph(c, x, y) = [Erased EXCEPT ![Index(x, y)] = Glyph(m)]
  BY DEF PutGlyph
<1> HIDE DEF m, e
<1>5. Agree(Buffer, Erased) /\ Unbarred(Erased)
  BY ErasedAgrees
<1>6. Index(x, y) \in Cells
  BY IndexInside
<1> QED
  BY <1>1, <1>2, <1>3, <1>4, <1>5, <1>6 DEF Agree, Unbarred

(* The black framebuffer is a picture of spaces.                           *)
LEMMA InitInv == Init => IInv
<1> SUFFICES ASSUME Init PROVE IInv
  OBVIOUS
<1>1. X \in Columns /\ Y \in Rows /\ colors \in [fg : Colors, bg : {Black}]
  BY SizeAssumption DEF Init, Columns, Rows, Colors, White
<1>2. BlankEntry \in Entries
  BY <1>1, EntryInForce, GlyphsAssumption DEF BlankEntry
<1>3. Buffer \in [Cells -> Entries] /\ screen = Redrawn(Buffer)
  BY <1>2 DEF Init, Redrawn
<1>4. Agree(Buffer, screen) /\ Unbarred(screen)
  BY <1>3, RedrawnAgrees
<1> QED
  BY <1>1, <1>4 DEF IInv, Unbarred

(* Each of the three kinds of characters.                                  *)
LEMMA CharKeepsInv ==
  ASSUME IInv, NEW c \in Glyphs \cup {8, 10}, terminal_char(c)
  PROVE  IInv'
<1>1. colors \in [fg : Colors, bg : {Black}] /\ X \in Columns /\ Y \in Rows
  BY DEF IInv
<1>2. CASE c = 10
  <2>1. Finish(0, Y + 1, Buffer, Erased)
    BY <1>2 DEF terminal_char, NewLine
  <2>2. 0 \in Columns /\ Y + 1 \in 0..Height
    BY <1>1, SizeAssumption DEF Columns, Rows
  <2> QED
    BY <1>1, <2>1, <2>2, ErasedAgrees, FinishKeeps
<1>3. CASE c = 8
  <2> DEFINE x == IF X = 0 THEN 0 ELSE X - 1
             y == IF X = 0 /\ Y > 0 THEN Y - 1 ELSE Y
  <2>1. Finish(x, y, PutEntry(Space, x, y), PutGlyph(Space, x, y))
    BY <1>3 DEF terminal_char, Backspace
  <2>2. x \in Columns /\ y \in Rows /\ y \in 0..Height
    BY <1>1, SizeAssumption DEF Columns, Rows
  <2> HIDE DEF x, y
  <2> QED
    BY <1>1, <2>1, <2>2, PutAgrees, FinishKeeps, GlyphsAssumption
<1>4. CASE c # 8 /\ c # 10
  <2> DEFINE y == IF X + 1 = Width THEN Y + 1 ELSE Y
  <2>1. Finish(WrapX(X), y, PutEntry(c, X, Y), PutGlyph(c, X, Y))
    BY <1>4 DEF terminal_char, PrintGlyph
  <2>2. WrapX(X) \in Columns /\ y \in 0..Height
    BY <1>1, SizeAssumption DEF Columns, Rows, WrapX
  <2>3. c \in Glyphs
    BY <1>4
  <2> HIDE DEF y
  <2> QED
    BY <1>1, <2>1, <2>2, <2>3, PutAgrees, FinishKeeps
<1> QED
  BY <1>2, <1>3, <1>4

(* And a change of the foreground.                                         *)
LEMMA NextKeepsInv == IInv /\ [Next]_vars => IInv'
<1> SUFFICES ASSUME IInv, [Next]_vars PROVE IInv'
  OBVIOUS
<1>1. CASE \E c \in Glyphs \cup {8, 10} : terminal_char(c)
  BY <1>1, CharKeepsInv
<1>2. CASE \E fg \in Colors : terminal_set_color([fg |-> fg, bg |-> Black])
  BY <1>2 DEF terminal_set_color, IInv, Agree
<1>3. CASE UNCHANGED vars
  BY <1>3 DEF vars, IInv, Agree
<1> QED
  BY <1>1, <1>2, <1>3 DEF Next

(* For every size of screen and every sequence of characters and foreground *)
(* colours, a cell the cursor has left shows no bar (terminal.c:86-91, 95). *)
THEOREM OneCursorHolds == Spec => []OneCursor
<1>1. IInv => OneCursor
  BY DEF IInv, OneCursor, Agree, Shapes
<1> QED
  BY InitInv, NextKeepsInv, <1>1, PTL DEF Spec

-----------------------------------------------------------------------------
(* The refinement *)

RowsOf(picture) ==
  [r \in Rows |-> [k \in Columns |-> Plain(picture[Index(k, r)])]]

(* What is shown, as an operator of the picture.                           *)
LEMMA ShownRowsOf == ShownRows = RowsOf(screen) /\ ShownRows' = RowsOf(screen')
BY DEF ShownRows, RowsOf, Plain, Rows, Columns, Index

(* Bars are not part of the rows shown.                                    *)
LEMMA SameMarksSameRows ==
  ASSUME NEW p, NEW q, \A i \in Cells : Plain(p[i]) = Plain(q[i])
  PROVE  RowsOf(p) = RowsOf(q)
BY IndexInside DEF RowsOf

(* Moving the entries up by a row moves the rows shown up by one.           *)
LEMMA ScrolledRows ==
  ASSUME colors \in [fg : Colors, bg : {Black}],
         NEW buffer, NEW picture, Agree(buffer, picture)
  PROVE  RowsOf(Redrawn(Scrolled(buffer))) =
           [i \in Rows |-> IF i < Height - 1 THEN RowsOf(picture)[i + 1]
                           ELSE [k \in Columns |-> Shown!Cell(Space)]]
<1> DEFINE b == Scrolled(buffer)
<1>1. b \in [Cells -> Entries] /\ buffer \in [Cells -> Entries]
  BY ScrolledEntries DEF Agree
<1>2. \A i \in Cells : Plain(Redrawn(b)[i]) = Unpack(b[i])
  BY <1>1, RedrawnAgrees DEF Agree
<1>3. Unpack(BlankEntry) = Shown!Cell(Space)
  BY EntryInForce, GlyphsAssumption DEF BlankEntry, Shown!Cell
<1>4. ASSUME NEW r \in Rows, NEW k \in Columns
      PROVE  Unpack(b[Index(k, r)]) = IF r < Height - 1 THEN RowsOf(picture)[r + 1][k]
                                      ELSE Shown!Cell(Space)
  <2>1. Index(k, r) \in Cells
    BY IndexInside
  <2>2. CASE r < Height - 1
    <3>1. b[Index(k, r)] = buffer[Index(k, r + 1)]
      BY <2>1, <2>2, IndexBelow DEF Scrolled
    <3>2. r + 1 \in Rows
      BY <2>2, SizeAssumption DEF Rows
    <3>3. Index(k, r + 1) \in Cells
      BY <3>2, IndexInside
    <3>4. RowsOf(picture)[r + 1][k] = Plain(picture[Index(k, r + 1)])
      BY <3>2 DEF RowsOf
    <3> QED
      BY <2>2, <3>1, <3>3, <3>4 DEF Agree
  <2>3. CASE r = Height - 1
    <3>1. b[Index(k, r)] = BlankEntry
      BY <2>1, <2>3, IndexBelow DEF Scrolled
    <3> QED
      BY <1>3, <2>3, <3>1, SizeAssumption
  <2> QED
    BY <2>2, <2>3, SizeAssumption DEF Rows
<1>5. \A r \in Rows, k \in Columns : Plain(Redrawn(b)[Index(k, r)]) = Unpack(b[Index(k, r)])
  BY <1>2, IndexInside
<1> DEFINE old == RowsOf(picture)
<1>6. \A r \in Rows : r < Height - 1 => old[r + 1] = [k \in Columns |-> old[r + 1][k]]
  <2> SUFFICES ASSUME NEW r \in Rows, r < Height - 1
               PROVE  old[r + 1] = [k \in Columns |-> old[r + 1][k]]
    OBVIOUS
  <2>1. r + 1 \in Rows
    BY SizeAssumption DEF Rows
  <2>2. old[r + 1] = [k \in Columns |-> Plain(picture[Index(k, r + 1)])]
    BY <2>1 DEF RowsOf
  <2> HIDE DEF old
  <2> QED
    BY <2>2
<1>7. \A r \in Rows, k \in Columns :
        Plain(Redrawn(b)[Index(k, r)]) = IF r < Height - 1 THEN old[r + 1][k] ELSE Shown!Cell(Space)
  BY <1>4, <1>5
<1> HIDE DEF b, old
<1>8. RowsOf(Redrawn(b)) =
        [r \in Rows |-> [k \in Columns |-> IF r < Height - 1 THEN old[r + 1][k]
                                          ELSE Shown!Cell(Space)]]
  BY <1>7 DEF RowsOf
<1>9. RowsOf(Redrawn(b)) =
        [r \in Rows |-> IF r < Height - 1 THEN old[r + 1] ELSE [k \in Columns |-> Shown!Cell(Space)]]
  BY <1>6, <1>8
<1> QED
  BY <1>9 DEF b, old

(* The end of terminal_char is what the screen promises of moving on.       *)
LEMMA FinishAdvances ==
  ASSUME colors \in [fg : Colors, bg : {Black}], NEW x \in Columns, NEW y \in 0..Height,
         NEW buffer, NEW picture, Agree(buffer, picture), Finish(x, y, buffer, picture)
  PROVE  X' = x /\ colors' = colors /\ Shown!Advance(RowsOf(picture), y)
<1>1. X' = x /\ colors' = colors
  BY DEF Finish
<1>2. x \in 0..Width /\ colors.fg \in Colors
  BY SizeAssumption DEF Columns
<1>3. CASE y < Height
  <2>1. Y' = y /\ screen' = Bar(picture, x, y, colors.fg)
    BY <1>3, SizeAssumption DEF Finish
  <2>2. \A i \in Cells : Plain(screen'[i]) = Plain(picture[i])
    BY <1>2, <2>1, BarKeeps DEF Agree
  <2>3. ShownRows' = RowsOf(picture)
    BY <2>2, SameMarksSameRows, ShownRowsOf
  <2> QED
    BY <1>1, <1>3, <2>1, <2>3 DEF Shown!Advance
<1>4. CASE y = Height
  <2> DEFINE p == Redrawn(Scrolled(buffer))
  <2>1. Y' = Height - 1 /\ screen' = Bar(p, x, Height - 1, colors.fg)
    BY <1>4, SizeAssumption DEF Finish
  <2>2. p \in [Cells -> Shapes]
    BY ScrolledEntries, RedrawnAgrees DEF Agree
  <2>3. Height - 1 \in 0..Height
    BY SizeAssumption
  <2> HIDE DEF p
  <2>4. \A i \in Cells : Plain(screen'[i]) = Plain(p[i])
    BY <1>2, <2>1, <2>2, <2>3, BarKeeps
  <2>5. ShownRows' = RowsOf(p)
    BY <2>4, SameMarksSameRows, ShownRowsOf
  <2>6. ShownRows' = [i \in Rows |-> IF i < Height - 1 THEN RowsOf(picture)[i + 1]
                                     ELSE [k \in Columns |-> Shown!Cell(Space)]]
    BY <2>5, ScrolledRows DEF p
  <2> QED
    BY <1>1, <1>4, <2>1, <2>6, SizeAssumption DEF Shown!Advance, Rows, Columns
<1> QED
  BY <1>3, <1>4, SizeAssumption

(* Erasing the cursor changes nothing shown.                               *)
LEMMA ErasedRows ==
  ASSUME IInv
  PROVE  RowsOf(Erased) = ShownRows
BY ErasedAgrees, SameMarksSameRows, ShownRowsOf DEF IInv, Agree

(* A character put is shown at its place and nowhere else.                 *)
LEMMA PutRows ==
  ASSUME IInv, NEW c \in Glyphs, NEW x \in Columns, NEW y \in Rows
  PROVE  RowsOf(PutGlyph(c, x, y)) = [ShownRows EXCEPT ![y][x] = Shown!Cell(c)]
<1> DEFINE m == [c |-> c, fg |-> colors.fg, bg |-> colors.bg]
           p == PutGlyph(c, x, y)
<1>1. m \in Marks /\ m = Shown!Cell(c)
  BY DEF IInv, Marks, Shown!Cell
<1>2. Plain(Glyph(m)) = m
  BY <1>1, GlyphOfMark
<1>3. p = [Erased EXCEPT ![Index(x, y)] = Glyph(m)]
  BY DEF PutGlyph
<1>4. Erased \in [Cells -> Shapes] /\ Index(x, y) \in Cells
  BY ErasedAgrees, IndexInside DEF Agree
<1> HIDE DEF m, p
<1>5. ASSUME NEW r \in Rows, NEW k \in Columns
      PROVE  Plain(p[Index(k, r)]) = IF r = y /\ k = x THEN m ELSE Plain(Erased[Index(k, r)])
  <2>1. Index(k, r) \in Cells
    BY IndexInside
  <2>2. Index(k, r) = Index(x, y) => k = x /\ r = y
    BY IndexInjective
  <2> QED
    BY <1>2, <1>3, <1>4, <2>1, <2>2
<1>6. RowsOf(p) = [r \in Rows |-> [k \in Columns |->
                     IF r = y /\ k = x THEN m ELSE Plain(Erased[Index(k, r)])]]
  BY <1>5 DEF RowsOf
<1>7. RowsOf(p) = [RowsOf(Erased) EXCEPT ![y][x] = m]
  BY <1>6 DEF RowsOf
<1> QED
  BY <1>1, <1>7, ErasedRows DEF p

(* Every character is a step of the text screen.                           *)
LEMMA CharShows ==
  ASSUME IInv, NEW c \in Glyphs \cup {8, 10}, terminal_char(c)
  PROVE  Shown!Next
<1>1. colors \in [fg : Colors, bg : {Black}] /\ X \in Columns /\ Y \in Rows
  BY DEF IInv
<1>2. CASE c = 10
  <2>1. Finish(0, Y + 1, Buffer, Erased)
    BY <1>2 DEF terminal_char, NewLine
  <2>2. 0 \in Columns /\ Y + 1 \in 0..Height
    BY <1>1, SizeAssumption DEF Columns, Rows
  <2>3. X' = 0 /\ colors' = colors /\ Shown!Advance(ShownRows, Y + 1)
    BY <1>1, <2>1, <2>2, ErasedAgrees, ErasedRows, FinishAdvances
  <2> QED
    BY <2>3 DEF Shown!NewLine, Shown!Next
<1>3. CASE c = 8
  <2> DEFINE x == IF X = 0 THEN 0 ELSE X - 1
             y == IF X = 0 /\ Y > 0 THEN Y - 1 ELSE Y
  <2>1. Finish(x, y, PutEntry(Space, x, y), PutGlyph(Space, x, y))
    BY <1>3 DEF terminal_char, Backspace
  <2>2. x \in Columns /\ y \in Rows /\ y \in 0..Height /\ y < Height
    BY <1>1, SizeAssumption DEF Columns, Rows
  <2> HIDE DEF x, y
  <2>3. Space \in Glyphs
    BY GlyphsAssumption
  <2>4. X' = x /\ colors' = colors
        /\ Shown!Advance([ShownRows EXCEPT ![y][x] = Shown!Cell(Space)], y)
    BY <1>1, <2>1, <2>2, <2>3, PutAgrees, PutRows, FinishAdvances, SMTT(60)
  <2>5. ShownRows' = [ShownRows EXCEPT ![y][x] = Shown!Cell(Space)] /\ Y' = y
    BY <2>2, <2>4 DEF Shown!Advance
  <2>6. Shown!Backspace
    BY <2>4, <2>5 DEF Shown!Backspace, x, y
  <2> QED
    BY <2>6 DEF Shown!Next
<1>4. CASE c # 8 /\ c # 10
  <2> DEFINE y == IF X + 1 = Width THEN Y + 1 ELSE Y
  <2>1. Finish(WrapX(X), y, PutEntry(c, X, Y), PutGlyph(c, X, Y))
    BY <1>4 DEF terminal_char, PrintGlyph
  <2>2. WrapX(X) \in Columns /\ y \in 0..Height
    BY <1>1, SizeAssumption DEF Columns, Rows, WrapX
  <2>3. c \in Glyphs
    BY <1>4
  <2> HIDE DEF y
  <2>4. X' = WrapX(X) /\ colors' = colors
        /\ Shown!Advance([ShownRows EXCEPT ![Y][X] = Shown!Cell(c)], y)
    BY <1>1, <2>1, <2>2, <2>3, PutAgrees, PutRows, FinishAdvances
  <2>5. Shown!Put(c)
    BY <2>4 DEF Shown!Put, WrapX, y
  <2> QED
    BY <2>3, <2>5 DEF Shown!Next
<1> QED
  BY <1>2, <1>3, <1>4

(* So is every step, or it changes nothing shown.                          *)
LEMMA StepShows ==
  ASSUME IInv, [Next]_vars
  PROVE  [Shown!Next]_(Shown!vars)
<1>1. CASE \E c \in Glyphs \cup {8, 10} : terminal_char(c)
  BY <1>1, CharShows
<1>2. CASE \E fg \in Colors : terminal_set_color([fg |-> fg, bg |-> Black])
  <2>1. UNCHANGED <<X, Y, screen>>
    BY <1>2 DEF terminal_set_color
  <2>2. UNCHANGED ShownRows
    BY <2>1, ShownRowsOf
  <2> QED
    BY <2>1, <2>2 DEF Shown!SetColor, Shown!Next
<1>3. CASE UNCHANGED vars
  <2>1. UNCHANGED <<X, Y, colors, screen>>
    BY <1>3 DEF vars
  <2>2. UNCHANGED ShownRows
    BY <2>1, ShownRowsOf
  <2> QED
    BY <2>1, <2>2 DEF Shown!vars
<1> QED
  BY <1>1, <1>2, <1>3 DEF Next

(* The screen starts blank.                                                *)
LEMMA InitShows == Init => Shown!Init
<1> SUFFICES ASSUME Init PROVE Shown!Init
  OBVIOUS
<1>1. IInv
  BY InitInv
<1>2. \A i \in Cells : Plain(screen[i]) = Shown!Cell(Space)
  <2>1. colors \in [fg : Colors, bg : {Black}]
    BY <1>1 DEF IInv
  <2>2. Unpack(BlankEntry) = Shown!Cell(Space)
    BY <2>1, EntryInForce, GlyphsAssumption DEF BlankEntry, Shown!Cell
  <2> QED
    BY <1>1, <2>2 DEF IInv, Agree, Init
<1>3. ShownRows = [r \in Rows |-> [k \in Columns |-> Shown!Cell(Space)]]
  BY <1>2, ShownRowsOf, IndexInside DEF RowsOf
<1> QED
  BY <1>3 DEF Init, Shown!Init, Rows, Columns

(* For every size of screen, what the framebuffer shows is a scrolling text *)
(* screen (terminal.c:80-84, 93-155).                                      *)
THEOREM ShowsTextScreenHolds == Spec => ShowsTextScreen
<1>1. IInv /\ [Next]_vars => [Shown!Next]_(Shown!vars)
  BY StepShows
<1> QED
  BY InitInv, NextKeepsInv, InitShows, <1>1, PTL DEF Spec, ShowsTextScreen, Shown!Spec

-----------------------------------------------------------------------------
(* The serial port.                                                         *)

Registers ==
  [THR : {Empty} \cup 0..255, IER : 0..255, FCR : {199}, LCR : {LineControl}, MCR : {11},
   DLL : {3}, DLM : {0}]

(* The registers, with what is known of the last five.                      *)
Uart(fcr, lcr, mcr, dll, dlm) ==
  [THR : {Empty} \cup 0..255, IER : 0..255, FCR : fcr, LCR : lcr, MCR : mcr, DLL : dll, DLM : dlm]

SerialInv == uart \in Registers /\ SerialCarries

(* serial_init leaves the settings the transmitter needs, whatever was in   *)
(* the registers of the UART (serial.c:6-15).                               *)
LEMMA InitSettings ==
  ASSUME NEW u \in PowerOn
  PROVE  serial_init(u) \in Registers /\ serial_init(u).THR = Empty
<1> DEFINE B == 0..255
           u1 == outb(u, 1, 0)
           u2 == outb(u1, 3, 128)
           u3 == outb(u2, 0, 3)
           u4 == outb(u3, 1, 0)
           u5 == outb(u4, 3, LineControl)
           u6 == outb(u5, 2, 199)
           u7 == outb(u6, 4, 11)
<1>1. u7 = serial_init(u)
  BY DEF serial_init, SetDivisor, SetLine
<1> HIDE DEF u1, u2, u3, u4, u5, u6, u7
<1>2. u1 \in Uart(B, B, B, B, B)
  <2>1. u \in Uart(B, B, B, B, B)
    <3>1. u \in [THR : {Empty} \cup Firmware, IER : Firmware, FCR : Firmware,
                LCR : Firmware, MCR : Firmware, DLL : Firmware, DLM : Firmware]
      BY DEF PowerOn
    <3>2. Firmware \subseteq B /\ {Empty} \cup Firmware \subseteq {Empty} \cup B
      BY FirmwareAssumption
    <3> HIDE DEF B
    <3>3. u \in [THR : {Empty} \cup B, IER : B, FCR : B, LCR : B, MCR : B, DLL : B, DLM : B]
      BY <3>1, <3>2
    <3> QED
      BY <3>3 DEF Uart, B
  <2>2. u1 = IF DLAB(u) THEN [u EXCEPT !.DLM = 0] ELSE [u EXCEPT !.IER = 0]
    BY DEF u1, outb
  <2>3. [u EXCEPT !.DLM = 0] \in Uart(B, B, B, B, B)
    BY <2>1 DEF Uart
  <2>4. [u EXCEPT !.IER = 0] \in Uart(B, B, B, B, B)
    BY <2>1 DEF Uart
  <2> QED
    BY <2>2, <2>3, <2>4
<1>3. u2 \in Uart(B, {128}, B, B, B)
  <2>1. u2 = [u1 EXCEPT !.LCR = 128]
    BY DEF u2, outb
  <2> QED
    BY <1>2, <2>1 DEF Uart
<1>4. u3 \in Uart(B, {128}, B, {3}, B)
  <2>1. u3 = [u2 EXCEPT !.DLL = 3]
    BY <1>3 DEF u3, outb, DLAB, Uart
  <2> QED
    BY <1>3, <2>1 DEF Uart
<1>5. u4 \in Uart(B, {128}, B, {3}, {0})
  <2>1. u4 = [u3 EXCEPT !.DLM = 0]
    BY <1>4 DEF u4, outb, DLAB, Uart
  <2> QED
    BY <1>4, <2>1 DEF Uart
<1>6. u5 \in Uart(B, {3}, B, {3}, {0})
  <2>1. u5 = [u4 EXCEPT !.LCR = 3]
    BY DEF u5, outb, LineControl
  <2> QED
    BY <1>5, <2>1 DEF Uart
<1>7. u6 \in Uart({199}, {3}, B, {3}, {0}) /\ u6.THR = Empty
  <2>1. u6 = [u5 EXCEPT !.FCR = 199, !.THR = Empty]
    BY DEF u6, outb
  <2>2. u5 \in [THR : {Empty} \cup B, IER : B, FCR : B, LCR : {3}, MCR : B, DLL : {3}, DLM : {0}]
    BY <1>6 DEF Uart
  <2> HIDE DEF B
  <2> DEFINE set == [u5 EXCEPT !.FCR = 199]
  <2>3. set \in [THR : {Empty} \cup B, IER : B, FCR : {199}, LCR : {3}, MCR : B, DLL : {3}, DLM : {0}]
    BY <2>2
  <2>4. u6 = [set EXCEPT !.THR = Empty]
    BY <2>1, <2>2
  <2> HIDE DEF set
  <2>5. u6 \in [THR : {Empty} \cup B, IER : B, FCR : {199}, LCR : {3}, MCR : B, DLL : {3}, DLM : {0}]
    BY <2>3, <2>4
  <2>6. u6.THR = Empty
    BY <2>1, <2>2
  <2> QED
    BY <2>5, <2>6 DEF Uart, B
<1>8. u7 \in Uart({199}, {3}, {11}, {3}, {0}) /\ u7.THR = Empty
  <2>1. u7 = [u6 EXCEPT !.MCR = 11]
    BY DEF u7, outb
  <2> QED
    BY <1>7, <2>1 DEF Uart
<1> QED
  BY <1>1, <1>8 DEF Registers, Uart, LineControl

LEMMA SerialInitial == SerialInit => SerialInv
BY InitSettings DEF SerialInit, SerialInv, SerialCarries

(* A character is written only when THR is empty, so that the history holds *)
(* it alone.                                                                *)
LEMMA TxCarries ==
  ASSUME SerialInv, NEW c \in 0..255, serial_tx(c)
  PROVE  SerialInv'
<1>1. uart.THR = Empty
  BY DEF serial_tx, LineStatus, SerialInv, Registers, Empty
<1>2. uart' = [uart EXCEPT !.THR = c]
  BY DEF serial_tx, outb, DLAB, SerialInv, Registers, LineControl
<1>3. unsent' = <<c>>
  BY <1>1 DEF serial_tx, SerialInv, SerialCarries
<1>4. uart' \in Registers /\ uart'.THR = c
  BY <1>2 DEF SerialInv, Registers
<1> QED
  BY <1>3, <1>4 DEF SerialInv, SerialCarries, Empty

LEMMA TransmitCarries ==
  ASSUME SerialInv, Transmit
  PROVE  SerialInv'
<1>1. uart.THR \in 0..255 /\ uart.LCR = 3
  BY DEF Transmit, SerialInv, Registers, LineControl
<1>2. OnTheLine = uart.THR
  BY <1>1 DEF OnTheLine
<1>3. unsent = <<uart.THR>>
  BY DEF Transmit, SerialInv, SerialCarries
<1>4. unsent' = <<>>
  BY <1>2, <1>3 DEF Transmit
<1>5. uart' = [uart EXCEPT !.THR = Empty] /\ uart \in Registers
  BY DEF Transmit, SerialInv
<1>6. uart' \in Registers /\ uart'.THR = Empty
  BY <1>5 DEF Registers
<1> QED
  BY <1>4, <1>6 DEF SerialInv, SerialCarries

(* Every byte printed goes onto the line once, whole and in order, whatever *)
(* is printed and whatever the firmware left in the registers               *)
(* (serial.c:6-15, 23-27).                                                  *)
THEOREM SerialCarriesHolds == SerialSpec => []SerialCarries
<1>1. SerialInv /\ [SerialNext]_serial => SerialInv'
  <2> SUFFICES ASSUME SerialInv, [SerialNext]_serial PROVE SerialInv'
    OBVIOUS
  <2>1. CASE Transmit
    BY <2>1, TransmitCarries
  <2>2. CASE \E c \in 0..255 : serial_tx(c)
    BY <2>2, TxCarries
  <2>3. CASE UNCHANGED serial
    BY <2>3 DEF SerialInv, SerialCarries, serial
  <2> QED
    BY <2>1, <2>2, <2>3 DEF SerialNext
<1>2. SerialInv => SerialCarries
  BY DEF SerialInv
<1> QED
  BY SerialInitial, <1>1, <1>2, PTL DEF SerialSpec

-----------------------------------------------------------------------------
(* The console is made of its parts: what it prints, the terminal and the   *)
(* serial line take.                                                        *)

Editing == INSTANCE ShellProofs WITH Size <- BufferSize

Shown8 == Glyphs \cup {8, 10}
Items == [set : {FALSE}, value : Shown8] \cup [set : {TRUE}, value : Colors]
ConsoleInv == Editing!Inv /\ out \in Seq(Items)

LEMMA GlyphItem ==
  ASSUME NEW s \in Seq(Shown8)
  PROVE  Chars(s) \in Seq(Items) /\ Len(Chars(s)) = Len(s) /\ DOMAIN Chars(s) = 1..Len(s)
<1>1. Chars(s) \in [1..Len(s) -> Items]
    BY DEF Chars, Items
<1> QED
    BY <1>1

LEMMA ColorItem ==
  ASSUME NEW fg \in Colors
  PROVE  Color(fg) \in Seq(Items) /\ Len(Color(fg)) = 1
BY DEF Color, Items

LEMMA DecimalPrinted ==
  ASSUME NEW n \in 0..999
  PROVE  Decimal(n) \in Seq(Shown8)
<1>1. n \div 100 \in 0..9 /\ (n \div 10) % 10 \in 0..9 /\ n % 10 \in 0..9
    OBVIOUS
<1>2. /\ 48 + (n \div 100) \in Shown8 /\ 48 + ((n \div 10) % 10) \in Shown8
      /\ 48 + (n % 10) \in Shown8
    BY <1>1, PrintedAssumption, SMTT(60) DEF Shown8
<1> QED
    BY <1>2 DEF Decimal

(* Induction up to a number, over a set.                                    *)
LEMMA Induct ==
  ASSUME NEW L \in Nat, NEW S, 0 \in S, \A n \in 1..L : n - 1 \in S => n \in S
  PROVE  \A n \in 0..L : n \in S
<1> SUFFICES ASSUME NEW z \in 0..L, z \notin S PROVE FALSE
    OBVIOUS
<1> DEFINE T == {n \in 0..L : n \notin S}
           R == {ss \in Nat \X Nat : ss[1] < ss[2]}
<1>1. T \subseteq Nat /\ T # {}
    OBVIOUS
<1>2. IsWellFoundedOn(R, Nat)
    BY NatLessThanWellFounded DEF OpToRel
<1> HIDE DEF R, T
<1>3. PICK m \in T : \A k \in T : ~(<<k, m>> \in R)
    BY <1>1, <1>2, WFMin, Zenon
<1>4. m \in 1..L /\ m - 1 \in 0..L
    BY <1>3 DEF T
<1>5. <<m - 1, m>> \in R
    BY <1>4 DEF R
<1> QED
  <2>1. m - 1 \notin T
      BY <1>3, <1>5, Zenon
  <2> QED
      BY <1>3, <1>4, <2>1 DEF T

(* Concatenation one by one, as a recursive function.                       *)
AddedUp(f, L, first, more) ==
  /\ f = [n \in 0..L |-> f[n]]
  /\ f[0] = first /\ \A n \in 1..L : f[n] = f[n - 1] \o more[n]

LEMMA AddingExists ==
  ASSUME NEW L \in Nat, NEW first, NEW more
  PROVE  \E f : AddedUp(f, L, first, more)
<1> DEFINE S == {n \in 0..L : \E g : AddedUp(g, n, first, more)}
<1>1. 0 \in S
  <2> DEFINE g == [n \in 0..0 |-> first]
  <2>1. g = [n \in 0..0 |-> g[n]] /\ g[0] = first /\ \A n \in 1..0 : g[n] = g[n - 1] \o more[n]
      OBVIOUS
  <2> HIDE DEF g
  <2>2. AddedUp(g, 0, first, more)
      BY <2>1 DEF AddedUp
  <2> QED
      BY <2>2
<1>2. ASSUME NEW n \in 1..L, n - 1 \in S PROVE n \in S
  <2>1. PICK g : AddedUp(g, n - 1, first, more)
      BY <1>2
  <2> DEFINE h == [j \in 0..n |-> IF j = n THEN g[n - 1] \o more[n] ELSE g[j]]
  <2>2. h = [j \in 0..n |-> h[j]] /\ h[0] = first /\ n \in Nat
      BY <2>1, SMTT(60) DEF AddedUp
  <2>3. ASSUME NEW j \in 1..n PROVE h[j] = h[j - 1] \o more[j]
    <3>1. j - 1 \in 0..n /\ j - 1 # n /\ h[j - 1] = g[j - 1]
      <4>1. j - 1 \in 0..n /\ j - 1 # n
          OBVIOUS
      <4> QED
          BY <4>1
    <3>2. CASE j = n
        BY <3>1, <3>2, SMTT(60)
    <3>3. CASE j # n
      <4>1. j \in 1..n - 1 /\ h[j] = g[j]
          BY <3>3
      <4> QED
          BY <2>1, <3>1, <4>1 DEF AddedUp
    <3> HIDE DEF h
    <3> QED
        BY <3>2, <3>3
  <2> HIDE DEF h
  <2>4. AddedUp(h, n, first, more)
      BY <2>2, <2>3 DEF AddedUp
  <2> QED
      BY <2>4
<1> HIDE DEF S
<1>3. L \in S
  <2>1. \A n \in 0..L : n \in S
      BY <1>1, <1>2, Induct, Zenon
  <2> QED
      BY <2>1
<1> QED
    BY <1>3 DEF S

LEMMA AddingUp ==
  ASSUME NEW L \in Nat, NEW first \in Seq(Items), NEW more,
         \A n \in 1..L : more[n] \in Seq(Items), NEW f, AddedUp(f, L, first, more)
  PROVE  \A n \in 0..L : f[n] \in Seq(Items)
<1> DEFINE S == {n \in 0..L : f[n] \in Seq(Items)}
<1>1. 0 \in S
    BY DEF AddedUp
<1>2. ASSUME NEW n \in 1..L, n - 1 \in S PROVE n \in S
  <2>1. f[n] = f[n - 1] \o more[n] /\ more[n] \in Seq(Items) /\ f[n - 1] \in Seq(Items)
      BY <1>2, Zenon DEF AddedUp
  <2>2. f[n] \in Seq(Items)
      BY <2>1
  <2> QED
      BY <2>2
<1> HIDE DEF S
<1>3. \A n \in 0..L : n \in S
    BY <1>1, <1>2, Induct, Zenon
<1> QED
    BY <1>3 DEF S

(* What a command prints consists of characters the terminal takes.         *)
LEMMA CommandPrints ==
  ASSUME NEW args \in Seq(Seq(Letters)), Len(args) <= MaxLine
  PROVE  CommandOutput(args) \in Seq(Items)
<1> DEFINE L == Len(args)
           first == Chars(Decimal(L) \o <<10>>)
           more == [n \in 1..L |-> Chars(Decimal(n - 1) \o args[n] \o <<10>>)]
<1>1. L \in 0..999 /\ L \in Nat
  <2>1. L \in Nat
      OBVIOUS
  <2>2. L <= MaxLine /\ MaxLine \in 0..999
      BY LineAssumption
  <2> HIDE DEF L
  <2> QED
      BY <2>1, <2>2
<1>2. <<10>> \in Seq(Shown8)
  <2>1. 10 \in Shown8
      BY DEF Shown8
  <2> QED
      BY <2>1
<1>3. first \in Seq(Items)
  <2>1. Decimal(L) \o <<10>> \in Seq(Shown8)
    <3>1. Decimal(L) \in Seq(Shown8)
        BY <1>1, DecimalPrinted, ZenonT(60)
    <3> QED
        BY <1>2, <3>1, SMTT(60)
  <2> QED
      BY <2>1, GlyphItem
<1>4. \A n \in 1..L : more[n] \in Seq(Items)
  <2> SUFFICES ASSUME NEW n \in 1..L PROVE Chars(Decimal(n - 1) \o args[n] \o <<10>>) \in Seq(Items)
      OBVIOUS
  <2>1. n - 1 \in 0..999
    <3> HIDE DEF L
    <3> QED
        BY <1>1
  <2>2. args[n] \in Seq(Shown8)
    <3>1. args[n] \in Seq(Letters) /\ Letters \subseteq Shown8
        BY PrintedAssumption, SMTT(60) DEF Shown8
    <3> QED
        BY <3>1
  <2>3. Decimal(n - 1) \o args[n] \o <<10>> \in Seq(Shown8)
    <3>1. Decimal(n - 1) \in Seq(Shown8) /\ <<10>> \in Seq(Shown8)
        BY <1>2, <2>1, DecimalPrinted, ZenonT(60)
    <3> QED
        BY <2>2, <3>1
  <2> QED
      BY <2>3, GlyphItem
<1>5. ArgumentLines(args) =
        CHOOSE f : f = [n \in 0..L |-> IF n = 0 THEN first
                                       ELSE f[n - 1] \o Chars(Decimal(n - 1) \o args[n] \o <<10>>)]
    BY Zenon DEF ArgumentLines
<1> DEFINE Body(f) == [n \in 0..L |-> IF n = 0 THEN first
                                      ELSE f[n - 1] \o Chars(Decimal(n - 1) \o args[n] \o <<10>>)]
<1> HIDE DEF first
<1>6. ASSUME NEW f PROVE f = Body(f) <=> AddedUp(f, L, first, more)
  <2>1. \A n \in 1..L : more[n] = Chars(Decimal(n - 1) \o args[n] \o <<10>>)
      OBVIOUS
  <2>2. L \in Nat /\ 0 \in 0..L /\ \A n \in 1..L : n \in 0..L /\ n # 0
    <3> HIDE DEF L
    <3> QED
        BY <1>1
  <2>3. \A n \in 0..L : n # 0 => n \in 1..L
    <3> HIDE DEF L
    <3> QED
        BY <1>1
  <2> HIDE DEF more, L
  <2>4. ASSUME f = Body(f) PROVE AddedUp(f, L, first, more)
    <3>1. f[0] = first
        BY <2>2, <2>4
    <3>2. \A n \in 1..L : f[n] = f[n - 1] \o more[n]
        BY <2>2, <2>1, <2>4
    <3>3. f = [n \in 0..L |-> f[n]]
        BY <2>4
    <3> QED
        BY <3>1, <3>2, <3>3, Zenon DEF AddedUp
  <2>5. ASSUME AddedUp(f, L, first, more) PROVE f = Body(f)
    <3>1. \A n \in 0..L : f[n] = IF n = 0 THEN first
                                 ELSE f[n - 1] \o Chars(Decimal(n - 1) \o args[n] \o <<10>>)
        BY <2>1, <2>5, <2>3, Zenon DEF AddedUp
    <3>2. f = [n \in 0..L |-> f[n]]
        BY <2>5, Zenon DEF AddedUp
    <3> QED
        BY <3>1, <3>2, Zenon
  <2> QED
      BY <2>4, <2>5
<1> HIDE DEF Body, more, L
<1>7. \E f : f = Body(f)
  <2>1. \E f : AddedUp(f, L, first, more)
      BY <1>1, AddingExists, Zenon
  <2> QED
      BY <1>6, <2>1, Zenon
<1>8. ArgumentLines(args) = Body(ArgumentLines(args))
    BY <1>5, <1>7, Zenon DEF Body
<1>9. AddedUp(ArgumentLines(args), L, first, more)
    BY <1>6, <1>8, Zenon
<1>10. L \in Nat
    BY <1>1
<1>11. \A n \in 0..L : ArgumentLines(args)[n] \in Seq(Items)
    BY <1>3, <1>4, <1>9, <1>10, AddingUp, Zenon
<1> QED
    BY <1>10, <1>11 DEF CommandOutput, L

LEMMA PromptPrints == ShellPrompt \in Seq(Items) /\ ShellStart \in Seq(Items)
<1>1. /\ <<10>> \o Prompt \in Seq(Shown8) /\ <<Space>> \in Seq(Shown8) /\ Banner \in Seq(Shown8)
  <2>1. <<10>> \in Seq(Shown8) /\ <<Space>> \in Seq(Shown8)
      BY GlyphsAssumption DEF Shown8
  <2>2. Prompt \in Seq(Shown8) /\ Banner \in Seq(Shown8)
      BY PrintedAssumption DEF Shown8
  <2> QED
      BY <2>1, <2>2
<1>2. /\ Chars(<<10>> \o Prompt) \in Seq(Items) /\ Chars(<<Space>>) \in Seq(Items)
      /\ Chars(Banner) \in Seq(Items)
    BY <1>1, GlyphItem
<1>3. Color(Green) \in Seq(Items) /\ Color(White) \in Seq(Items) /\ Color(Red) \in Seq(Items)
    BY ColorItem DEF Green, White, Red, Colors
<1>4. ShellPrompt \in Seq(Items)
    BY <1>2, <1>3 DEF ShellPrompt
<1> QED
    BY <1>2, <1>3, <1>4 DEF ShellStart

LEMMA OneCharacter ==
  ASSUME NEW c \in Shown8
  PROVE  Chars(<<c>>) \in Seq(Items)
<1>1. <<c>> \in Seq(Shown8)
    OBVIOUS
<1> QED
    BY <1>1, GlyphItem

(* Both instances of the shell are one.                                     *)
LEMMA SameEnter ==
  ASSUME NEW c, Shell!shell_enter(c)
  PROVE  Editing!shell_enter(c)
<1>1. \A m, j : Shell!EndOf(m, j) = Editing!EndOf(m, j)
    BY DEF Shell!EndOf, Editing!EndOf, Shell!Nul, Editing!Nul
<1>2. \A m : Shell!Starts(m) = Editing!Starts(m)
    BY <1>1 DEF Shell!Starts, Editing!Starts, Shell!Space, Editing!Space
<1>3. \A m : Shell!Split(m) = Editing!Split(m)
    BY <1>1 DEF Shell!Split, Editing!Split, Shell!Space, Editing!Space, Shell!Nul, Editing!Nul,
       Shell!Bytes, Editing!Bytes
<1>4. \A m, j : Shell!StringAt(m, j) = Editing!StringAt(m, j)
    BY <1>1 DEF Shell!StringAt, Editing!StringAt
<1>5. \A S : Shell!Ascending(S) = Editing!Ascending(S)
    BY Zenon DEF Shell!Ascending, Editing!Ascending, Shell!Cardinality, Editing!Cardinality
<1>6. \A m : Shell!shell_command(m) => Editing!shell_command(m)
    BY <1>2, <1>3, <1>4, <1>5, Zenon DEF Shell!shell_command, Editing!shell_command
<1> QED
    BY <1>6, Zenon DEF Shell!shell_enter, Editing!shell_enter, Shell!MayLose, Editing!MayLose,
       Shell!Own, Editing!Own, Shell!Nul, Editing!Nul

(* A key is one signal to the shell.                                        *)
LEMMA KeyIsSignal ==
  ASSUME NEW c \in Shell!Keys, Key(c)
  PROVE  c \in Editing!Keys /\ Editing!event_key(c, FALSE) /\ Shell!event_key(c, FALSE)
<1>1. c \in Editing!Keys /\ ~lost
    BY DEF Key, Shell!Keys, Editing!Keys, Shell!Space, Editing!Space, Shell!Bell, Editing!Bell
<1>2. CASE Type(c)
  <2>1. Shell!PrintKey(c)
      BY <1>2 DEF Type
  <2>2. Editing!PrintKey(c)
      BY <2>1, Zenon DEF Shell!PrintKey, Editing!PrintKey, Shell!isprint, Editing!isprint,
         Shell!MayLose, Editing!MayLose, Shell!Own, Editing!Own
  <2> QED
      BY <1>1, <2>1, <2>2, Zenon DEF Shell!event_key, Editing!event_key
<1>3. CASE Enter(c)
  <2>1. Shell!shell_enter(c)
      BY <1>3 DEF Enter
  <2>2. Editing!shell_enter(c)
      BY <2>1, SameEnter, Zenon
  <2> QED
      BY <1>1, <2>1, <2>2, Zenon DEF Shell!event_key, Editing!event_key
<1>4. CASE Erase(c)
  <2>1. Shell!Erase(c)
      BY <1>4 DEF Erase
  <2>2. Editing!Erase(c)
      BY <2>1, Zenon DEF Shell!Erase, Editing!Erase, Shell!Nul, Editing!Nul,
         Shell!MayLose, Editing!MayLose, Shell!Own, Editing!Own
  <2> QED
      BY <1>1, <2>1, <2>2, Zenon DEF Shell!event_key, Editing!event_key
<1>5. CASE Ignore(c)
  <2>1. Shell!Ignore(c)
      BY <1>5 DEF Ignore
  <2>2. Editing!Ignore(c)
      BY <2>1, Zenon DEF Shell!Ignore, Editing!Ignore, Shell!isprint, Editing!isprint,
         Shell!vars, Editing!vars, Shell!history, Editing!history
  <2> QED
      BY <1>1, <2>1, <2>2, Zenon DEF Shell!event_key, Editing!event_key
<1> QED
    BY <1>2, <1>3, <1>4, <1>5 DEF Key

LEMMA SignalKeeps ==
  ASSUME Editing!Inv, NEW c \in Editing!Keys, Editing!event_key(c, FALSE)
  PROVE  Editing!Inv'
<1>1. Editing!Next
    BY DEF Editing!Next
<1> QED
    BY <1>1, Editing!StepInv, LineAssumption DEF Editing!ShellSizes

LEMMA EditorRests ==
  ASSUME Editing!Inv, UNCHANGED editor
  PROVE  Editing!Inv' /\ UNCHANGED Shell!vars
<1>1. UNCHANGED Editing!vars /\ UNCHANGED Shell!vars
    BY DEF editor, Editing!vars, Editing!history, Shell!vars, Shell!history
<1> QED
    BY <1>1, Editing!StepInv, LineAssumption DEF Editing!ShellSizes

(* What a key prints.                                                       *)
LEMMA KeyPrints ==
  ASSUME ConsoleInv, NEW c \in Shell!Keys, Key(c)
  PROVE  out' \in Seq(Items)
<1>1. CASE Type(c)
  <2>1. c \in Glyphs
      BY <1>1, PrintedAssumption, GlyphsAssumption, LineAssumption
      DEF Type, Shell!PrintKey, Shell!isprint, Shell!Keys, Shell!Space, Shell!Bell, Space
  <2> QED
      BY <1>1, <2>1, OneCharacter DEF Type, Shown8
<1>2. CASE Enter(c)
  <2>1. printed' \in Seq(Seq(Letters)) /\ Len(printed') <= MaxLine
    <3>1. Editing!shell_enter(c)
        BY <1>2, SameEnter, Zenon DEF Enter
    <3> QED
        BY <3>1, Editing!EnterPrints, LineAssumption DEF Editing!ShellSizes, ConsoleInv
  <2>2. CommandOutput(printed') \in Seq(Items)
      BY <2>1, CommandPrints, Zenon
  <2>3. Chars(<<10>>) \in Seq(Items)
      BY OneCharacter DEF Shown8
  <2> QED
      BY <1>2, <2>2, <2>3, PromptPrints DEF Enter
<1>3. CASE Erase(c)
    BY <1>3, OneCharacter DEF Erase, Shown8
<1>4. CASE Ignore(c)
    BY <1>4 DEF Ignore, ConsoleInv
<1> QED
    BY <1>1, <1>2, <1>3, <1>4 DEF Key

(* A step of the console, as its parts see it.                              *)
InParts == [Next]_vars /\ [SerialNext]_serial /\ [Shell!Next]_(Shell!vars)

LEMMA PrintNextInParts ==
  ASSUME ConsoleInv, PrintNext
  PROVE  ConsoleInv' /\ InParts
<1>1. Editing!Inv' /\ UNCHANGED Shell!vars
    BY EditorRests DEF ConsoleInv, PrintNext
<1>2. Head(out) \in Items /\ out' \in Seq(Items)
    BY DEF ConsoleInv, PrintNext, Rest
<1>3. CASE Head(out).set
  <2>1. Head(out).value \in Colors
      BY <1>2, <1>3 DEF Items
  <2>2. Next /\ UNCHANGED serial
      BY <1>3, <2>1 DEF PrintNext, Next
  <2> QED
      BY <1>1, <1>2, <2>2 DEF ConsoleInv, InParts
<1>4. CASE ~Head(out).set
  <2>1. Head(out).value \in Shown8
      BY <1>2, <1>4 DEF Items
  <2>2. terminal_char(Head(out).value) /\ serial_tx(Head(out).value)
      BY <1>4 DEF PrintNext
  <2>3. Head(out).value \in Glyphs \cup {8, 10} /\ Head(out).value \in 0..255
    <3>1. \A c \in Shown8 : c \in Glyphs \cup {8, 10} /\ c \in 0..255
        BY GlyphsAssumption DEF Shown8
    <3> QED
        BY <2>1, <3>1, Zenon
  <2>4. Next /\ SerialNext
      BY <2>2, <2>3 DEF Next, SerialNext
  <2> QED
      BY <1>1, <1>2, <2>4 DEF ConsoleInv, InParts
<1> QED
    BY <1>3, <1>4

LEMMA ConsoleStep == ConsoleInv /\ [ConsoleNext]_console => ConsoleInv' /\ InParts
<1> SUFFICES ASSUME ConsoleInv, [ConsoleNext]_console PROVE ConsoleInv' /\ InParts
    OBVIOUS
<1>1. CASE PrintNext
    BY <1>1, PrintNextInParts
<1>2. CASE Send
    BY <1>2, EditorRests DEF Send, ConsoleInv, InParts, SerialNext, display, vars
<1>3. CASE KmainPrints
  <2>1. out' \in Seq(Items)
    <3>1. PICK c \in Messages : out' = Chars(<<c>>)
        BY <1>3 DEF KmainPrints
    <3>2. c \in Shown8
        BY PrintedAssumption DEF Shown8
    <3> QED
        BY <3>1, <3>2, OneCharacter
  <2> QED
      BY <1>3, <2>1, EditorRests DEF KmainPrints, ConsoleInv, InParts, display, vars
<1>4. CASE StartShell
  <2>1. out' \in Seq(Items)
      BY <1>4, PromptPrints DEF StartShell
  <2> QED
      BY <1>4, <2>1, EditorRests DEF StartShell, ConsoleInv, InParts, display, vars
<1>5. CASE \E c \in Shell!Keys : Key(c)
  <2>1. PICK c \in Shell!Keys : Key(c)
      BY <1>5
  <2>2. Editing!Inv' /\ out' \in Seq(Items)
      BY <2>1, KeyIsSignal, SignalKeeps, KeyPrints DEF ConsoleInv
  <2>3. Shell!Next
      BY <2>1, KeyIsSignal DEF Shell!Next
  <2>4. UNCHANGED <<vars, serial>>
      BY <2>1 DEF Key, display, vars
  <2> QED
      BY <2>2, <2>3, <2>4 DEF ConsoleInv, InParts
<1>6. CASE UNCHANGED console
    BY <1>6, EditorRests DEF console, ConsoleInv, InParts, display, vars
<1> QED
    BY <1>1, <1>2, <1>3, <1>4, <1>5, <1>6 DEF ConsoleNext

LEMMA ConsoleStarts == ConsoleInit => ConsoleInv
<1> SUFFICES ASSUME ConsoleInit PROVE ConsoleInv
    OBVIOUS
<1>1. Editing!Init
    BY DEF ConsoleInit, Shell!Init, Editing!Init, Shell!Space, Editing!Space, Shell!Nul, Editing!Nul,
       Shell!Bytes, Editing!Bytes
<1>2. Editing!Inv
    BY <1>1, Editing!InitInv, LineAssumption DEF Editing!ShellSizes
<1> QED
    BY <1>2 DEF ConsoleInit, ConsoleInv

(* The console runs its parts: whatever is printed and typed, and whenever  *)
(* the UART sends, the terminal, the serial line and the shell do nothing   *)
(* but steps of their own (terminal.c:157-164; shell main.c:55-123).        *)
THEOREM ConsoleRunsItsParts == ConsoleSpec => Spec /\ SerialSpec /\ Shell!Spec
<1>1. ConsoleInit => Init /\ SerialInit /\ Shell!Init
    BY DEF ConsoleInit
<1>2. ConsoleInv /\ [ConsoleNext]_console =>
        ConsoleInv' /\ [Next]_vars /\ [SerialNext]_serial /\ [Shell!Next]_(Shell!vars)
    BY ConsoleStep DEF InParts
<1> QED
    BY <1>1, <1>2, ConsoleStarts, PTL DEF ConsoleSpec, Spec, SerialSpec, Shell!Spec

-----------------------------------------------------------------------------
(* What one character does to the row of the cursor.                        *)

LEMMA CellNumbers ==
  ASSUME NEW y \in Rows, NEW k \in Columns, NEW l \in Columns
  PROVE  Index(k, y) \in Cells /\ (Index(k, y) = Index(l, y) => k = l)
BY IndexInside, IndexInjective

Same(k) == screen'[Index(k, Y)] = screen[Index(k, Y)]

(* A glyph away from the edge goes behind what is there, and the bars of    *)
(* the cursor do not touch that.                                            *)
LEMMA GlyphShows ==
  ASSUME IInv, NEW c \in Glyphs, terminal_char(c), X + 1 < Width
  PROVE  /\ X' = X + 1 /\ Y' = Y /\ colors' = colors
         /\ \A k \in 0..X - 1 : Same(k)
         /\ screen'[Index(X, Y)] = [c |-> c, fg |-> colors.fg, bg |-> Black, bar |-> NoBar]
<1>1. /\ X \in Columns /\ X + 1 \in Columns /\ Y \in Rows /\ Y < Height
      /\ X \in 0..Width /\ X + 1 \in 0..Width /\ Y \in 0..Height
      /\ colors.bg = Black /\ colors.bg \in Colors /\ colors.fg \in Colors
    BY SizeAssumption DEF IInv, Columns, Rows, Colors, Black
<1>2. Finish(X + 1, Y, PutEntry(c, X, Y), PutGlyph(c, X, Y))
  <2>1. c # 8 /\ c # 10
      BY GlyphsAssumption
  <2>2. WrapX(X) = X + 1 /\ X + 1 # Width
      BY <1>1 DEF WrapX, Columns
  <2> QED
      BY <2>1, <2>2 DEF terminal_char, PrintGlyph
<1> DEFINE m == [c |-> c, fg |-> colors.fg, bg |-> colors.bg]
           q == PutGlyph(c, X, Y)
<1>3. X' = X + 1 /\ Y' = Y /\ colors' = colors /\ screen' = Bar(q, X + 1, Y, colors.fg)
    BY <1>1, <1>2, SizeAssumption DEF Finish, Rows
<1>4. /\ Erased \in [Cells -> Shapes] /\ q \in [Cells -> Shapes]
      /\ \A i \in Cells : i # Index(X, Y) => Erased[i] = screen[i]
  <2>1. screen \in [Cells -> Shapes]
      BY DEF IInv, Agree
  <2>2. \A i \in Cells : i # Index(X, Y) => Erased[i] = screen[i]
      BY <1>1, <2>1, BarKeeps DEF Erased
  <2> QED
      BY <1>1, <2>2, ErasedAgrees, PutAgrees DEF Agree
<1>5. Index(X, Y) \in Cells /\ q = [Erased EXCEPT ![Index(X, Y)] = Glyph(m)]
    BY <1>1, CellNumbers DEF PutGlyph
<1>6. \A i \in Cells : q[i] = IF i = Index(X, Y) THEN Glyph(m) ELSE screen[i]
    BY <1>4, <1>5
<1>7. \A i \in Cells : i # Index(X + 1, Y) => screen'[i] = q[i]
  <2> HIDE DEF q
  <2> QED
      BY <1>1, <1>3, <1>4, BarKeeps
<1>8. ASSUME NEW k \in 0..X
      PROVE  k \in Columns /\ Index(k, Y) \in Cells /\ Index(k, Y) # Index(X + 1, Y)
  <2>1. Width \in Nat /\ X \in Nat /\ X < Width
      BY <1>1, SizeAssumption DEF Columns
  <2>2. k \in Columns /\ k # X + 1
      BY <2>1 DEF Columns
  <2> QED
      BY <1>1, <2>2, CellNumbers
<1>9. \A k \in 0..X - 1 : Same(k)
  <2> SUFFICES ASSUME NEW k \in 0..X - 1 PROVE Same(k)
      OBVIOUS
  <2>1. k \in 0..X /\ k # X
      BY <1>1 DEF Columns
  <2>2. Index(k, Y) # Index(X, Y)
      BY <1>1, <1>8, <2>1, CellNumbers
  <2> HIDE DEF q
  <2> QED
      BY <1>6, <1>7, <1>8, <2>1, <2>2 DEF Same
<1>10. screen'[Index(X, Y)] = Glyph(m)
  <2>1. X \in 0..X
      BY <1>1 DEF Columns
  <2> HIDE DEF q
  <2> QED
      BY <1>6, <1>7, <1>8, <2>1
<1>11. Glyph(m) = [c |-> c, fg |-> colors.fg, bg |-> Black, bar |-> NoBar]
    BY <1>1 DEF Glyph
<1> QED
    BY <1>3, <1>9, <1>10, <1>11

(* Backspace away from the left edge leaves what lies before the character. *)
LEMMA BackspaceShows ==
  ASSUME IInv, terminal_char(8), X > 0
  PROVE  /\ X' = X - 1 /\ Y' = Y /\ colors' = colors
         /\ \A k \in 0..X - 2 : Same(k)
<1>1. /\ X \in Columns /\ X - 1 \in Columns /\ Y \in Rows /\ Y < Height
      /\ X \in 0..Width /\ X - 1 \in 0..Width /\ Y \in 0..Height
      /\ colors.bg \in Colors /\ colors.fg \in Colors
    BY SizeAssumption DEF IInv, Columns, Rows, Colors, Black
<1> DEFINE q == PutGlyph(Space, X - 1, Y)
<1>2. Finish(X - 1, Y, PutEntry(Space, X - 1, Y), q)
  <2>1. X # 0
      BY <1>1 DEF Columns
  <2> QED
      BY <2>1 DEF terminal_char, Backspace
<1>3. X' = X - 1 /\ Y' = Y /\ colors' = colors /\ screen' = Bar(q, X - 1, Y, colors.fg)
    BY <1>1, <1>2, SizeAssumption DEF Finish, Rows
<1>4. /\ Erased \in [Cells -> Shapes] /\ q \in [Cells -> Shapes]
      /\ \A i \in Cells : i # Index(X, Y) => Erased[i] = screen[i]
  <2>1. screen \in [Cells -> Shapes]
      BY DEF IInv, Agree
  <2>2. \A i \in Cells : i # Index(X, Y) => Erased[i] = screen[i]
      BY <1>1, <2>1, BarKeeps DEF Erased
  <2> QED
      BY <1>1, <2>2, ErasedAgrees, PutAgrees, GlyphsAssumption DEF Agree
<1>5. \A i \in Cells : i # Index(X - 1, Y) /\ i # Index(X, Y) => q[i] = screen[i]
    BY <1>4 DEF PutGlyph
<1>6. \A i \in Cells : i # Index(X - 1, Y) => screen'[i] = q[i]
  <2> HIDE DEF q
  <2> QED
      BY <1>1, <1>3, <1>4, BarKeeps
<1>7. ASSUME NEW k \in 0..X - 2 PROVE Same(k)
  <2>1. Width \in Nat /\ X \in Nat /\ X < Width
      BY <1>1, SizeAssumption DEF Columns
  <2>2. k \in Columns /\ k # X /\ k # X - 1
      BY <2>1 DEF Columns
  <2>3. Index(k, Y) \in Cells /\ Index(k, Y) # Index(X, Y) /\ Index(k, Y) # Index(X - 1, Y)
      BY <1>1, <2>2, CellNumbers
  <2> HIDE DEF q
  <2> QED
      BY <1>5, <1>6, <2>3 DEF Same
<1> QED
    BY <1>3, <1>7

LEMMA NewLineShows ==
  ASSUME terminal_char(10)
  PROVE  X' = 0 /\ colors' = colors
BY DEF terminal_char, NewLine, Finish

-----------------------------------------------------------------------------
(* The row of the cursor reads as the line.  In between, while the output   *)
(* of a key is under way, it reads as far as the cursor: the invariant has  *)
(* a case for every kind of output.                                         *)

LP == Len(Prompt)
ShownAt(j) == IF j <= LP THEN Prompt[j] ELSE IF j = LP + 1 THEN Space ELSE memory[j - LP - 2]
ShadeAt(j) == IF j <= LP THEN Green ELSE White
RowReads(n) ==
  \A j \in 1..n : screen[Index(j - 1, Y)] =
                    [c |-> ShownAt(j), fg |-> ShadeAt(j), bg |-> Black, bar |-> NoBar]

(* What is left of the output ends as a prompt does.                        *)
PromptSize == LP + 4
EndsInPrompt(o) ==
  \A k \in 1..Len(o) :
    k > Len(o) - PromptSize => o[k] = ShellPrompt[PromptSize - Len(o) + k]

(* After n elements of the prompt; with n = 1 its colour is set.            *)
PromptShown(n) ==
  /\ n \in 1..LP + 2 => colors.fg = Green
  /\ n \in 2..LP + 2 => X = n - 2 /\ RowReads(X)
  /\ n = LP + 3 => colors.fg = White /\ X = LP /\ RowReads(X)

AtRest     == out = <<>> /\ colors.fg = White /\ X = LP + 1 + Cursor /\ RowReads(X)
AfterKey   == /\ Cursor > 0 /\ memory[Cursor - 1] \in Glyphs
              /\ out = Chars(<<memory[Cursor - 1]>>)
              /\ colors.fg = White /\ X = LP + Cursor /\ X + 1 < Width /\ RowReads(X)
AfterErase == out = Chars(<<8>>) /\ colors.fg = White /\ X = LP + 2 + Cursor /\ RowReads(X - 1)
AfterEnter == /\ Cursor = 0 /\ out # <<>> /\ EndsInPrompt(out)
              /\ PromptShown(PromptSize - Len(out))

LineInv ==
  /\ at = "kmain" => Cursor = 0
  /\ at = "shell" /\ ~wide => AtRest \/ AfterKey \/ AfterErase \/ AfterEnter

LEMMA Joined ==
  ASSUME NEW S, NEW s \in Seq(S), NEW t \in Seq(S)
  PROVE  /\ s \o t \in Seq(S) /\ Len(s \o t) = Len(s) + Len(t)
         /\ \A k \in 1..Len(s) : (s \o t)[k] = s[k]
         /\ \A k \in 1..Len(t) : (s \o t)[Len(s) + k] = t[k]
OBVIOUS

(* What the prompt consists of.                                             *)
LEMMA PromptElements ==
  /\ LP \in Nat /\ ShellPrompt \in Seq(Items) /\ Len(ShellPrompt) = PromptSize
  /\ ShellPrompt[1] = [set |-> TRUE, value |-> Green]
  /\ ShellPrompt[2] = [set |-> FALSE, value |-> 10]
  /\ \A j \in 1..LP : ShellPrompt[2 + j] = [set |-> FALSE, value |-> Prompt[j]]
  /\ ShellPrompt[LP + 3] = [set |-> TRUE, value |-> White]
  /\ ShellPrompt[LP + 4] = [set |-> FALSE, value |-> Space]
<1> DEFINE a == Color(Green)
           b == Chars(<<10>> \o Prompt)
           c == Color(White)
           d == Chars(<<Space>>)
<1>1. /\ LP \in Nat /\ Prompt \in Seq(Glyphs) /\ Prompt \in Seq(Shown8)
      /\ <<10>> \o Prompt \in Seq(Shown8) /\ <<Space>> \in Seq(Shown8)
  <2>1. Prompt \in Seq(Glyphs) /\ Prompt \in Seq(Shown8)
      BY PrintedAssumption DEF Shown8
  <2>2. <<10>> \in Seq(Shown8) /\ <<Space>> \in Seq(Shown8)
      BY GlyphsAssumption DEF Shown8
  <2>3. LP \in Nat
      BY <2>1 DEF LP
  <2> QED
      BY <2>1, <2>2, <2>3
<1>2. /\ a \in Seq(Items) /\ Len(a) = 1 /\ a[1] = [set |-> TRUE, value |-> Green]
      /\ c \in Seq(Items) /\ Len(c) = 1 /\ c[1] = [set |-> TRUE, value |-> White]
    BY ColorItem DEF Color, Green, White, Colors
<1>3. d \in Seq(Items) /\ Len(d) = 1 /\ d[1] = [set |-> FALSE, value |-> Space]
  <2> DEFINE s == <<Space>>
  <2>1. s \in Seq(Shown8) /\ Len(s) = 1 /\ s[1] = Space /\ 1 \in DOMAIN s
      BY <1>1
  <2> HIDE DEF s
  <2>2. Chars(s) \in Seq(Items) /\ Len(Chars(s)) = 1
      BY <2>1, GlyphItem
  <2>3. Chars(s)[1] = [set |-> FALSE, value |-> Space]
      BY <2>1, Zenon DEF Chars
  <2> QED
      BY <2>2, <2>3 DEF s
<1>4. /\ b \in Seq(Items) /\ Len(b) = LP + 1 /\ b[1] = [set |-> FALSE, value |-> 10]
      /\ \A j \in 1..LP : b[1 + j] = [set |-> FALSE, value |-> Prompt[j]]
  <2> DEFINE s == <<10>> \o Prompt
  <2>1. Len(s) = LP + 1 /\ s[1] = 10 /\ \A j \in 1..LP : s[1 + j] = Prompt[j]
      BY <1>1 DEF LP
  <2>2. s \in Seq(Shown8)
      BY <1>1
  <2> HIDE DEF s
  <2>3. Chars(s) \in Seq(Items) /\ Len(Chars(s)) = LP + 1 /\ DOMAIN s = 1..LP + 1
      BY <2>1, <2>2, GlyphItem
  <2>4. \A k \in 1..LP + 1 : Chars(s)[k] = [set |-> FALSE, value |-> s[k]]
      BY <2>3 DEF Chars
  <2>5. 1 \in 1..LP + 1 /\ \A j \in 1..LP : 1 + j \in 1..LP + 1
      BY <1>1
  <2>6. Chars(s)[1] = [set |-> FALSE, value |-> 10]
      BY <2>1, <2>4, <2>5
  <2>7. \A j \in 1..LP : Chars(s)[1 + j] = [set |-> FALSE, value |-> Prompt[j]]
      BY <2>1, <2>4, <2>5
  <2> QED
      BY <2>3, <2>6, <2>7 DEF s
<1>5. ShellPrompt = ((a \o b) \o c) \o d
    BY DEF ShellPrompt
<1> HIDE DEF a, b, c, d
<1>6. /\ a \o b \in Seq(Items) /\ Len(a \o b) = LP + 2 /\ (a \o b)[1] = a[1]
      /\ \A j \in 1..LP + 1 : (a \o b)[1 + j] = b[j]
  <2>1. 1 \in 1..Len(a)
      BY <1>2
  <2>2. /\ a \o b \in Seq(Items) /\ Len(a \o b) = Len(a) + Len(b)
        /\ \A k \in 1..Len(a) : (a \o b)[k] = a[k]
        /\ \A k \in 1..Len(b) : (a \o b)[Len(a) + k] = b[k]
    <3>1. a \in Seq(Items)
        BY <1>2
    <3>2. b \in Seq(Items)
        BY <1>4
    <3> QED
        BY <3>1, <3>2, Joined
  <2>3. Len(a) + Len(b) = LP + 2
      BY <1>1, <1>2, <1>4
  <2>4. \A j \in 1..LP + 1 : (a \o b)[1 + j] = b[j]
      BY <1>2, <1>4, <2>2
  <2> QED
      BY <2>1, <2>2, <2>3, <2>4
<1>7. /\ (a \o b) \o c \in Seq(Items) /\ Len((a \o b) \o c) = LP + 3
      /\ \A k \in 1..LP + 2 : ((a \o b) \o c)[k] = (a \o b)[k]
      /\ ((a \o b) \o c)[LP + 3] = c[1]
  <2> DEFINE g == a \o b
  <2>1. g \in Seq(Items) /\ Len(g) = LP + 2
      BY <1>6
  <2> HIDE DEF g
  <2>2. /\ g \o c \in Seq(Items) /\ Len(g \o c) = Len(g) + Len(c)
        /\ \A k \in 1..Len(g) : (g \o c)[k] = g[k]
        /\ \A k \in 1..Len(c) : (g \o c)[Len(g) + k] = c[k]
      BY <1>2, <2>1, Joined, SMTT(60)
  <2>3. 1 \in 1..Len(c) /\ Len(g) + 1 = LP + 3 /\ Len(g) + Len(c) = LP + 3
      BY <1>1, <1>2, <2>1
  <2>4. (g \o c)[LP + 3] = c[1]
      BY <2>2, <2>3
  <2> QED
      BY <2>1, <2>2, <2>3, <2>4, Zenon DEF g
<1>8. /\ ShellPrompt \in Seq(Items) /\ Len(ShellPrompt) = LP + 4
      /\ \A k \in 1..LP + 3 : ShellPrompt[k] = ((a \o b) \o c)[k]
      /\ ShellPrompt[LP + 4] = d[1]
  <2> DEFINE g == (a \o b) \o c
  <2>1. g \in Seq(Items) /\ Len(g) = LP + 3 /\ ShellPrompt = g \o d
      BY <1>5, <1>7
  <2> HIDE DEF g
  <2>2. /\ g \o d \in Seq(Items) /\ Len(g \o d) = Len(g) + Len(d)
        /\ \A k \in 1..Len(g) : (g \o d)[k] = g[k]
        /\ \A k \in 1..Len(d) : (g \o d)[Len(g) + k] = d[k]
    <3>1. d \in Seq(Items)
        BY <1>3
    <3>2. g \in Seq(Items)
        BY <2>1
    <3> QED
        BY <3>1, <3>2, Joined
  <2>3. 1 \in 1..Len(d) /\ Len(g) + 1 = LP + 4 /\ Len(g) + Len(d) = LP + 4
      BY <1>1, <1>3, <2>1
  <2>4. (g \o d)[LP + 4] = d[1]
      BY <2>2, <2>3
  <2> QED
      BY <2>1, <2>2, <2>3, <2>4, Zenon DEF g
<1>9. ASSUME NEW k \in 1..LP + 2
      PROVE  ShellPrompt[k] = (a \o b)[k]
  <2>1. k \in 1..LP + 3
      BY <1>1
  <2> QED
      BY <1>7, <1>8, <2>1
<1>10. /\ 1 \in 1..LP + 2 /\ 2 \in 1..LP + 2 /\ 1 \in 1..LP + 1 /\ LP + 3 \in 1..LP + 3
       /\ \A j \in 1..LP : 2 + j \in 1..LP + 2 /\ 1 + j \in 1..LP + 1 /\ 1 + (1 + j) = 2 + j
    BY <1>1
<1>11. /\ ShellPrompt[1] = a[1] /\ ShellPrompt[2] = b[1]
       /\ \A j \in 1..LP : ShellPrompt[2 + j] = b[1 + j]
  <2>1. ShellPrompt[1] = a[1]
      BY <1>6, <1>9, <1>10
  <2>2. ShellPrompt[2] = b[1]
    <3>1. (a \o b)[1 + 1] = b[1]
        BY <1>6, <1>10
    <3>2. 1 + 1 = 2
        OBVIOUS
    <3>3. (a \o b)[2] = b[1]
        BY <3>1, <3>2, Zenon
    <3> QED
        BY <1>9, <1>10, <3>3
  <2>3. ASSUME NEW j \in 1..LP PROVE ShellPrompt[2 + j] = b[1 + j]
    <3>1. (a \o b)[1 + (1 + j)] = b[1 + j] /\ ShellPrompt[2 + j] = (a \o b)[2 + j]
        BY <1>6, <1>9, <1>10
    <3> QED
        BY <1>10, <3>1
  <2> QED
      BY <2>1, <2>2, <2>3
<1>12. ShellPrompt[LP + 3] = c[1] /\ ShellPrompt[LP + 4] = d[1]
    BY <1>7, <1>8, <1>10
<1>13. Len(ShellPrompt) = PromptSize
    BY <1>8 DEF PromptSize
<1> QED
    BY <1>1, <1>2, <1>3, <1>4, <1>8, <1>11, <1>12, <1>13

(* Whatever comes before the prompt.                                        *)
LEMMA PromptLast ==
  ASSUME NEW p \in Seq(Items)
  PROVE  /\ EndsInPrompt(p \o ShellPrompt) /\ Len(p \o ShellPrompt) >= PromptSize
         /\ p \o ShellPrompt # <<>>
<1>1. LP \in Nat /\ ShellPrompt \in Seq(Items) /\ Len(ShellPrompt) = LP + 4 /\ PromptSize = LP + 4
    BY PromptElements DEF PromptSize
<1> DEFINE o == p \o ShellPrompt
<1>2. Len(o) = Len(p) + PromptSize /\ Len(p) \in Nat
    BY <1>1
<1>3. ASSUME NEW k \in 1..Len(o), k > Len(o) - PromptSize
      PROVE  o[k] = ShellPrompt[PromptSize - Len(o) + k]
  <2>1. k > Len(p) /\ PromptSize - Len(o) + k = k - Len(p)
      BY <1>1, <1>2, <1>3
  <2> QED
      BY <1>1, <1>2, <2>1
<1>4. Len(o) >= PromptSize /\ o # <<>>
    BY <1>1, <1>2
<1> QED
    BY <1>3, <1>4 DEF EndsInPrompt

LEMMA PromptGoesOn ==
  ASSUME NEW o \in Seq(Items), o # <<>>, EndsInPrompt(o)
  PROVE  EndsInPrompt(Tail(o)) /\ Len(Tail(o)) = Len(o) - 1
<1>1. Len(Tail(o)) = Len(o) - 1 /\ Len(o) \in Nat /\ PromptSize \in Nat
    BY PromptElements DEF PromptSize
<1>2. ASSUME NEW k \in 1..Len(Tail(o)), k > Len(Tail(o)) - PromptSize
      PROVE  Tail(o)[k] = ShellPrompt[PromptSize - Len(Tail(o)) + k]
  <2>1. k + 1 \in 1..Len(o) /\ k + 1 > Len(o) - PromptSize
      BY <1>1, <1>2
  <2>2. o[k + 1] = ShellPrompt[PromptSize - Len(o) + (k + 1)]
      BY <2>1 DEF EndsInPrompt
  <2>3. Tail(o)[k] = o[k + 1]
      BY <1>1
  <2>4. PromptSize - Len(o) + (k + 1) = PromptSize - Len(Tail(o)) + k
      BY <1>1
  <2> QED
      BY <2>2, <2>3, <2>4
<1> QED
    BY <1>1, <1>2 DEF EndsInPrompt

(* A character behind a row that reads as it should, and which is the next. *)
LEMMA RowGrows ==
  ASSUME IInv, NEW c \in Glyphs, terminal_char(c), X + 1 < Width, memory' = memory,
         RowReads(X), c = ShownAt(X + 1), colors.fg = ShadeAt(X + 1)
  PROVE  X' = X + 1 /\ colors' = colors /\ RowReads(X)'
<1>1. /\ X' = X + 1 /\ Y' = Y /\ colors' = colors
      /\ \A k \in 0..X - 1 : Same(k)
      /\ screen'[Index(X, Y)] = [c |-> c, fg |-> colors.fg, bg |-> Black, bar |-> NoBar]
    BY GlyphShows
<1>2. X \in Nat
    BY SizeAssumption DEF IInv, Columns
<1>3. ASSUME NEW j \in 1..X + 1
      PROVE  screen'[Index(j - 1, Y)] =
               [c |-> ShownAt(j), fg |-> ShadeAt(j), bg |-> Black, bar |-> NoBar]
  <2>1. CASE j = X + 1
    <3>1. j - 1 = X
        BY <1>2, <2>1
    <3> QED
        BY <1>1, <2>1, <3>1
  <2>2. CASE j # X + 1
    <3>1. j \in 1..X /\ j - 1 \in 0..X - 1
        BY <1>2, <2>2
    <3> QED
        BY <1>1, <3>1 DEF RowReads, Same
  <2> QED
      BY <2>1, <2>2
<1>4. \A j : ShownAt(j)' = ShownAt(j)
    BY DEF ShownAt
<1> QED
    BY <1>1, <1>3, <1>4 DEF RowReads, Index

(* What does not touch the row, and the memory only behind it.              *)
LEMMA RowStays ==
  ASSUME NEW n \in Int, RowReads(n), UNCHANGED <<Y, screen>>,
         \A j \in 1..n : ShownAt(j)' = ShownAt(j)
  PROVE  \A j \in 1..n : screen'[Index(j - 1, Y')] =
           [c |-> ShownAt(j)', fg |-> ShadeAt(j), bg |-> Black, bar |-> NoBar]
BY DEF RowReads

(* The prompt, one element after the other.                                 *)
LEMMA PromptStep ==
  ASSUME IInv, ConsoleInv, PrintNext, NEW n \in 0..LP + 3,
         Head(out) = ShellPrompt[n + 1], PromptShown(n), Cursor = 0
  PROVE  /\ n <= LP + 2 => PromptShown(n + 1)'
         /\ n = LP + 3 => colors'.fg = White /\ X' = LP + 1 /\ RowReads(X)'
<1>1. LP \in Nat /\ LP + 1 < Width /\ Width \in Nat
    BY PromptElements, LineAssumption, SizeAssumption DEF LP
<1>2. memory' = memory
    BY DEF PrintNext, editor
<1>3. ASSUME NEW c, Head(out) = [set |-> FALSE, value |-> c] PROVE terminal_char(c)
    BY <1>3 DEF PrintNext
<1>4. ASSUME NEW c, Head(out) = [set |-> TRUE, value |-> c]
      PROVE  colors'.fg = c /\ UNCHANGED <<X, Y, screen>>
    BY <1>4 DEF PrintNext, terminal_set_color
<1>5. ASSUME NEW c \in Glyphs, Head(out) = [set |-> FALSE, value |-> c],
             X <= LP, X \in Nat, RowReads(X), c = ShownAt(X + 1), colors.fg = ShadeAt(X + 1)
      PROVE  X' = X + 1 /\ colors' = colors /\ RowReads(X)'
  <2>1. X + 1 < Width
      BY <1>1, <1>5
  <2>2. terminal_char(c)
      BY <1>3, <1>5
  <2> QED
      BY <1>2, <1>5, <2>1, <2>2, RowGrows
<1>6. CASE n = 0
  <2>1. Head(out) = [set |-> TRUE, value |-> Green]
      BY <1>6, PromptElements
  <2>2. colors'.fg = Green
      BY <1>4, <2>1
  <2>3. n + 1 \notin 2..LP + 2 /\ n + 1 # LP + 3 /\ n # LP + 3
      BY <1>1, <1>6
  <2> QED
      BY <2>2, <2>3 DEF PromptShown
<1>7. CASE n = 1
  <2>1. Head(out) = [set |-> FALSE, value |-> 10]
      BY <1>7, PromptElements
  <2>2. X' = 0 /\ colors' = colors
      BY <1>3, <2>1, NewLineShows
  <2>3. colors.fg = Green
    <3>1. n \in 1..LP + 2
        BY <1>1, <1>7
    <3> QED
        BY <3>1 DEF PromptShown
  <2>4. n + 1 # LP + 3 /\ n # LP + 3 /\ (n + 1) - 2 = 0
      BY <1>1, <1>7
  <2>5. RowReads(X)'
      BY <2>2 DEF RowReads
  <2> QED
      BY <2>2, <2>3, <2>4, <2>5 DEF PromptShown
<1>8. CASE n \in 2..LP + 1
  <2>1. /\ n - 1 \in 1..LP /\ n + 1 = 2 + (n - 1) /\ n \in 2..LP + 2 /\ n \in 1..LP + 2
        /\ n - 2 \in Nat /\ (n - 2) + 1 = n - 1 /\ n - 2 <= LP /\ n # LP + 3 /\ n + 1 # LP + 3
        /\ (n + 1) - 2 = n - 1
      BY <1>1, <1>8
  <2>2. Head(out) = [set |-> FALSE, value |-> Prompt[n - 1]] /\ Prompt[n - 1] \in Glyphs
    <3>1. Prompt[n - 1] \in Glyphs
        BY <2>1, PrintedAssumption, SMTT(60) DEF LP
    <3>2. ShellPrompt[2 + (n - 1)] = [set |-> FALSE, value |-> Prompt[n - 1]]
        BY <2>1, PromptElements
    <3> QED
        BY <2>1, <3>1, <3>2
  <2>3. X = n - 2 /\ RowReads(X) /\ colors.fg = Green
      BY <2>1 DEF PromptShown
  <2>4. ShownAt(X + 1) = Prompt[n - 1] /\ ShadeAt(X + 1) = Green
      BY <1>1, <2>1, <2>3 DEF ShownAt, ShadeAt
  <2>5. X' = X + 1 /\ colors' = colors /\ RowReads(X)'
      BY <1>5, <2>1, <2>2, <2>3, <2>4
  <2>6. X' = (n + 1) - 2 /\ colors'.fg = Green
      BY <2>1, <2>3, <2>5
  <2> QED
      BY <2>1, <2>5, <2>6 DEF PromptShown
<1>9. CASE n = LP + 2
  <2>1. Head(out) = [set |-> TRUE, value |-> White]
    <3>1. n + 1 = LP + 3
        BY <1>1, <1>9
    <3> QED
        BY <3>1, PromptElements
  <2>2. colors'.fg = White /\ UNCHANGED <<X, Y, screen>>
      BY <1>4, <2>1
  <2>3. /\ n \in 2..LP + 2 /\ n - 2 = LP /\ n + 1 = LP + 3 /\ n # LP + 3
        /\ n + 1 \notin 1..LP + 2 /\ n + 1 \notin 2..LP + 2
      BY <1>1, <1>9
  <2>4. X = LP /\ RowReads(X)
      BY <2>3 DEF PromptShown
  <2>5. RowReads(X)'
      BY <1>2, <2>2, <2>4 DEF RowReads, ShownAt, Index
  <2> QED
      BY <2>2, <2>3, <2>4, <2>5 DEF PromptShown
<1>10. CASE n = LP + 3
  <2>1. Head(out) = [set |-> FALSE, value |-> Space] /\ Space \in Glyphs
    <3>1. n + 1 = LP + 4
        BY <1>1, <1>10
    <3> QED
        BY <3>1, PromptElements, GlyphsAssumption
  <2>2. X = LP /\ RowReads(X) /\ colors.fg = White
      BY <1>10 DEF PromptShown
  <2>3. ShownAt(X + 1) = Space /\ ShadeAt(X + 1) = White
      BY <1>1, <2>2 DEF ShownAt, ShadeAt
  <2>4. X' = X + 1 /\ colors' = colors /\ RowReads(X)'
      BY <1>1, <1>5, <2>1, <2>2, <2>3
  <2>5. ~(n <= LP + 2)
      BY <1>1, <1>10
  <2> QED
      BY <1>10, <2>2, <2>4, <2>5
<1> QED
    BY <1>1, <1>6, <1>7, <1>8, <1>9, <1>10

LEMMA OfNone ==
  ASSUME NEW S, NEW q \in Seq(S), Len(q) = 0
  PROVE  q = <<>>
OBVIOUS

LEMMA OfOne ==
  ASSUME NEW S, NEW q \in Seq(S), Len(q) = 1
  PROVE  q # <<>> /\ Tail(q) = <<>> /\ Head(q) = q[1]
<1>1. q # <<>> /\ Head(q) = q[1]
    OBVIOUS
<1>2. Tail(q) \in Seq(S) /\ Len(Tail(q)) = 0
    BY <1>1
<1>3. Tail(q) = <<>>
    BY <1>2, OfNone
<1> QED
    BY <1>1, <1>3

LEMMA CharsOfOne ==
  ASSUME NEW c
  PROVE  /\ Chars(<<c>>)[1] = [set |-> FALSE, value |-> c] /\ Chars(<<c>>) # <<>>
         /\ Tail(Chars(<<c>>)) = <<>> /\ Head(Chars(<<c>>)) = Chars(<<c>>)[1]
<1> DEFINE s == <<c>>
           S == {[set |-> FALSE, value |-> c]}
<1>1. DOMAIN s = 1..1 /\ s[1] = c
    OBVIOUS
<1> HIDE DEF s
<1>2. Chars(s) = [k \in 1..1 |-> [set |-> FALSE, value |-> s[k]]]
    BY <1>1, Zenon DEF Chars
<1>3. Chars(s) \in Seq(S) /\ Len(Chars(s)) = 1 /\ Chars(s)[1] = [set |-> FALSE, value |-> c]
  <2>1. \A k \in 1..1 : [set |-> FALSE, value |-> s[k]] \in S
    <3>1. \A k \in 1..1 : k = 1
        OBVIOUS
    <3>2. [set |-> FALSE, value |-> s[1]] \in S
        BY <1>1
    <3> QED
        BY <3>1, <3>2
  <2>2. Chars(s) \in [1..1 -> S]
      BY <1>2, <2>1
  <2> QED
      BY <1>1, <1>2, <2>2
<1> HIDE DEF S
<1>4. Chars(s) # <<>> /\ Tail(Chars(s)) = <<>> /\ Head(Chars(s)) = Chars(s)[1]
  <2> DEFINE q == Chars(s)
  <2>1. q \in Seq(S) /\ Len(q) = 1
      BY <1>3
  <2> HIDE DEF q
  <2> QED
      BY <2>1, OfOne DEF q
<1> QED
    BY <1>3, <1>4 DEF s

LEMMA PrintNextReads ==
  ASSUME IInv, ConsoleInv, LineInv, PrintNext
  PROVE  LineInv'
<1> SUFFICES ASSUME at = "shell", ~wide
             PROVE  (AtRest \/ AfterKey \/ AfterErase \/ AfterEnter)'
    BY DEF LineInv, PrintNext, editor
<1>1. AfterKey \/ AfterErase \/ AfterEnter
    BY DEF LineInv, AtRest, PrintNext
<1>2. memory' = memory /\ Cursor' = Cursor /\ out' = Tail(out)
    BY DEF PrintNext, editor, Rest
<1>3. /\ LP \in Nat /\ LP + 1 < Width /\ Width \in Nat /\ X \in Nat /\ X < Width
      /\ Cursor \in 0..MaxLine /\ Cursor \in Nat
  <2>1. X \in Nat /\ X < Width /\ Width \in Nat
      BY SizeAssumption DEF IInv, Columns
  <2>2. Cursor \in 0..MaxLine /\ Cursor \in Nat
      BY LineAssumption DEF ConsoleInv, Editing!Inv, Editing!TypeOK
  <2> QED
      BY <2>1, <2>2, PromptElements, LineAssumption DEF LP
<1>4. ASSUME NEW c, out = Chars(<<c>>) PROVE terminal_char(c) /\ out' = <<>>
  <2>1. Head(out) = [set |-> FALSE, value |-> c] /\ out' = <<>>
      BY <1>2, <1>4, CharsOfOne
  <2> QED
      BY <2>1 DEF PrintNext
<1>5. CASE AfterKey
  <2>1. terminal_char(memory[Cursor - 1]) /\ out' = <<>>
      BY <1>4, <1>5 DEF AfterKey
  <2>2. /\ X + 1 = LP + 1 + Cursor /\ X + 1 # LP + 1 /\ ~(X + 1 <= LP)
        /\ (X + 1) - LP - 2 = Cursor - 1
      BY <1>3, <1>5 DEF AfterKey
  <2>3. ShownAt(X + 1) = memory[Cursor - 1] /\ ShadeAt(X + 1) = White
      BY <2>2 DEF ShownAt, ShadeAt
  <2>4. X' = X + 1 /\ colors' = colors /\ RowReads(X)'
      BY <1>2, <1>5, <2>1, <2>3, RowGrows DEF AfterKey
  <2> QED
      BY <1>2, <1>5, <2>1, <2>2, <2>4 DEF AfterKey, AtRest
<1>6. CASE AfterErase
  <2>1. terminal_char(8) /\ out' = <<>>
      BY <1>4, <1>6 DEF AfterErase
  <2>2. X > 0 /\ X = LP + 2 + Cursor /\ RowReads(X - 1) /\ colors.fg = White
      BY <1>3, <1>6 DEF AfterErase
  <2>3. /\ X' = X - 1 /\ Y' = Y /\ colors' = colors
        /\ \A k \in 0..X - 2 : Same(k)
      BY <2>1, <2>2, BackspaceShows
  <2>4. ASSUME NEW j \in 1..X - 1
        PROVE  screen'[Index(j - 1, Y)] =
                 [c |-> ShownAt(j), fg |-> ShadeAt(j), bg |-> Black, bar |-> NoBar]
    <3>1. j - 1 \in 0..X - 2
        BY <1>3
    <3> QED
        BY <2>2, <2>3, <3>1 DEF RowReads, Same
  <2>5. \A j : ShownAt(j)' = ShownAt(j)
      BY <1>2 DEF ShownAt
  <2>6. RowReads(X)'
      BY <2>3, <2>4, <2>5 DEF RowReads, Index
  <2>7. X' = LP + 1 + Cursor
      BY <1>3, <2>2, <2>3
  <2> QED
      BY <1>2, <2>1, <2>2, <2>3, <2>6, <2>7 DEF AtRest
<1>7. CASE AfterEnter
  <2>1. out \in Seq(Items) /\ out # <<>> /\ EndsInPrompt(out) /\ Cursor = 0
      BY <1>7 DEF ConsoleInv, AfterEnter
  <2>2. EndsInPrompt(out)' /\ Len(out') = Len(out) - 1 /\ Len(out) \in Nat /\ Len(out) >= 1
    <3>1. EndsInPrompt(Tail(out)) /\ Len(Tail(out)) = Len(out) - 1
        BY <2>1, PromptGoesOn
    <3>2. Len(out) \in Nat /\ Len(out) >= 1
        BY <2>1
    <3> QED
        BY <1>2, <3>1, <3>2 DEF EndsInPrompt
  <2>3. PICK n \in Int : n = PromptSize - Len(out)
      BY <1>3, <2>2, SMTT(60) DEF PromptSize
  <2>4. /\ n <= LP + 3 /\ PromptSize - Len(out') = n + 1 /\ Len(out') = LP + 4 - (n + 1)
        /\ Len(out) - PromptSize = -n /\ PromptSize = LP + 4
      BY <1>3, <2>2, <2>3 DEF PromptSize
  <2>5. PromptShown(n)
      BY <1>7, <2>3 DEF AfterEnter
  <2>6. ASSUME n <= LP + 2 PROVE out' # <<>>
    <3>1. Len(out') > 0
        BY <1>3, <2>4, <2>6
    <3> QED
        BY <3>1
  <2>7. ASSUME PromptShown(n + 1)', n <= LP + 2 PROVE AfterEnter'
    <3>1. PromptShown(PromptSize - Len(out))'
        BY <2>4, <2>7 DEF PromptShown, PromptSize
    <3> QED
        BY <1>2, <2>1, <2>2, <2>6, <2>7, <3>1 DEF AfterEnter
  <2>8. CASE n < 0
    <3>1. /\ n + 1 \notin 1..LP + 2 /\ n + 1 \notin 2..LP + 2 /\ n + 1 # LP + 3
          /\ n <= LP + 2
        BY <1>3, <2>8
    <3> QED
        BY <2>7, <3>1 DEF PromptShown
  <2>9. CASE n >= 0
    <3>1. n \in 0..LP + 3
        BY <1>3, <2>4, <2>9
    <3>2. Head(out) = ShellPrompt[n + 1]
      <4>1. 1 \in 1..Len(out) /\ 1 > Len(out) - PromptSize /\ PromptSize - Len(out) + 1 = n + 1
          BY <1>3, <2>2, <2>3, <2>4, <2>9
      <4>2. out[1] = ShellPrompt[PromptSize - Len(out) + 1]
          BY <2>1, <4>1 DEF EndsInPrompt
      <4>3. Head(out) = out[1]
          BY <2>1
      <4> QED
          BY <4>1, <4>2, <4>3
    <3>3. /\ n <= LP + 2 => PromptShown(n + 1)'
          /\ n = LP + 3 => colors'.fg = White /\ X' = LP + 1 /\ RowReads(X)'
        BY <2>1, <2>5, <3>1, <3>2, PromptStep
    <3>4. CASE n <= LP + 2
        BY <2>7, <3>3, <3>4
    <3>5. CASE n = LP + 3
      <4>1. Len(out') = 0
          BY <1>3, <2>4, <3>5
      <4>2. out' = <<>>
          BY <1>2, <2>1, <4>1
      <4>3. X' = LP + 1 + Cursor'
          BY <1>2, <1>3, <2>1, <3>3, <3>5
      <4> QED
          BY <3>3, <3>5, <4>2, <4>3 DEF AtRest
    <3> QED
        BY <1>3, <3>1, <3>4, <3>5
  <2> QED
      BY <2>3, <2>8, <2>9
<1> QED
    BY <1>1, <1>5, <1>6, <1>7

(* Of a prompt yet to be printed nothing is asked.                          *)
LEMMA PromptBegins ==
  ASSUME Cursor' = 0, out' # <<>>, EndsInPrompt(out'), Len(out') >= PromptSize, out' \in Seq(Items)
  PROVE  AfterEnter'
<1>1. LP \in Nat /\ Len(out') \in Nat /\ PromptSize = LP + 4
    BY PromptElements DEF PromptSize
<1>2. PICK n \in Int : n = PromptSize - Len(out') /\ n <= 0
    BY <1>1
<1>3. n \notin 1..LP + 2 /\ n \notin 2..LP + 2 /\ n # LP + 3
    BY <1>1, <1>2
<1>4. PromptShown(PromptSize - Len(out))'
    BY <1>2, <1>3 DEF PromptShown, PromptSize
<1>5. EndsInPrompt(out)'
    BY DEF EndsInPrompt
<1> QED
    BY <1>4, <1>5 DEF AfterEnter

LEMMA KeyReads ==
  ASSUME IInv, ConsoleInv, LineInv, NEW c \in Shell!Keys, Key(c)
  PROVE  LineInv'
<1>1. at = "shell" /\ at' = "shell" /\ out = <<>> /\ UNCHANGED <<X, Y, colors, screen>>
    BY DEF Key, display
<1>2. /\ Cursor \in 0..MaxLine /\ Cursor \in Nat /\ LP \in Nat /\ X \in Nat /\ Len(text) = Cursor
      /\ memory \in [Shell!Bytes -> Letters \cup {Space, Shell!Nul}] /\ MaxLine \in Nat
      /\ Width \in Nat /\ LineStart = LP + 1
  <2>1. /\ Cursor \in 0..MaxLine /\ text = [k \in 1..Cursor |-> memory[k - 1]]
        /\ memory \in [Shell!Bytes -> Letters \cup {Space, Shell!Nul}]
      BY DEF ConsoleInv, Editing!Inv, Editing!TypeOK, Shell!Bytes, Editing!Bytes,
         Shell!Nul, Editing!Nul, Editing!Space, Space
  <2>2. MaxLine \in Nat /\ Cursor \in Nat /\ Len(text) = Cursor
      BY <2>1, LineAssumption
  <2>3. X \in Nat /\ Width \in Nat
      BY SizeAssumption DEF IInv, Columns
  <2> QED
      BY <2>1, <2>2, <2>3, PromptElements DEF LineStart, LP
<1>3. ~wide => AtRest
  <2>1. Chars(<<memory[Cursor - 1]>>) # <<>> /\ Chars(<<8>>) # <<>>
      BY CharsOfOne
  <2>2. ~AfterKey /\ ~AfterErase /\ ~AfterEnter
      BY <1>1, <2>1 DEF AfterKey, AfterErase, AfterEnter
  <2> QED
      BY <1>1, <2>2 DEF LineInv
<1>4. CASE Type(c)
  <2>1. /\ c \in 32..126 /\ Cursor < MaxLine /\ memory' = [memory EXCEPT ![Cursor] = c]
        /\ Cursor' = Cursor + 1 /\ text' = Append(text, c) /\ out' = Chars(<<c>>)
        /\ wide' = (wide \/ LineStart + Len(text') >= Width)
      BY <1>4 DEF Type, Shell!PrintKey, Shell!isprint
  <2> SUFFICES ASSUME ~wide' PROVE AfterKey'
      BY <1>1 DEF LineInv
  <2>2. ~wide /\ ~(LineStart + Len(text') >= Width)
      BY <2>1
  <2>3. AtRest
      BY <1>3, <2>2
  <2>4. c \in Glyphs
      BY <2>1, PrintedAssumption, GlyphsAssumption, LineAssumption
      DEF Shell!Keys, Shell!Space, Shell!Bell, Space
  <2>5. Cursor' > 0 /\ Cursor' - 1 = Cursor /\ Cursor \in Shell!Bytes
      BY <1>2, <2>1 DEF Shell!Bytes
  <2>6. memory'[Cursor' - 1] = c
      BY <1>2, <2>1, <2>5
  <2>7. Len(text') = Cursor + 1
    <3>1. text \in Seq(Letters \cup {Space, Shell!Nul})
      <4>1. \A k \in 1..Cursor : memory[k - 1] \in Letters \cup {Space, Shell!Nul}
          BY <1>2 DEF Shell!Bytes
      <4>2. text = [k \in 1..Cursor |-> memory[k - 1]]
          BY DEF ConsoleInv, Editing!Inv, Editing!TypeOK
      <4> QED
          BY <1>2, <4>1, <4>2
    <3> QED
        BY <1>2, <2>1, <3>1
  <2>8. X' = LP + Cursor' /\ X' + 1 < Width
      BY <1>1, <1>2, <2>1, <2>2, <2>3, <2>7 DEF AtRest
  <2>9. \A j \in 1..X : ShownAt(j)' = ShownAt(j)
    <3> SUFFICES ASSUME NEW j \in 1..X, ~(j <= LP), j # LP + 1
                 PROVE  memory'[j - LP - 2] = memory[j - LP - 2]
        BY DEF ShownAt
    <3>1. j - LP - 2 \in 0..Cursor - 1 /\ j - LP - 2 \in Shell!Bytes
        BY <1>2, <2>3 DEF AtRest, Shell!Bytes
    <3>2. j - LP - 2 # Cursor
        BY <1>2, <3>1
    <3> QED
        BY <1>2, <2>1, <3>1, <3>2
  <2>10. RowReads(X)'
    <3>1. RowReads(X)
        BY <2>3 DEF AtRest
    <3>2. \A j \in 1..X : screen'[Index(j - 1, Y')] =
            [c |-> ShownAt(j)', fg |-> ShadeAt(j), bg |-> Black, bar |-> NoBar]
        BY <1>1, <1>2, <2>9, <3>1, RowStays
    <3> QED
        BY <1>1, <3>2 DEF RowReads, Index
  <2> QED
      BY <1>1, <2>1, <2>3, <2>4, <2>5, <2>6, <2>8, <2>10 DEF AfterKey, AtRest
<1>5. CASE Erase(c)
  <2>1. /\ Cursor > 0 /\ memory' = [memory EXCEPT ![Cursor - 1] = Shell!Nul]
        /\ Cursor' = Cursor - 1 /\ out' = Chars(<<8>>) /\ wide' = wide
      BY <1>5 DEF Erase, Shell!Erase
  <2> SUFFICES ASSUME ~wide PROVE AfterErase'
      BY <1>1, <2>1 DEF LineInv
  <2>2. AtRest
      BY <1>3
  <2>3. X' = LP + 2 + Cursor' /\ X' = X /\ X - 1 = LP + Cursor /\ X - 1 \in Int
      BY <1>1, <1>2, <2>1, <2>2 DEF AtRest
  <2>4. \A j \in 1..X - 1 : ShownAt(j)' = ShownAt(j)
    <3> SUFFICES ASSUME NEW j \in 1..X - 1, ~(j <= LP), j # LP + 1
                 PROVE  memory'[j - LP - 2] = memory[j - LP - 2]
        BY DEF ShownAt
    <3>1. j - LP - 2 \in 0..Cursor - 2 /\ j - LP - 2 \in Shell!Bytes
        BY <1>2, <2>3 DEF Shell!Bytes
    <3>2. j - LP - 2 # Cursor - 1
        BY <1>2, <3>1
    <3> QED
        BY <1>2, <2>1, <3>1, <3>2
  <2>5. RowReads(X - 1)'
    <3>1. RowReads(X - 1)
        BY <1>2, <2>2 DEF AtRest, RowReads
    <3>2. \A j \in 1..X - 1 : screen'[Index(j - 1, Y')] =
            [c |-> ShownAt(j)', fg |-> ShadeAt(j), bg |-> Black, bar |-> NoBar]
        BY <1>1, <2>3, <2>4, <3>1, RowStays
    <3> QED
        BY <1>1, <2>3, <3>2 DEF RowReads, Index
  <2> QED
      BY <1>1, <2>1, <2>2, <2>3, <2>5 DEF AfterErase, AtRest
<1>6. CASE Enter(c)
  <2>1. /\ Cursor' = 0 /\ out' = Chars(<<10>>) \o CommandOutput(printed') \o ShellPrompt
        /\ Shell!shell_enter(c)
      BY <1>6 DEF Enter, Shell!shell_enter
  <2>2. Chars(<<10>>) \o CommandOutput(printed') \in Seq(Items)
    <3>1. printed' \in Seq(Seq(Letters)) /\ Len(printed') <= MaxLine
      <4>1. Editing!shell_enter(c)
          BY <2>1, SameEnter, Zenon
      <4> QED
          BY <4>1, Editing!EnterPrints, LineAssumption DEF Editing!ShellSizes, ConsoleInv
    <3>2. CommandOutput(printed') \in Seq(Items)
        BY <3>1, CommandPrints, Zenon
    <3>3. Chars(<<10>>) \in Seq(Items)
        BY OneCharacter DEF Shown8
    <3> QED
        BY <3>2, <3>3
  <2>3. EndsInPrompt(out') /\ Len(out') >= PromptSize /\ out' # <<>>
      BY <2>1, <2>2, PromptLast, Zenon
  <2>4. out' \in Seq(Items)
      BY <2>1, <2>2, PromptElements
  <2>5. AfterEnter'
      BY <2>1, <2>3, <2>4, PromptBegins
  <2> QED
      BY <1>1, <2>5 DEF LineInv
<1>7. CASE Ignore(c)
  <2>1. UNCHANGED <<out, wide, memory, Cursor>>
      BY <1>7 DEF Ignore, Shell!Ignore, Shell!vars
  <2>2. ~wide => AtRest'
      BY <1>1, <1>3, <2>1 DEF AtRest, RowReads, ShownAt, Index
  <2> QED
      BY <1>1, <2>1, <2>2 DEF LineInv
<1> QED
    BY <1>4, <1>5, <1>6, <1>7 DEF Key

LEMMA OthersRead ==
  ASSUME LineInv, Send \/ KmainPrints \/ UNCHANGED console
  PROVE  LineInv'
<1>1. at' = at /\ wide' = wide /\ Cursor' = Cursor
    BY DEF Send, KmainPrints, console, editor
<1>2. CASE KmainPrints
    BY <1>1, <1>2 DEF KmainPrints, LineInv
<1>3. CASE Send \/ UNCHANGED console
  <2>1. UNCHANGED <<at, wide, out, Cursor, memory, X, Y, colors, screen>>
      BY <1>3 DEF Send, console, editor, display
  <2>2. /\ \A n : RowReads(n) => RowReads(n)'
      BY <2>1 DEF RowReads, ShownAt, Index
  <2>3. RowReads(X) => RowReads(X)'
      BY <2>1 DEF RowReads, ShownAt, Index
  <2>4. RowReads(X - 1) => RowReads(X - 1)'
      BY <2>1 DEF RowReads, ShownAt, Index
  <2>5. /\ AtRest => AtRest'
        /\ AfterKey => AfterKey'
        /\ AfterErase => AfterErase'
        /\ AfterEnter => AfterEnter'
      BY <2>1, <2>3, <2>4
      DEF AtRest, AfterKey, AfterErase, AfterEnter, PromptShown, EndsInPrompt, PromptSize
  <2>6. at' = at /\ wide' = wide /\ Cursor' = Cursor
      BY <2>1
  <2> QED
      BY <2>5, <2>6 DEF LineInv
<1> QED
    BY <1>2, <1>3

LEMMA StartReads ==
  ASSUME LineInv, StartShell, ConsoleInv
  PROVE  LineInv'
<1>1. Cursor' = 0 /\ at' = "shell" /\ out' = ShellStart
    BY DEF LineInv, StartShell, editor
<1>2. /\ Color(Red) \in Seq(Items) /\ Chars(Banner) \in Seq(Items)
      /\ ShellPrompt \in Seq(Items)
  <2>1. Banner \in Seq(Shown8)
      BY PrintedAssumption DEF Shown8
  <2> QED
      BY <2>1, ColorItem, GlyphItem, PromptElements DEF Red, Colors
<1>3. /\ Color(Red) \o Chars(Banner) \in Seq(Items)
      /\ ShellStart = (Color(Red) \o Chars(Banner)) \o ShellPrompt
    BY <1>2 DEF ShellStart
<1>4. EndsInPrompt(out') /\ Len(out') >= PromptSize /\ out' # <<>>
    BY <1>1, <1>3, PromptLast
<1>5. out' \in Seq(Items)
    BY <1>1, <1>2, <1>3
<1>6. AfterEnter'
    BY <1>1, <1>4, <1>5, PromptBegins
<1> QED
    BY <1>1, <1>6 DEF LineInv

LEMMA LineStep == IInv /\ ConsoleInv /\ LineInv /\ [ConsoleNext]_console => LineInv'
BY PrintNextReads, KeyReads, OthersRead, StartReads DEF ConsoleNext

(* At rest, what the cells hold can be read in one way.                     *)
LEMMA RestIsReadable ==
  ASSUME IInv, ConsoleInv, LineInv
  PROVE  LineReadable
<1> SUFFICES ASSUME at = "shell", out = <<>>, ~wide PROVE LineReadable
    BY DEF LineReadable
<1> DEFINE typed == [k \in 1..Cursor |-> memory[k - 1]]
           shown == Prompt \o <<Space>> \o typed
<1>1. AtRest
  <2>1. Chars(<<memory[Cursor - 1]>>) # <<>> /\ Chars(<<8>>) # <<>>
      BY CharsOfOne
  <2>2. ~AfterKey /\ ~AfterErase /\ ~AfterEnter
      BY <2>1 DEF AfterKey, AfterErase, AfterEnter
  <2> QED
      BY <2>2 DEF LineInv
<1>2. /\ Cursor \in Nat /\ LP \in Nat /\ Prompt \in Seq(Glyphs)
      /\ text = typed /\ X \in Columns
      /\ memory \in [Editing!Bytes -> Letters \cup {Space, Editing!Nul}]
  <2>1. Cursor \in 0..MaxLine /\ MaxLine \in Nat /\ text = typed
      BY LineAssumption DEF ConsoleInv, Editing!Inv, Editing!TypeOK
  <2> QED
      BY <2>1, PrintedAssumption, PromptElements
      DEF IInv, ConsoleInv, Editing!Inv, Editing!TypeOK, Editing!Space, Space
<1>3. ASSUME NEW k \in 1..Cursor PROVE memory[k - 1] \in Glyphs
  <2>1. k - 1 \in 0..Cursor - 1
      BY <1>2
  <2>2. memory[k - 1] \in Letters \cup {Space}
      BY <2>1
      DEF ConsoleInv, Editing!Inv, Editing!LineTyped, Editing!Printable, Editing!Space, Space
  <2> QED
      BY <2>2, PrintedAssumption, GlyphsAssumption
<1>4. typed \in Seq(Glyphs) /\ Len(typed) = Cursor
    BY <1>2, <1>3
<1> HIDE DEF typed
<1>5. /\ Prompt \o <<Space>> \in Seq(Glyphs) /\ Len(Prompt \o <<Space>>) = LP + 1
      /\ \A k \in 1..LP : (Prompt \o <<Space>>)[k] = Prompt[k]
      /\ (Prompt \o <<Space>>)[LP + 1] = Space
    BY <1>2, GlyphsAssumption DEF LP
<1> DEFINE g == Prompt \o <<Space>>
<1> HIDE DEF g
<1>6. /\ g \o typed \in Seq(Glyphs) /\ Len(g \o typed) = Len(g) + Len(typed)
      /\ \A k \in 1..Len(g) : (g \o typed)[k] = g[k]
      /\ \A k \in 1..Len(typed) : (g \o typed)[Len(g) + k] = typed[k]
  <2>1. g \in Seq(Glyphs)
      BY <1>5 DEF g
  <2>2. typed \in Seq(Glyphs)
      BY <1>4
  <2> QED
      BY <2>1, <2>2, Joined
<1>7. shown = g \o typed /\ Len(g) = LP + 1
    BY <1>5 DEF g
<1>8. shown \in Seq(Glyphs) /\ Len(shown) = LP + 1 + Cursor /\ DOMAIN shown = 1..LP + 1 + Cursor
    BY <1>2, <1>4, <1>6, <1>7
<1> HIDE DEF shown
<1>9. ASSUME NEW k \in 1..LP + 1 + Cursor
      PROVE  shown[k] = ShownAt(k) /\ shown[k] \in Glyphs
  <2>1. LP \in Nat /\ Cursor \in Nat /\ k \in Int
      BY <1>2
  <2>2. shown[k] \in Glyphs
      BY <1>8
  <2>3. CASE k <= LP
    <3>1. k \in 1..LP /\ k \in 1..Len(g)
        BY <1>2, <1>7, <2>3
    <3>2. g[k] = Prompt[k]
        BY <1>5, <3>1 DEF g
    <3> QED
        BY <1>6, <1>7, <2>2, <2>3, <3>1, <3>2 DEF ShownAt
  <2>4. CASE k = LP + 1
    <3>1. ~(k <= LP) /\ k \in 1..Len(g)
        BY <1>2, <1>7, <2>4
    <3>2. g[k] = Space
        BY <1>5, <2>4 DEF g
    <3> QED
        BY <1>6, <1>7, <2>2, <2>4, <3>1, <3>2 DEF ShownAt
  <2>5. CASE k > LP + 1
    <3> DEFINE i == k - LP - 1
    <3>1. i \in 1..Cursor /\ k = (LP + 1) + i
        BY <2>1, <2>5
    <3>2. ~(k <= LP) /\ k # LP + 1 /\ k - LP - 2 = i - 1
        BY <2>1, <2>5
    <3> HIDE DEF i
    <3>3. shown[k] = typed[i]
        BY <1>4, <1>6, <1>7, <3>1
    <3>4. typed[i] = memory[i - 1]
        BY <3>1 DEF typed
    <3> QED
        BY <2>2, <3>2, <3>3, <3>4 DEF ShownAt
  <2> QED
      BY <2>1, <2>3, <2>4, <2>5
<1>10. ASSUME NEW k \in 1..LP + 1 + Cursor
       PROVE  Reads(screen[Index(k - 1, Y)], shown[k], IF k <= Len(Prompt) THEN Green ELSE White)
  <2>1. screen[Index(k - 1, Y)] =
          [c |-> shown[k], fg |-> ShadeAt(k), bg |-> Black, bar |-> NoBar]
      BY <1>1, <1>9 DEF AtRest, RowReads
  <2>2. shown[k] \in Printable
      BY <1>9, GlyphsAssumption DEF Printable
  <2>3. LooksLike[shown[k], FALSE] = {shown[k]}
      BY <2>2, FontDistinguishes, Zenon
  <2> DEFINE cell == screen[Index(k - 1, Y)]
  <2>4. cell.c = shown[k] /\ (cell.bar # NoBar) = FALSE
      BY <2>1
  <2>5. cell.fg = (IF k <= Len(Prompt) THEN Green ELSE White) /\ cell.bg = Black
      BY <2>1 DEF ShadeAt, LP
  <2> HIDE DEF cell
  <2>6. LooksLike[cell.c, cell.bar # NoBar] = {shown[k]}
      BY <2>3, <2>4, Zenon
  <2> QED
      BY <2>5, <2>6, Zenon DEF Reads, Readings, cell
<1>11. X = Len(shown)
    BY <1>1, <1>8 DEF AtRest
<1>12. DOMAIN shown = 1..LP + 1 + Cursor
    BY <1>8
<1> QED
    BY <1>10, <1>11, <1>12 DEF LineReadable, shown, typed

(* As long as the line has not reached the edge, the row of the cursor      *)
(* reads as the prompt and what is in the shell's buffer, whatever was      *)
(* typed, erased, printed and scrolled before (shell main.c:62-69, 83-100;  *)
(* terminal.c:93-155).                                                      *)
THEOREM LineReadableHolds == ConsoleSpec => []LineReadable
<1>1. ConsoleInit => IInv /\ ConsoleInv /\ LineInv
  <2>1. ConsoleInit => LineInv
      BY DEF ConsoleInit, LineInv, Shell!Init
  <2> QED
      BY <2>1, InitInv, ConsoleStarts DEF ConsoleInit
<1>2. IInv /\ ConsoleInv /\ LineInv /\ [ConsoleNext]_console => (IInv /\ ConsoleInv /\ LineInv)'
    BY LineStep, ConsoleStep, NextKeepsInv DEF InParts
<1>3. IInv /\ ConsoleInv /\ LineInv => LineReadable
    BY RestIsReadable
<1> QED
    BY <1>1, <1>2, <1>3, PTL DEF ConsoleSpec

(* Both instances of the shell say the same of a command's arguments.       *)
LEMMA SameArguments == ConsoleInv => Shell!ArgsAreWords
<1>1. \A s : Shell!Words(s) = Editing!Words(s)
    BY Zenon DEF Shell!Words, Editing!Words, Shell!IsRun, Editing!IsRun, Shell!Space, Editing!Space,
       Shell!Ascending, Editing!Ascending, Shell!Cardinality, Editing!Cardinality
<1> QED
    BY <1>1, Zenon DEF ConsoleInv, Editing!Inv, Shell!ArgsAreWords, Editing!ArgsAreWords

(* What was proved of the parts holds where they work together.             *)
THEOREM PartsHoldTogether ==
  ConsoleSpec => []OneCursor /\ ShowsTextScreen /\ []SerialCarries /\ []Shell!ArgsAreWords
<1>1. ConsoleSpec => []Shell!ArgsAreWords
  <2>1. ConsoleInv /\ [ConsoleNext]_console => ConsoleInv'
      BY ConsoleStep
  <2> QED
      BY <2>1, ConsoleStarts, SameArguments, PTL DEF ConsoleSpec
<1> QED
    BY <1>1, ConsoleRunsItsParts, OneCursorHolds, ShowsTextScreenHolds, SerialCarriesHolds, PTL
=============================================================================
