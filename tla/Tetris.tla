------------------------------- MODULE Tetris -------------------------------
(***************************************************************************)
(* The Tetris module: the falling piece, the field, landing and the removal *)
(* of full rows.  The kernel calls it with key events and timer ticks, one  *)
(* at a time.  Which piece the bag deals is free here: module TetrisBag     *)
(* models the bag, and what its shuffle does to next and to memory beside   *)
(* it.  Module TetrisView has what it draws.  Of the score only what the    *)
(* last landing added is kept, since nothing reads the total.               *)
(***************************************************************************)
EXTENDS Integers, FiniteSets

CONSTANTS
  FIELD_WIDTH, FIELD_HEIGHT,
  StartX,   \* the column new pieces start in
  Types,    \* the words dealt as pieces: 0..6 for I, J, L, O, S, T, Z, or others
  Beyond    \* what those others find where Pieces would have their pictures

ASSUME FieldAssumption ==
  /\ FIELD_WIDTH \in Nat /\ FIELD_HEIGHT \in Nat /\ StartX \in Nat
  /\ StartX + 4 <= FIELD_WIDTH /\ 4 <= FIELD_HEIGHT

(* The shuffle puts words from outside the bag into it, and they are dealt  *)
(* like any other: a word as the signed int it is in the field.  What lies  *)
(* in memory where it points to, beside Pieces, is unknown, but is assumed  *)
(* to stay the same; where there is no memory the CPU faults, and the game  *)
(* ends.                                                                    *)
Offsets == (0..3) \X (0..3)
ASSUME TypesAssumption == Types \subseteq Int
ASSUME BeyondAssumption == Beyond \in [Types \ (0..6) -> [0..3 -> SUBSET Offsets]]

VARIABLES
  cp,            \* the falling piece: [X, Y, Rotation, Type]
  np,            \* the type shown as next
  next,          \* _new_piece's static: the type dealt next
  field,         \* 0, or 1 + the type that left a block there, by <<x, y>>
  gain,          \* what the last landing added to the score
  ticks_update   \* fall speed: 200, or 30 while Down is held

vars == <<cp, np, next, field, gain, ticks_update>>

-----------------------------------------------------------------------------
(* Pieces *)

(* Four rotations of a picture of four rows, the digits of the source.      *)
Blocks ==
  <<<<<<0, 15, 0, 0>>, <<2, 2, 2, 2>>, <<0, 0, 15, 0>>, <<4, 4, 4, 4>>>>,  \* I
    <<<<4, 4, 12, 0>>, <<8, 14, 0, 0>>, <<6, 4, 4, 0>>, <<0, 14, 2, 0>>>>,  \* J
    <<<<4, 4, 6, 0>>, <<0, 14, 8, 0>>, <<12, 4, 4, 0>>, <<2, 14, 0, 0>>>>,  \* L
    <<<<12, 12, 0, 0>>, <<12, 12, 0, 0>>, <<12, 12, 0, 0>>, <<12, 12, 0, 0>>>>,  \* O
    <<<<0, 6, 12, 0>>, <<8, 12, 4, 0>>, <<6, 12, 0, 0>>, <<4, 6, 2, 0>>>>,  \* S
    <<<<0, 14, 4, 0>>, <<4, 12, 4, 0>>, <<4, 14, 0, 0>>, <<4, 6, 4, 0>>>>,  \* T
    <<<<0, 12, 6, 0>>, <<4, 12, 8, 0>>, <<12, 6, 0, 0>>, <<2, 6, 4, 0>>>>>>  \* Z

(* The (column, row) offsets of the bits of a picture, 8 the left column.    *)
Bits(picture) ==
  {o \in Offsets : (picture[o[2] + 1] \div <<8, 4, 2, 1>>[o[1] + 1]) % 2 = 1}

Shape == [t \in Types \cup 0..6 |->
            [r \in 0..3 |-> IF t \in 0..6 THEN Bits(Blocks[t + 1][r + 1]) ELSE Beyond[t][r]]]

CellsOf(p) == {<<p.X + o[1], p.Y + o[2]>> : o \in Shape[p.Type][p.Rotation]}

Columns == 0..FIELD_WIDTH - 1
Rows    == 0..FIELD_HEIGHT - 1
Cells   == Columns \X Rows
EmptyField == [c \in Cells |-> 0]

(* Outside the field counts as occupied.                                    *)
_field_get(f, c) == IF c \in Cells THEN f[c] ELSE -1

(* The negation of _valid_position, which returns 1 for an invalid one.     *)
Fits(f, p) == \A c \in CellsOf(p) : _field_get(f, c) = 0

_to_field(f, p) == [c \in Cells |-> IF c \in CellsOf(p) THEN p.Type + 1 ELSE f[c]]

NewPiece(t) == [X |-> StartX, Y |-> 0, Rotation |-> 0, Type |-> t]

-----------------------------------------------------------------------------
(* Full rows *)

IsFull(f, y) == \A x \in Columns : f[<<x, y>>] # 0

(* Every row from 1 to y takes the row above it; row 0 stays.               *)
_field_shift_Short(f, y) ==
  [c \in Cells |-> IF c[2] \in 1..y - 1 THEN f[<<c[1], c[2] - 1>>] ELSE f[c]]
_field_shift(f, y) ==
  [c \in Cells |-> IF c[2] \in 1..y THEN f[<<c[1], c[2] - 1>>] ELSE f[c]]

(* The rows are looked at once each, from the top.                          *)
RowStep(s, y) ==
  IF IsFull(s.f, y) THEN [f |-> _field_shift(s.f, y), score |-> s.score + 100] ELSE s
Looked(f) ==
  LET after[n \in 0..FIELD_HEIGHT] ==
        IF n = 0 THEN [f |-> f, score |-> 0] ELSE RowStep(after[n - 1], n - 1)
  IN  after
_field_rows(f) == Looked(f)[FIELD_HEIGHT]

-----------------------------------------------------------------------------
(* Events *)

(* The static next starts as 0, or as what the shuffle swaps into it.       *)
Init ==
  /\ \E first \in Types : cp = NewPiece(first)
  /\ next \in Types /\ np = next
  /\ field = EmptyField /\ gain = 0 /\ ticks_update = 200

Move_Unchecked(p) == cp' = p
Move(p) == cp' = IF Fits(field, p) THEN p ELSE cp

Others == UNCHANGED <<np, next, field, gain, ticks_update>>

Left   == Move([cp EXCEPT !.X = @ - 1]) /\ Others
Right  == Move([cp EXCEPT !.X = @ + 1]) /\ Others
Rotate == Move([cp EXCEPT !.Rotation = (@ + 3) % 4]) /\ Others

Down(released) ==
  /\ ticks_update' = IF released THEN 200 ELSE 30
  /\ UNCHANGED <<cp, np, next, field, gain>>

(* _new_piece returns the next type, which becomes the preview.             *)
Preview_Current(dealt) == next
Preview(dealt) == dealt

(* The piece has landed: it becomes part of the field, full rows go, and    *)
(* the next piece starts, on an empty field if it does not fit.             *)
Land(dealt) ==
  /\ cp' = NewPiece(next)
  /\ next' = dealt /\ np' = Preview(dealt)
  /\ ticks_update' = 200
  /\ \E rows \in {_field_rows(_to_field(field, cp))} :
       /\ gain' = rows.score
       /\ field' = IF Fits(rows.f, cp') THEN rows.f ELSE EmptyField

Below == [cp EXCEPT !.Y = @ + 1]

Fall == Fits(field, Below) /\ cp' = Below /\ Others

Landing == ~Fits(field, Below) /\ \E dealt \in Types : Land(dealt)

TimerEvent_NeverLands == Fall
TimerEvent == Fall \/ Landing

Next == TimerEvent \/ Left \/ Right \/ Rotate \/ \E released \in BOOLEAN : Down(released)

Spec == Init /\ [][Next]_vars

(* The timer keeps ticking.                                                 *)
FairSpec == Spec /\ WF_vars(TimerEvent)

-----------------------------------------------------------------------------
(* Properties *)

(* The falling piece lies on empty cells of the field after every event, so *)
(* that turning it into blocks writes inside the field and over nothing,    *)
(* whatever word was dealt as a piece (main.c:249-263, 314-333, 343-427).   *)
PieceFits == Fits(field, cp)

(* The rows that are full are removed and the others keep their order; a    *)
(* reference for _field_rows when the top row is empty.                     *)
Cleared(f) ==
  LET kept == {y \in Rows : ~IsFull(f, y)}
      Sources(y) == {k \in kept : Cardinality({j \in kept : j > k}) = FIELD_HEIGHT - 1 - y}
      source == [y \in Rows |-> Sources(y)]
  IN  [c \in Cells |-> IF source[c[2]] = {} THEN 0
                       ELSE f[<<c[1], CHOOSE k \in source[c[2]] : TRUE>>]]

(* A landing that leaves the top row empty removes exactly the full rows,   *)
(* scores 100 for each, and drops the rows above (main.c:181-216).          *)
LandingClearsRows ==
  [][Landing => \A f \in {_to_field(field, cp)} :
       (\A x \in Columns : f[<<x, 0>>] = 0) =>
         /\ field' = LET g == Cleared(f) IN IF Fits(g, cp') THEN g ELSE EmptyField
         /\ gain' = 100 * Cardinality({y \in Rows : IsFull(f, y)})]_vars

(* While the timer ticks, whatever keys come, pieces keep landing, if all   *)
(* have blocks: a word with an empty picture would fall for ever.           *)
PiecesLand == (\A t \in Types, r \in 0..3 : Shape[t][r] # {}) => []<><<Landing>>_vars
=============================================================================
