----------------------------- MODULE TetrisView -----------------------------
(***************************************************************************)
(* What Tetris draws: update paints the next piece, the falling one, the    *)
(* field and a grid, as rectangles over whatever the window shows.  It runs *)
(* at the end of every key event and never erases; timer ticks do not draw. *)
(***************************************************************************)
EXTENDS Tetris

CONSTANTS BLOCK_SIZE, PreviewX  \* the column the next piece is shown at

(* The window has six columns more than the field, for the next piece.      *)
ASSUME ViewAssumption ==
  /\ BLOCK_SIZE \in Nat \ {0, 1} /\ PreviewX \in Nat
  /\ FIELD_WIDTH <= PreviewX /\ PreviewX + 4 <= FIELD_WIDTH + 6 /\ 5 <= FIELD_HEIGHT

WINDOW_WIDTH  == FIELD_WIDTH * BLOCK_SIZE + 6 * BLOCK_SIZE
WINDOW_HEIGHT == FIELD_HEIGHT * BLOCK_SIZE

(* A colour is named by the index of Pieces it is read at; the colours of   *)
(* the seven pieces differ from each other and from black.  The enum of a   *)
(* piece is an unsigned index, a value of the field a signed one: for a     *)
(* negative word these are different places.                                *)
ColorAt(index, far) == [index |-> index, far |-> far]
PieceColor(type) == ColorAt(type, type < 0)
BlockColor(v) == ColorAt(v, FALSE)
Black == ColorAt(-1, FALSE)

Rect(x, y, w, h, color) == [x |-> x, y |-> y, w |-> w, h |-> h, color |-> color]
Block(c, color) ==
  Rect(c[1] * BLOCK_SIZE, c[2] * BLOCK_SIZE, BLOCK_SIZE, BLOCK_SIZE, color)

_draw_piece(p) == {Block(c, PieceColor(p.Type)) : c \in CellsOf(p)}
_draw_field(f) == {Block(c, BlockColor(f[c] - 1)) : c \in {c \in Cells : f[c] # 0}}
_draw_grid ==
  {Rect(i * BLOCK_SIZE, 0, 1, WINDOW_HEIGHT, Black) : i \in 0..FIELD_WIDTH}
  \cup {Rect(0, i * BLOCK_SIZE, BLOCK_SIZE * FIELD_WIDTH, 1, Black) : i \in Rows}

NextPiece == [X |-> PreviewX, Y |-> 1, Rotation |-> 1, Type |-> np]

(* The rectangles of each step, which overlap in no more than one colour.   *)
update == <<_draw_piece(NextPiece), _draw_piece(cp), _draw_field(field), _draw_grid>>

-----------------------------------------------------------------------------
(* Properties *)

(* The colours of the last step to paint a pixel.                           *)
Paints(layer, x, y) ==
  {r \in layer : r.x <= x /\ x < r.x + r.w /\ r.y <= y /\ y < r.y + r.h}
Pixel(layers, x, y) ==
  LET painted == {k \in DOMAIN layers : Paints(layers[k], x, y) # {}}
  IN  {r.color : r \in Paints(layers[CHOOSE k \in painted : \A j \in painted : j <= k], x, y)}

(* What the player is to see: pieces by their cells.                        *)
Coming == CellsOf([NextPiece EXCEPT !.Type = next])
Scene == {<<c, PieceColor(cp.Type)>> : c \in CellsOf(cp)}
         \cup {<<c, BlockColor(field[c] - 1)>> : c \in {c \in Cells : field[c] # 0}}
         \cup {<<c, PieceColor(next)>> : c \in Coming}

(* Nothing is painted outside the window, which graphics_rect would not     *)
(* clip; and wherever a block of the field, of the falling piece or of the  *)
(* piece that really comes next lies, its colour is seen inside the grid:   *)
(* none covers another (main.c:149-164, 218-288, 335-341, 421).             *)
ShowsGame ==
  \E layers \in {update} :
    /\ layers[1] \cup layers[2] \cup layers[3] = {Block(s[1], s[2]) : s \in Scene}
    /\ \A k \in DOMAIN layers : \A r \in layers[k] :
         /\ 0 <= r.x /\ r.x + r.w <= WINDOW_WIDTH
         /\ 0 <= r.y /\ r.y + r.h <= WINDOW_HEIGHT
    /\ \A s \in Scene :
         Pixel(layers, s[1][1] * BLOCK_SIZE + 1, s[1][2] * BLOCK_SIZE + 1) = {s[2]}
=============================================================================
