-------------------------------- MODULE Font --------------------------------
(***************************************************************************)
(* The bitmaps of Terminus16.c: sixteen rows of a byte for every printable  *)
(* character, the leftmost pixel in the highest bit.  The six that follow,  *)
(* without a character code, are left out.  The cursor covers the two       *)
(* leftmost pixels of every row (terminal.c:90), so that whether characters *)
(* can be told apart where it has been is a question of the bitmaps.        *)
(***************************************************************************)
EXTENDS Integers, Sequences

(* The space to /                                                           *)
Signs == <<
  <<0,0,0,0,0,0,0,0,0,0,0,0,0,0,0,0>>,
  <<0,0,16,16,16,16,16,16,16,0,16,16,0,0,0,0>>,
  <<0,36,36,36,0,0,0,0,0,0,0,0,0,0,0,0>>,
  <<0,0,36,36,36,126,36,36,126,36,36,36,0,0,0,0>>,
  <<0,16,16,124,146,144,144,124,18,18,146,124,16,16,0,0>>,
  <<0,0,100,148,104,8,16,16,32,44,82,76,0,0,0,0>>,
  <<0,0,24,36,36,24,48,74,68,68,68,58,0,0,0,0>>,
  <<0,16,16,16,0,0,0,0,0,0,0,0,0,0,0,0>>,
  <<0,0,8,16,32,32,32,32,32,32,16,8,0,0,0,0>>,
  <<0,0,32,16,8,8,8,8,8,8,16,32,0,0,0,0>>,
  <<0,0,0,0,0,36,24,126,24,36,0,0,0,0,0,0>>,
  <<0,0,0,0,0,16,16,124,16,16,0,0,0,0,0,0>>,
  <<0,0,0,0,0,0,0,0,0,0,16,16,32,0,0,0>>,
  <<0,0,0,0,0,0,0,126,0,0,0,0,0,0,0,0>>,
  <<0,0,0,0,0,0,0,0,0,0,16,16,0,0,0,0>>,
  <<0,0,4,4,8,8,16,16,32,32,64,64,0,0,0,0>> >>

(* 0 to ?                                                                   *)
Digits == <<
  <<0,0,60,66,66,70,74,82,98,66,66,60,0,0,0,0>>,
  <<0,0,8,24,40,8,8,8,8,8,8,62,0,0,0,0>>,
  <<0,0,60,66,66,2,4,8,16,32,64,126,0,0,0,0>>,
  <<0,0,60,66,66,2,28,2,2,66,66,60,0,0,0,0>>,
  <<0,0,2,6,10,18,34,66,126,2,2,2,0,0,0,0>>,
  <<0,0,126,64,64,64,124,2,2,2,66,60,0,0,0,0>>,
  <<0,0,28,32,64,64,124,66,66,66,66,60,0,0,0,0>>,
  <<0,0,126,2,2,4,4,8,8,16,16,16,0,0,0,0>>,
  <<0,0,60,66,66,66,60,66,66,66,66,60,0,0,0,0>>,
  <<0,0,60,66,66,66,66,62,2,2,4,56,0,0,0,0>>,
  <<0,0,0,0,0,16,16,0,0,0,16,16,0,0,0,0>>,
  <<0,0,0,0,0,16,16,0,0,0,16,16,32,0,0,0>>,
  <<0,0,0,4,8,16,32,64,32,16,8,4,0,0,0,0>>,
  <<0,0,0,0,0,126,0,0,126,0,0,0,0,0,0,0>>,
  <<0,0,0,64,32,16,8,4,8,16,32,64,0,0,0,0>>,
  <<0,0,60,66,66,66,4,8,8,0,8,8,0,0,0,0>> >>

(* @ to O                                                                   *)
Capitals == <<
  <<0,0,124,130,158,162,162,162,166,154,128,126,0,0,0,0>>,
  <<0,0,60,66,66,66,66,126,66,66,66,66,0,0,0,0>>,
  <<0,0,124,66,66,66,124,66,66,66,66,124,0,0,0,0>>,
  <<0,0,60,66,66,64,64,64,64,66,66,60,0,0,0,0>>,
  <<0,0,120,68,66,66,66,66,66,66,68,120,0,0,0,0>>,
  <<0,0,126,64,64,64,120,64,64,64,64,126,0,0,0,0>>,
  <<0,0,126,64,64,64,120,64,64,64,64,64,0,0,0,0>>,
  <<0,0,60,66,66,64,64,78,66,66,66,60,0,0,0,0>>,
  <<0,0,66,66,66,66,126,66,66,66,66,66,0,0,0,0>>,
  <<0,0,56,16,16,16,16,16,16,16,16,56,0,0,0,0>>,
  <<0,0,14,4,4,4,4,4,4,68,68,56,0,0,0,0>>,
  <<0,0,66,68,72,80,96,96,80,72,68,66,0,0,0,0>>,
  <<0,0,64,64,64,64,64,64,64,64,64,126,0,0,0,0>>,
  <<0,0,130,198,170,146,146,130,130,130,130,130,0,0,0,0>>,
  <<0,0,66,66,66,98,82,74,70,66,66,66,0,0,0,0>>,
  <<0,0,60,66,66,66,66,66,66,66,66,60,0,0,0,0>> >>

(* P to _                                                                   *)
MoreCapitals == <<
  <<0,0,124,66,66,66,66,124,64,64,64,64,0,0,0,0>>,
  <<0,0,60,66,66,66,66,66,66,66,74,60,2,0,0,0>>,
  <<0,0,124,66,66,66,66,124,80,72,68,66,0,0,0,0>>,
  <<0,0,60,66,64,64,60,2,2,66,66,60,0,0,0,0>>,
  <<0,0,254,16,16,16,16,16,16,16,16,16,0,0,0,0>>,
  <<0,0,66,66,66,66,66,66,66,66,66,60,0,0,0,0>>,
  <<0,0,66,66,66,66,66,36,36,36,24,24,0,0,0,0>>,
  <<0,0,130,130,130,130,130,146,146,170,198,130,0,0,0,0>>,
  <<0,0,66,66,36,36,24,24,36,36,66,66,0,0,0,0>>,
  <<0,0,130,130,68,68,40,16,16,16,16,16,0,0,0,0>>,
  <<0,0,126,2,2,4,8,16,32,64,64,126,0,0,0,0>>,
  <<0,0,56,32,32,32,32,32,32,32,32,56,0,0,0,0>>,
  <<0,0,64,64,32,32,16,16,8,8,4,4,0,0,0,0>>,
  <<0,0,56,8,8,8,8,8,8,8,8,56,0,0,0,0>>,
  <<0,16,40,68,0,0,0,0,0,0,0,0,0,0,0,0>>,
  <<0,0,0,0,0,0,0,0,0,0,0,0,0,126,0,0>> >>

(* ` to o                                                                   *)
Small == <<
  <<16,8,0,0,0,0,0,0,0,0,0,0,0,0,0,0>>,
  <<0,0,0,0,0,60,2,62,66,66,66,62,0,0,0,0>>,
  <<0,0,64,64,64,124,66,66,66,66,66,124,0,0,0,0>>,
  <<0,0,0,0,0,60,66,64,64,64,66,60,0,0,0,0>>,
  <<0,0,2,2,2,62,66,66,66,66,66,62,0,0,0,0>>,
  <<0,0,0,0,0,60,66,66,126,64,64,60,0,0,0,0>>,
  <<0,0,14,16,16,124,16,16,16,16,16,16,0,0,0,0>>,
  <<0,0,0,0,0,62,66,66,66,66,66,62,2,2,60,0>>,
  <<0,0,64,64,64,124,66,66,66,66,66,66,0,0,0,0>>,
  <<0,0,16,16,0,48,16,16,16,16,16,56,0,0,0,0>>,
  <<0,0,4,4,0,12,4,4,4,4,4,4,68,68,56,0>>,
  <<0,0,64,64,64,66,68,72,112,72,68,66,0,0,0,0>>,
  <<0,0,48,16,16,16,16,16,16,16,16,56,0,0,0,0>>,
  <<0,0,0,0,0,252,146,146,146,146,146,146,0,0,0,0>>,
  <<0,0,0,0,0,124,66,66,66,66,66,66,0,0,0,0>>,
  <<0,0,0,0,0,60,66,66,66,66,66,60,0,0,0,0>> >>

(* p to ~                                                                   *)
MoreSmall == <<
  <<0,0,0,0,0,124,66,66,66,66,66,124,64,64,64,0>>,
  <<0,0,0,0,0,62,66,66,66,66,66,62,2,2,2,0>>,
  <<0,0,0,0,0,94,96,64,64,64,64,64,0,0,0,0>>,
  <<0,0,0,0,0,62,64,64,60,2,2,124,0,0,0,0>>,
  <<0,0,16,16,16,124,16,16,16,16,16,14,0,0,0,0>>,
  <<0,0,0,0,0,66,66,66,66,66,66,62,0,0,0,0>>,
  <<0,0,0,0,0,66,66,66,36,36,24,24,0,0,0,0>>,
  <<0,0,0,0,0,130,130,146,146,146,146,124,0,0,0,0>>,
  <<0,0,0,0,0,66,66,36,24,36,66,66,0,0,0,0>>,
  <<0,0,0,0,0,66,66,66,66,66,66,62,2,2,60,0>>,
  <<0,0,0,0,0,126,4,8,16,32,64,126,0,0,0,0>>,
  <<0,0,12,16,16,16,32,16,16,16,16,12,0,0,0,0>>,
  <<0,0,16,16,16,16,16,16,16,16,16,16,0,0,0,0>>,
  <<0,0,48,8,8,8,4,8,8,8,8,48,0,0,0,0>>,
  <<0,98,146,140,0,0,0,0,0,0,0,0,0,0,0,0>> >>

Printable == 32..126
(* Where graphics_char finds a character.                                   *)
Terminus16 == Signs \o Digits \o Capitals \o MoreCapitals \o Small \o MoreSmall
CharBitmap(c) == Terminus16[c - 31]

(* What of a row is left beside the cursor's two pixels.                    *)
CursorWidth == 2
Beside(row, barred) == IF barred THEN row % 2 ^ (8 - CursorWidth) ELSE row

(* The characters whose pictures are the same, barred or not.               *)
LooksLike == [c \in Printable, barred \in BOOLEAN |->
  {d \in Printable : \A k \in 1..16 :
     Beside(CharBitmap(c)[k], barred) = Beside(CharBitmap(d)[k], barred)}]

(* Of the bitmaps above: no two characters share one.                       *)
ASSUME FontDistinguishes == \A c \in Printable : LooksLike[c, FALSE] = {c}
=============================================================================
