----------------------------- MODULE TetrisBag ------------------------------
(***************************************************************************)
(* The order Tetris deals its pieces in: a shift-register random number     *)
(* generator on a signed int, and a bag of seven shuffled with it.  The     *)
(* generator runs here bit for bit from its only seed; a word is the set of *)
(* its bits that are 1, so that XOR is the symmetric difference.  Negative  *)
(* remainders make the shuffle swap with the words before the bag, where    *)
(* the module's other variables lie.                                        *)
(***************************************************************************)
EXTENDS Integers, FiniteSets

CONSTANTS
  NextAt,   \* the word before bag[0] that is the static next
  MaxDeals  \* bound: pieces dealt

VARIABLES
  rng_state,  \* tetris.rng_state
  bag,        \* bag[0] .. bag[6], and the words before it
  idx,        \* the place in the bag dealt from next
  Type,       \* p->Type of the piece started last
  dealt       \* history: how many were started

vars == <<rng_state, bag, idx, Type, dealt>>

Xor(a, b) == (a \ b) \cup (b \ a)
Left(w, n) == {b \in 0..31 : b - n \in w}
(* The right shift of an int repeats its sign.                              *)
Right(w, n) == {b \in 0..31 : (IF b + n > 31 THEN 31 ELSE b + n) \in w}

rand(w) ==
  LET a == Xor(w, Left(w, 13))
      b == Xor(a, Right(a, 17))
  IN  Xor(b, Left(b, 5))

(* What is left of an int divided by 7, with the sign of the int.  A power  *)
(* of two leaves 1, 2 or 4; the bits of a negative int stand 2^32 too high. *)
Residue(w) == (Cardinality({b \in w : b % 3 = 0}) + 2 * Cardinality({b \in w : b % 3 = 1})
                 + 4 * Cardinality({b \in w : b % 3 = 2})) % 7
Mod7(w) == IF 31 \in w THEN -((11 - Residue(w)) % 7) ELSE Residue(w)

Seed == {1, 2, 7, 10, 11, 13, 14, 16, 17, 18, 19, 20, 22, 23, 24}  \* 31419526

(* The words the seven steps of a shuffle draw.                             *)
Words(w) ==
  LET draw[n \in 0..7] == IF n = 0 THEN w ELSE rand(draw[n - 1])
  IN  draw

Swapped(m, j, k) == [m EXCEPT ![j] = m[k], ![k] = m[j]]

Sorted(m) == [k \in DOMAIN m |-> IF k \in 0..6 THEN k ELSE m[k]]

Shuffled(m, draw) ==
  LET step[n \in 0..7] ==
        IF n = 0 THEN Sorted(m) ELSE Swapped(step[n - 1], n - 1, Mod7(draw[n]))
  IN  step[7]

(* The bag is refilled when its last piece is next, which is so not dealt.  *)
Refill == idx = 6

(* The shuffle, then p->Type = next and next = bag[idx++].                  *)
_new_piece ==
  /\ dealt < MaxDeals /\ dealt' = dealt + 1
  /\ LET draw  == Words(rng_state)
         words == IF Refill THEN Shuffled(bag, draw) ELSE bag
         from  == IF Refill THEN 0 ELSE idx
     IN  /\ rng_state' = IF Refill THEN draw[7] ELSE rng_state
         /\ Type' = words[NextAt]
         /\ bag' = [words EXCEPT ![NextAt] = words[from]]
         /\ idx' = from + 1

(* None of the words is in the module's image (.bss): negative numbers      *)
(* stand for what they hold, each for its own.                              *)
Init ==
  /\ rng_state = Seed /\ idx = 6 /\ Type = 0 /\ dealt = 0
  /\ bag = [k \in -6..6 |-> IF k < 0 THEN k ELSE 0]

Next == _new_piece

Spec == Init /\ [][Next]_vars

-----------------------------------------------------------------------------
(* Properties *)

(* main.c:240 says "create a new shuffled bag of pieces".                   *)
ShuffledBag == dealt > 0 => {bag[k] : k \in 0..6} = 0..6
=============================================================================
