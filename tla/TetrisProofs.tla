---------------------------- MODULE TetrisProofs ----------------------------
(***************************************************************************)
(* Tetris for every size of field, starting column and set of words dealt   *)
(* as pieces, whatever those from outside the bag find beside Pieces. The   *)
(* falling piece never lies outside the field or over a block: a landing    *)
(* starts the next piece on what the rows leave only if it fits there, and  *)
(* on an empty field otherwise, and every piece fits an empty field. A      *)
(* landing removes exactly the full rows: after looking at the rows above   *)
(* n, those that were not full lie settled on row n in their order, under   *)
(* empty ones. And what is drawn lies in the window and shows every block:  *)
(* pieces, field and preview have no cell in common, and the grid spares    *)
(* the middle of each cell.                                                 *)
(***************************************************************************)
EXTENDS TetrisView, FiniteSetTheorems, WellFoundedInduction, TLAPS
IInv == next \in Types /\ PieceFits

(* The blocks of a piece are bits of a picture of four by four, for a word  *)
(* from outside the bag those found beside Pieces                           *)
(* (tetris/main.c:37-79, 290-312).                                         *)
LEMMA ShapeInside ==
  ASSUME NEW t \in Types \cup 0..6, NEW r \in 0..3
  PROVE  Shape[t][r] \subseteq (0..3) \X (0..3)
<1>1. CASE t \in 0..6
  <2>1. \A picture : Bits(picture) \subseteq (0..3) \X (0..3)
    BY DEF Bits, Offsets
  <2>2. Shape[t][r] = Bits(Blocks[t + 1][r + 1])
    BY <1>1 DEF Shape
  <2> QED
    BY <2>1, <2>2
<1>2. CASE t \notin 0..6
  <2>1. t \in Types \ (0..6)
    BY <1>2
  <2>2. Shape[t][r] = Beyond[t][r]
    BY <1>2 DEF Shape
  <2> QED
    BY <2>1, <2>2, BeyondAssumption DEF Offsets
<1> QED
  BY <1>1, <1>2

LEMMA StartFits ==
  ASSUME NEW t \in Types
  PROVE  Fits(EmptyField, NewPiece(t))
<1> SUFFICES ASSUME NEW c \in CellsOf(NewPiece(t)) PROVE _field_get(EmptyField, c) = 0
  BY DEF Fits
<1>1. PICK o \in Shape[t][0] : c = <<StartX + o[1], 0 + o[2]>>
  BY DEF CellsOf, NewPiece
<1>2. o \in (0..3) \X (0..3)
  BY <1>1, ShapeInside
<1>3. c \in Cells
  BY <1>1, <1>2, FieldAssumption DEF Cells, Columns, Rows
<1> QED
  BY <1>3 DEF _field_get, EmptyField

LEMMA InitInv == Init => IInv
<1> SUFFICES ASSUME Init PROVE IInv
  OBVIOUS
<1>1. PICK first \in Types : cp = NewPiece(first)
  BY DEF Init
<1>2. Fits(field, cp)
  BY <1>1, StartFits DEF Init
<1> QED
  BY <1>2 DEF Init, IInv, PieceFits

(* A move that would not fit leaves the piece where it is.                  *)
LEMMA MoveKeepsInv ==
  ASSUME IInv, NEW p, Move(p), Others
  PROVE  IInv'
<1>1. field' = field /\ next' = next
  BY DEF Others
<1>2. Fits(field, cp')
  BY DEF Move, IInv, PieceFits
<1> QED
  BY <1>1, <1>2 DEF IInv, PieceFits

LEMMA LandKeepsInv ==
  ASSUME IInv, NEW dealt \in Types, Land(dealt)
  PROVE  IInv'
<1>1. next' \in Types
  BY DEF Land
<1>2. Fits(EmptyField, cp')
  BY StartFits DEF Land, IInv
<1>3. Fits(field', cp')
  BY <1>2 DEF Land
<1> QED
  BY <1>1, <1>3 DEF IInv, PieceFits

LEMMA NextKeepsInv == IInv /\ [Next]_vars => IInv'
<1> SUFFICES ASSUME IInv, [Next]_vars PROVE IInv'
  OBVIOUS
<1>1. CASE Fall
  <2>1. Fits(field', cp') /\ next' = next
    BY <1>1 DEF Fall, Others
  <2> QED
    BY <2>1 DEF IInv, PieceFits
<1>2. CASE Landing
  BY <1>2, LandKeepsInv DEF Landing
<1>3. CASE Left
  BY <1>3, MoveKeepsInv DEF Left
<1>4. CASE Right
  BY <1>4, MoveKeepsInv DEF Right
<1>5. CASE Rotate
  BY <1>5, MoveKeepsInv DEF Rotate
<1>6. CASE \E released \in BOOLEAN : Down(released)
  BY <1>6 DEF Down, IInv, PieceFits
<1>7. CASE UNCHANGED vars
  BY <1>7 DEF vars, IInv, PieceFits
<1> QED
  BY <1>1, <1>2, <1>3, <1>4, <1>5, <1>6, <1>7 DEF Next, TimerEvent

(* For every field and every order of pieces, keys and ticks the piece lies *)
(* on empty cells, so that landing writes inside the field and over nothing *)
(* (tetris/main.c:314-333, 343-427).                                        *)
THEOREM PieceFitsHolds == Spec => []PieceFits
<1>1. IInv => PieceFits
  BY DEF IInv
<1> QED
  BY InitInv, NextKeepsInv, <1>1, PTL DEF Spec

-----------------------------------------------------------------------------
(* Induction up to a number, over a set instead of a predicate.             *)
LEMMA Induct ==
  ASSUME NEW L \in Nat, NEW S, 0 \in S, \A n \in 1..L : n - 1 \in S => n \in S
  PROVE  \A n \in 0..L : n \in S
<1> SUFFICES ASSUME NEW z \in 0..L, z \notin S PROVE FALSE
    OBVIOUS
<1> DEFINE T == {n \in 0..L : n \notin S}
           R == {ss \in Nat \X Nat : ss[1] < ss[2]}
<1>1. T \subseteq Nat /\ T # {}
    OBVIOUS
<1>2. IsWellFoundedOn(R, Nat)
    BY NatLessThanWellFounded DEF OpToRel
<1> HIDE DEF R, T
<1>3. PICK m \in T : \A k \in T : ~(<<k, m>> \in R)
    BY <1>1, <1>2, WFMin, Zenon
<1>4. m \in 1..L /\ m - 1 \in 0..L
    BY <1>3 DEF T
<1>5. <<m - 1, m>> \in R
    BY <1>4 DEF R
<1> QED
  <2>1. m - 1 \notin T
      BY <1>3, <1>5, Zenon
  <2> QED
      BY <1>3, <1>4, <2>1 DEF T

Kept(f, n) == {k \in 0..n - 1 : ~IsFull(f, k)}
KeptBelow(f, n, k) == {j \in Kept(f, n) : j > k}
From(f, n, y) == {k \in Kept(f, n) : Cardinality(KeptBelow(f, n, k)) = n - 1 - y}
Taken(f, x, s) == IF s = {} THEN 0 ELSE f[<<x, CHOOSE k \in s : TRUE>>]
Settled(f, n, x, y) == Taken(f, x, From(f, n, y))
Full(f, n) == {y \in 0..n - 1 : IsFull(f, y)}

LEMMA KeptCount ==
  ASSUME NEW f, NEW n \in Nat, NEW k \in Kept(f, n)
  PROVE  /\ IsFiniteSet(KeptBelow(f, n, k)) /\ Cardinality(KeptBelow(f, n, k)) \in Nat
         /\ k \in 0..n - 1 /\ Cardinality(KeptBelow(f, n, k)) <= n - 1 - k
<1>1. k \in 0..n - 1
    BY DEF Kept
<1>2. KeptBelow(f, n, k) \in SUBSET (k + 1..n - 1)
    BY <1>1 DEF KeptBelow, Kept
<1>3. IsFiniteSet(k + 1..n - 1) /\ Cardinality(k + 1..n - 1) = n - 1 - k
  <2>1. k + 1 \in Int /\ n - 1 \in Int
      BY <1>1
  <2>2. /\ IsFiniteSet(k + 1..n - 1)
        /\ Cardinality(k + 1..n - 1) = IF k + 1 > n - 1 THEN 0 ELSE (n - 1) - (k + 1) + 1
      BY <2>1, FS_Interval, Zenon
  <2> QED
      BY <1>1, <2>2
<1>4. /\ IsFiniteSet(KeptBelow(f, n, k))
      /\ Cardinality(KeptBelow(f, n, k)) <= Cardinality(k + 1..n - 1)
    BY <1>2, <1>3, FS_Subset, Zenon
<1>5. Cardinality(KeptBelow(f, n, k)) \in Nat
    BY <1>4, FS_CardinalityType, Zenon
<1> QED
    BY <1>1, <1>3, <1>4, <1>5

(* A full row takes the rows above it one down.                             *)
LEMMA FromFull ==
  ASSUME NEW f, NEW n \in Nat, IsFull(f, n), NEW y \in Int
  PROVE  From(f, n + 1, y) = From(f, n, y - 1)
<1>1. Kept(f, n + 1) = Kept(f, n)
  <2>1. \A k : k \in 0..(n + 1) - 1 <=> k \in 0..n - 1 \/ k = n
      OBVIOUS
  <2> QED
      BY <2>1 DEF Kept
<1>2. (n + 1) - 1 - y = n - 1 - (y - 1)
    OBVIOUS
<1> QED
    BY <1>1, <1>2 DEF From, KeptBelow

(* Any other row stays, and so do those above it.                           *)
LEMMA FromKept ==
  ASSUME NEW f, NEW n \in Nat, ~IsFull(f, n)
  PROVE  /\ From(f, n + 1, n) = {n}
         /\ \A y \in 0..n - 1 : From(f, n + 1, y) = From(f, n, y)
<1>1. Kept(f, n + 1) = Kept(f, n) \cup {n} /\ n \notin Kept(f, n)
  <2>1. \A k : k \in 0..(n + 1) - 1 <=> k \in 0..n - 1 \/ k = n
      OBVIOUS
  <2> QED
      BY <2>1 DEF Kept
<1>2. Cardinality(KeptBelow(f, n + 1, n)) = 0
  <2>1. \A k \in Kept(f, n + 1) : k <= n
      BY DEF Kept
  <2>2. KeptBelow(f, n + 1, n) = {}
      BY <2>1 DEF KeptBelow, Kept
  <2> QED
      BY <2>2, FS_EmptySet
<1>3. ASSUME NEW k \in Kept(f, n)
      PROVE  /\ Cardinality(KeptBelow(f, n + 1, k)) = Cardinality(KeptBelow(f, n, k)) + 1
             /\ Cardinality(KeptBelow(f, n, k)) \in Nat
  <2>1. n > k /\ n \notin KeptBelow(f, n, k)
      BY <1>1 DEF Kept, KeptBelow
  <2>2. KeptBelow(f, n + 1, k) = KeptBelow(f, n, k) \cup {n}
      BY <1>1, <2>1 DEF KeptBelow
  <2>3. IsFiniteSet(KeptBelow(f, n, k)) /\ Cardinality(KeptBelow(f, n, k)) \in Nat
      BY KeptCount, Zenon
  <2> QED
      BY <2>1, <2>2, <2>3, FS_AddElement
<1>4. ASSUME NEW y \in 0..n
      PROVE  From(f, n + 1, y) = {k \in Kept(f, n) \cup {n} :
                                    IF k = n THEN y = n ELSE Cardinality(KeptBelow(f, n, k)) = n - 1 - y}
  <2>1. ASSUME NEW k \in Kept(f, n + 1)
        PROVE  Cardinality(KeptBelow(f, n + 1, k)) = (n + 1) - 1 - y
                 <=> IF k = n THEN y = n ELSE Cardinality(KeptBelow(f, n, k)) = n - 1 - y
    <3>1. CASE k = n
        BY <1>2, <3>1
    <3>2. CASE k # n
      <4>1. k \in Kept(f, n)
          BY <1>1, <3>2
      <4> QED
          BY <1>3, <3>2, <4>1
    <3> QED
        BY <3>1, <3>2
  <2> QED
      BY <1>1, <2>1 DEF From
<1>5. From(f, n + 1, n) = {n}
  <2>1. \A k \in Kept(f, n) : ~(Cardinality(KeptBelow(f, n, k)) = n - 1 - n)
      BY <1>3
  <2> QED
      BY <1>1, <1>4, <2>1
<1>6. ASSUME NEW y \in 0..n - 1 PROVE From(f, n + 1, y) = From(f, n, y)
  <2>1. y \in 0..n /\ y # n
      OBVIOUS
  <2> QED
      BY <1>1, <1>4, <2>1 DEF From
<1> QED
    BY <1>5, <1>6

(* Nothing comes to the top row but what was there.                         *)
LEMMA FromTop ==
  ASSUME NEW f, NEW n \in Nat \ {0}
  PROVE  From(f, n, 0) \subseteq {0} /\ From(f, n, -1) = {}
  BY KeptCount DEF From

LEMMA FullCount ==
  ASSUME NEW f, NEW n \in Nat
  PROVE  /\ IsFiniteSet(Full(f, n)) /\ Cardinality(Full(f, n)) \in Nat
         /\ Cardinality(Full(f, n + 1)) = Cardinality(Full(f, n)) + (IF IsFull(f, n) THEN 1 ELSE 0)
<1>1. Full(f, n) \in SUBSET (0..n - 1) /\ 0 \in Int /\ n - 1 \in Int
    BY DEF Full
<1>2. IsFiniteSet(Full(f, n))
    BY <1>1, FS_Interval, FS_Subset, Zenon
<1>3. Cardinality(Full(f, n)) \in Nat
    BY <1>2, FS_CardinalityType, Zenon
<1>4. \A k : k \in 0..(n + 1) - 1 <=> k \in 0..n - 1 \/ k = n
    OBVIOUS
<1>5. CASE IsFull(f, n)
  <2>1. Full(f, n + 1) = Full(f, n) \cup {n} /\ n \notin Full(f, n)
      BY <1>4, <1>5 DEF Full
  <2> QED
      BY <1>2, <1>3, <1>5, <2>1, FS_AddElement
<1>6. CASE ~IsFull(f, n)
  <2>1. Full(f, n + 1) = Full(f, n)
      BY <1>4, <1>6 DEF Full
  <2> QED
      BY <1>2, <1>3, <1>6, <2>1
<1> QED
    BY <1>5, <1>6

(* The field and the score when n rows have been looked at.                 *)
SettledField(f, n) ==
  [c \in Cells |-> IF c[2] < n THEN Settled(f, n, c[1], c[2]) ELSE f[c]]
RowsDone(f, n) == [f |-> SettledField(f, n), score |-> 100 * Cardinality(Full(f, n))]
TopEmpty(f) == f = [c \in Cells |-> f[c]] /\ \A x \in Columns : f[<<x, 0>>] = 0

LEMMA CellIs ==
  ASSUME NEW c \in Cells
  PROVE  /\ c = <<c[1], c[2]>> /\ c[1] \in Columns /\ c[2] \in Rows
         /\ c[2] \in 0..FIELD_HEIGHT - 1 /\ FIELD_HEIGHT \in Nat
  BY FieldAssumption DEF Cells, Rows

LEMMA SettledAt ==
  ASSUME NEW f, NEW n \in Nat, NEW c \in Cells
  PROVE  SettledField(f, n)[c] = IF c[2] < n THEN Settled(f, n, c[1], c[2]) ELSE f[c]
  BY DEF SettledField

LEMMA SameRow ==
  ASSUME NEW f, NEW n \in Rows
  PROVE  IsFull(SettledField(f, n), n) <=> IsFull(f, n)
<1>1. ASSUME NEW x \in Columns PROVE SettledField(f, n)[<<x, n>>] = f[<<x, n>>]
  <2>1. <<x, n>> \in Cells /\ ~(n < n) /\ n \in Nat
      BY FieldAssumption DEF Cells, Rows
  <2> QED
      BY <2>1 DEF SettledField
<1> QED
    BY <1>1 DEF IsFull

LEMMA SettledTop ==
  ASSUME NEW f, TopEmpty(f), NEW n \in Nat \ {0}, NEW x \in Columns
  PROVE  Settled(f, n, x, 0) = 0
<1>1. CASE From(f, n, 0) = {}
    BY <1>1 DEF Settled, Taken
<1>2. CASE From(f, n, 0) # {}
  <2>1. From(f, n, 0) = {0}
      BY <1>2, FromTop, Zenon
  <2>2. (CHOOSE k \in From(f, n, 0) : TRUE) = 0
      BY <2>1
  <2> QED
      BY <1>2, <2>2, Zenon DEF Settled, Taken, TopEmpty
<1> QED
    BY <1>1, <1>2

LEMMA RowSettles ==
  ASSUME NEW f, TopEmpty(f), NEW n \in Rows
  PROVE  SettledField(f, n + 1) =
           IF IsFull(f, n) THEN _field_shift(SettledField(f, n), n) ELSE SettledField(f, n)
<1>1. n \in Nat /\ n + 1 \in Nat /\ FIELD_HEIGHT \in Nat /\ 0 \in Columns
    BY FieldAssumption DEF Rows, Columns
<1>2. IsFull(f, n) => n # 0
    BY <1>1 DEF IsFull, TopEmpty
<1> DEFINE g == SettledField(f, n)
           h == SettledField(f, n + 1)
<1>3. ASSUME NEW c \in Cells
      PROVE  /\ g[c] = IF c[2] < n THEN Settled(f, n, c[1], c[2]) ELSE f[c]
             /\ h[c] = IF c[2] < n + 1 THEN Settled(f, n + 1, c[1], c[2]) ELSE f[c]
    BY <1>1, SettledAt, Zenon
<1>4. ASSUME IsFull(f, n), NEW c \in Cells
      PROVE  h[c] = IF c[2] \in 1..n THEN g[<<c[1], c[2] - 1>>] ELSE g[c]
  <2>1. /\ c = <<c[1], c[2]>> /\ c[1] \in Columns /\ c[2] \in Rows /\ c[2] \in 0..FIELD_HEIGHT - 1
      BY CellIs, Zenon
  <2>2. CASE c[2] \in 1..n
    <3>1. <<c[1], c[2] - 1>> \in Cells /\ c[2] - 1 < n /\ c[2] < n + 1 /\ c[2] \in Int
        BY <1>1, <2>1, <2>2 DEF Cells, Rows
    <3>2. g[<<c[1], c[2] - 1>>] = Settled(f, n, c[1], c[2] - 1)
      <4>1. <<c[1], c[2] - 1>>[1] = c[1] /\ <<c[1], c[2] - 1>>[2] = c[2] - 1
          OBVIOUS
      <4> HIDE DEF g
      <4> QED
          BY <1>3, <3>1, <4>1
    <3>3. h[c] = Settled(f, n + 1, c[1], c[2])
        BY <1>3, <3>1, Zenon
    <3>4. From(f, n + 1, c[2]) = From(f, n, c[2] - 1)
        BY <1>1, <1>4, <3>1, FromFull, Zenon
    <3>5. Settled(f, n + 1, c[1], c[2]) = Settled(f, n, c[1], c[2] - 1)
        BY <3>4, Zenon DEF Settled
    <3> QED
        BY <2>2, <3>2, <3>3, <3>5, Zenon
  <2>3. CASE c[2] = 0
    <3>1. c[2] < n /\ c[2] < n + 1 /\ n \in Nat \ {0} /\ n + 1 \in Nat \ {0} /\ c[2] \notin 1..n
        BY <1>1, <1>2, <1>4, <2>3
    <3>2. Settled(f, n, c[1], 0) = 0 /\ Settled(f, n + 1, c[1], 0) = 0
        BY <2>1, <3>1, SettledTop, Zenon
    <3> QED
        BY <1>3, <2>3, <3>1, <3>2, Zenon
  <2>4. CASE c[2] > n
    <3>1. ~(c[2] < n) /\ ~(c[2] < n + 1) /\ c[2] \notin 1..n
        BY <1>1, <2>1, <2>4
    <3> QED
        BY <1>3, <3>1, Zenon
  <2> QED
      BY <1>1, <2>1, <2>2, <2>3, <2>4
<1>5. ASSUME ~IsFull(f, n), NEW c \in Cells PROVE h[c] = g[c]
  <2>1. /\ c = <<c[1], c[2]>> /\ c[2] \in 0..FIELD_HEIGHT - 1
      BY CellIs, Zenon
  <2>2. From(f, n + 1, n) = {n} /\ \A y \in 0..n - 1 : From(f, n + 1, y) = From(f, n, y)
      BY <1>1, <1>5, FromKept, Zenon
  <2>3. CASE c[2] < n
    <3>1. c[2] \in 0..n - 1 /\ c[2] < n + 1
        BY <1>1, <2>1, <2>3
    <3>2. From(f, n + 1, c[2]) = From(f, n, c[2])
        BY <2>2, <3>1, Zenon
    <3> QED
        BY <1>3, <2>3, <3>1, <3>2, Zenon DEF Settled, Taken
  <2>4. CASE c[2] = n
    <3>1. ~(c[2] < n) /\ c[2] < n + 1
        BY <1>1, <2>4
    <3>2. (CHOOSE k \in From(f, n + 1, c[2]) : TRUE) = n /\ From(f, n + 1, c[2]) # {}
        BY <2>2, <2>4
    <3> QED
        BY <1>3, <2>1, <2>4, <3>1, <3>2, Zenon DEF Settled, Taken
  <2>5. CASE c[2] > n
    <3>1. ~(c[2] < n) /\ ~(c[2] < n + 1)
        BY <1>1, <2>1, <2>5
    <3> QED
        BY <1>3, <3>1, Zenon
  <2> QED
      BY <1>1, <2>1, <2>3, <2>4, <2>5
<1>6. /\ g = [c \in Cells |-> g[c]] /\ h = [c \in Cells |-> h[c]]
    BY DEF SettledField
<1> HIDE DEF g, h
<1>7. CASE IsFull(f, n)
    BY <1>4, <1>6, <1>7 DEF _field_shift, g, h
<1>8. CASE ~IsFull(f, n)
    BY <1>5, <1>6, <1>8 DEF g, h
<1> QED
    BY <1>7, <1>8

LookedRow(f, t, n) == IF n = 0 THEN [f |-> f, score |-> 0] ELSE RowStep(t[n - 1], n - 1)

LEMMA StepSettles ==
  ASSUME NEW f, TopEmpty(f), NEW n \in Rows
  PROVE  RowStep(RowsDone(f, n), n) = RowsDone(f, n + 1)
<1> DEFINE g == SettledField(f, n)
           m == Cardinality(Full(f, n))
<1>1. n \in Nat
    BY FieldAssumption DEF Rows
<1>2. m \in Nat /\ Cardinality(Full(f, n + 1)) = m + (IF IsFull(f, n) THEN 1 ELSE 0)
    BY <1>1, FullCount, Zenon
<1>3. IsFull(g, n) <=> IsFull(f, n)
    BY SameRow, Zenon
<1>4. SettledField(f, n + 1) = IF IsFull(f, n) THEN _field_shift(g, n) ELSE g
    BY RowSettles, Zenon
<1>5. RowsDone(f, n) = [f |-> g, score |-> 100 * m]
    BY DEF RowsDone
<1>6. RowStep(RowsDone(f, n), n) =
        IF IsFull(g, n) THEN [f |-> _field_shift(g, n), score |-> 100 * m + 100]
        ELSE [f |-> g, score |-> 100 * m]
    BY <1>5 DEF RowStep
<1> HIDE DEF g, m
<1>7. RowsDone(f, n + 1) = [f |-> SettledField(f, n + 1),
                          score |-> 100 * (m + (IF IsFull(f, n) THEN 1 ELSE 0))]
    BY <1>2 DEF RowsDone
<1>8. CASE IsFull(f, n)
  <2>1. 100 * (m + (IF IsFull(f, n) THEN 1 ELSE 0)) = 100 * m + 100
      BY <1>2, <1>8
  <2> QED
      BY <1>3, <1>4, <1>6, <1>7, <1>8, <2>1, Zenon
<1>9. CASE ~IsFull(f, n)
  <2>1. 100 * (m + (IF IsFull(f, n) THEN 1 ELSE 0)) = 100 * m
      BY <1>2, <1>9
  <2> QED
      BY <1>3, <1>4, <1>6, <1>7, <1>9, <2>1, Zenon
<1> QED
    BY <1>8, <1>9

LEMMA NoneDone ==
  ASSUME NEW f, TopEmpty(f)
  PROVE  RowsDone(f, 0) = [f |-> f, score |-> 0]
<1>1. Full(f, 0) = {} /\ Cardinality({}) = 0
    BY FS_EmptySet DEF Full
<1>2. SettledField(f, 0) = f
  <2>1. \A c \in Cells : ~(c[2] < 0)
      BY CellIs
  <2> QED
      BY <2>1 DEF SettledField, TopEmpty
<1> QED
    BY <1>1, <1>2 DEF RowsDone

DoneAt(f, t, n) == t[n] = RowsDone(f, n)

LEMMA LookedDone ==
  ASSUME NEW f, TopEmpty(f), NEW t, t = CHOOSE g : g = [n \in 0..FIELD_HEIGHT |-> LookedRow(f, g, n)]
  PROVE  DoneAt(f, t, FIELD_HEIGHT)
<1> DEFINE H == FIELD_HEIGHT
           g == [n \in 0..H |-> RowsDone(f, n)]
<1>1. H \in Nat /\ H \in 0..H /\ 0 \in 0..H
    BY FieldAssumption
<1>2. \A n \in 1..H : n \in 0..H /\ n # 0 /\ n - 1 \in 0..H /\ n - 1 \in Rows /\ (n - 1) + 1 = n
    BY <1>1 DEF Rows
<1>3. ASSUME NEW n \in 0..H PROVE RowsDone(f, n) = LookedRow(f, g, n)
  <2>1. CASE n = 0
      BY <2>1, NoneDone, Zenon DEF LookedRow
  <2>2. CASE n # 0
    <3>1. n \in 1..H
        BY <2>2
    <3>2. g[n - 1] = RowsDone(f, n - 1)
        BY <1>2, <3>1
    <3>3. RowStep(RowsDone(f, n - 1), n - 1) = RowsDone(f, (n - 1) + 1)
        BY <1>2, <3>1, StepSettles
    <3> HIDE DEF g
    <3> QED
        BY <1>2, <2>2, <3>1, <3>2, <3>3, Zenon DEF LookedRow
  <2> QED
      BY <2>1, <2>2
<1>4. g = [n \in 0..H |-> LookedRow(f, g, n)]
    BY <1>3
<1> HIDE DEF g
<1>5. t = [n \in 0..H |-> LookedRow(f, t, n)]
    BY <1>4, Zenon
<1>6. \A n \in 0..H : t[n] = LookedRow(f, t, n)
    BY <1>5
<1> DEFINE S == {n \in 0..H : DoneAt(f, t, n)}
<1>7. 0 \in S
  <2>1. DoneAt(f, t, 0)
      BY <1>1, <1>6, NoneDone, Zenon DEF LookedRow, DoneAt
  <2> QED
      BY <1>1, <2>1
<1>8. ASSUME NEW n \in 1..H, n - 1 \in S PROVE n \in S
  <2>1. t[n - 1] = RowsDone(f, n - 1)
      BY <1>8 DEF DoneAt
  <2>2. RowStep(RowsDone(f, n - 1), n - 1) = RowsDone(f, (n - 1) + 1)
      BY <1>2, StepSettles
  <2>3. DoneAt(f, t, n)
      BY <1>2, <1>6, <2>1, <2>2, Zenon DEF LookedRow, DoneAt
  <2> QED
      BY <1>2, <2>3
<1> HIDE DEF S
<1>9. \A n \in 0..H : n \in S
    BY <1>1, <1>7, <1>8, Induct
<1> QED
    BY <1>1, <1>9 DEF S

LEMMA RowsCleared ==
  ASSUME NEW f, TopEmpty(f)
  PROVE  /\ _field_rows(f).f = Cleared(f)
         /\ _field_rows(f).score = 100 * Cardinality({y \in Rows : IsFull(f, y)})
<1> DEFINE t == CHOOSE g : g = [n \in 0..FIELD_HEIGHT |-> LookedRow(f, g, n)]
<1>1. _field_rows(f) = t[FIELD_HEIGHT]
    BY DEF _field_rows, Looked, LookedRow
<1>2. DoneAt(f, t, FIELD_HEIGHT)
  <2>1. t = CHOOSE g : g = [n \in 0..FIELD_HEIGHT |-> LookedRow(f, g, n)]
      OBVIOUS
  <2> HIDE DEF t
  <2> QED
      BY <2>1, LookedDone, Zenon
<1> HIDE DEF t
<1>3. _field_rows(f) = RowsDone(f, FIELD_HEIGHT)
    BY <1>1, <1>2, Zenon DEF DoneAt
<1>4. Full(f, FIELD_HEIGHT) = {y \in Rows : IsFull(f, y)}
    BY DEF Full, Rows
<1>5. SettledField(f, FIELD_HEIGHT) = Cleared(f)
  <2>1. \A c \in Cells : c[2] < FIELD_HEIGHT /\ c[2] \in Rows
      BY CellIs
  <2>2. SettledField(f, FIELD_HEIGHT) = [c \in Cells |-> Settled(f, FIELD_HEIGHT, c[1], c[2])]
      BY <2>1 DEF SettledField
  <2> DEFINE kept == {y \in Rows : ~IsFull(f, y)}
             Sources(y) == {k \in kept : Cardinality({j \in kept : j > k}) = FIELD_HEIGHT - 1 - y}
             source == [y \in Rows |-> Sources(y)]
  <2>3. Cleared(f) = [c \in Cells |-> IF source[c[2]] = {} THEN 0
                                      ELSE f[<<c[1], CHOOSE k \in source[c[2]] : TRUE>>]]
      BY DEF Cleared
  <2>4. ASSUME NEW y PROVE Sources(y) = From(f, FIELD_HEIGHT, y)
      BY DEF From, Kept, KeptBelow, Rows
  <2> HIDE DEF Sources, kept
  <2>5. ASSUME NEW c \in Cells
        PROVE  Settled(f, FIELD_HEIGHT, c[1], c[2])
                 = IF source[c[2]] = {} THEN 0 ELSE f[<<c[1], CHOOSE k \in source[c[2]] : TRUE>>]
    <3>1. source[c[2]] = From(f, FIELD_HEIGHT, c[2])
        BY <2>1, <2>4
    <3> HIDE DEF source
    <3> QED
        BY <3>1 DEF Settled, Taken
  <2> HIDE DEF source
  <2> QED
      BY <2>2, <2>3, <2>5
<1> QED
    BY <1>3, <1>4, <1>5 DEF RowsDone

(* A landing that leaves the top row empty removes exactly the full rows,   *)
(* scores 100 for each, and drops the rows above, for every size of field   *)
(* (tetris/main.c:181-216).                                                 *)
THEOREM LandingClearsRowsHolds == Spec => LandingClearsRows
<1>1. [Next]_vars =>
        [Landing => \A f \in {_to_field(field, cp)} :
           (\A x \in Columns : f[<<x, 0>>] = 0) =>
             /\ field' = LET g == Cleared(f) IN IF Fits(g, cp') THEN g ELSE EmptyField
             /\ gain' = 100 * Cardinality({y \in Rows : IsFull(f, y)})]_vars
  <2> DEFINE f == _to_field(field, cp)
  <2> SUFFICES ASSUME Next, Landing, \A x \in Columns : f[<<x, 0>>] = 0
               PROVE  /\ field' = IF Fits(Cleared(f), cp') THEN Cleared(f) ELSE EmptyField
                      /\ gain' = 100 * Cardinality({y \in Rows : IsFull(f, y)})
      OBVIOUS
  <2>1. PICK dealt \in Types : Land(dealt)
      BY DEF Landing
  <2>2. TopEmpty(f)
      BY DEF TopEmpty, _to_field
  <2> HIDE DEF f
  <2>3. /\ gain' = _field_rows(f).score
        /\ field' = IF Fits(_field_rows(f).f, cp') THEN _field_rows(f).f ELSE EmptyField
      BY <2>1 DEF Land, f
  <2> QED
      BY <2>2, <2>3, RowsCleared
<1> QED
    BY <1>1, PTL DEF Spec, LandingClearsRows

-----------------------------------------------------------------------------
(* A block at a column below m ends by column m, and so for rows.           *)
LEMMA BlockInside ==
  ASSUME NEW a \in Nat, NEW m \in Nat, a + 1 <= m
  PROVE  /\ a * BLOCK_SIZE \in Nat /\ a * BLOCK_SIZE + BLOCK_SIZE <= m * BLOCK_SIZE
<1>1. BLOCK_SIZE \in Nat
    BY ViewAssumption
<1>2. (a + 1) * BLOCK_SIZE <= m * BLOCK_SIZE
    BY <1>1
<1>3. (a + 1) * BLOCK_SIZE = a * BLOCK_SIZE + BLOCK_SIZE /\ a * BLOCK_SIZE \in Nat
    BY <1>1
<1> QED
    BY <1>1, <1>2, <1>3

(* Multiples of the size of a block lie apart.                              *)
LEMMA BlocksApart ==
  ASSUME NEW a \in Int, NEW b \in Int
  PROVE  /\ a * BLOCK_SIZE <= b * BLOCK_SIZE + 1 /\ b * BLOCK_SIZE + 1 < a * BLOCK_SIZE + BLOCK_SIZE
              <=> a = b
         /\ ~(a * BLOCK_SIZE = b * BLOCK_SIZE + 1)
<1> DEFINE n == BLOCK_SIZE
<1>1. n \in Nat /\ n >= 2 /\ a * n \in Int /\ b * n \in Int
    BY ViewAssumption
<1>2. CASE a = b
    BY <1>1, <1>2
<1>3. CASE a > b
  <2>1. a * n >= (b + 1) * n
      BY <1>1, <1>3
  <2>2. (b + 1) * n = b * n + n
      BY <1>1
  <2> QED
      BY <1>1, <1>3, <2>1, <2>2
<1>4. CASE a < b
  <2>1. (a + 1) * n <= b * n
      BY <1>1, <1>4
  <2>2. (a + 1) * n = a * n + n
      BY <1>1
  <2> QED
      BY <1>1, <1>4, <2>1, <2>2
<1> QED
    BY <1>2, <1>3, <1>4

(* A piece lies within four columns and rows of its place.                  *)
LEMMA CellsInteger ==
  ASSUME NEW p, p.Type \in Types, p.Rotation \in 0..3, p.X \in Int, p.Y \in Int, NEW c \in CellsOf(p)
  PROVE  /\ c \in Int \X Int /\ c[1] \in p.X..p.X + 3 /\ c[2] \in p.Y..p.Y + 3
<1>1. PICK o \in Shape[p.Type][p.Rotation] : c = <<p.X + o[1], p.Y + o[2]>>
    BY DEF CellsOf
<1>2. o \in (0..3) \X (0..3)
    BY <1>1, ShapeInside
<1> QED
    BY <1>1, <1>2

(* In the middle of a cell only its own block is painted, and no grid.      *)
Middle(r, c) ==
  /\ r.x <= c[1] * BLOCK_SIZE + 1 /\ c[1] * BLOCK_SIZE + 1 < r.x + r.w
  /\ r.y <= c[2] * BLOCK_SIZE + 1 /\ c[2] * BLOCK_SIZE + 1 < r.y + r.h

LEMMA BlockMiddle ==
  ASSUME NEW c \in Int \X Int, NEW d \in Int \X Int, NEW t
  PROVE  Middle(Block(d, t), c) <=> d = c
<1>1. /\ Block(d, t).x = d[1] * BLOCK_SIZE /\ Block(d, t).w = BLOCK_SIZE
      /\ Block(d, t).y = d[2] * BLOCK_SIZE /\ Block(d, t).h = BLOCK_SIZE
    BY DEF Block, Rect
<1>2. /\ c[1] \in Int /\ c[2] \in Int /\ d[1] \in Int /\ d[2] \in Int
      /\ (d = c <=> d[1] = c[1] /\ d[2] = c[2])
    OBVIOUS
<1>3. Middle(Block(d, t), c) <=>
        /\ d[1] * BLOCK_SIZE <= c[1] * BLOCK_SIZE + 1
        /\ c[1] * BLOCK_SIZE + 1 < d[1] * BLOCK_SIZE + BLOCK_SIZE
        /\ d[2] * BLOCK_SIZE <= c[2] * BLOCK_SIZE + 1
        /\ c[2] * BLOCK_SIZE + 1 < d[2] * BLOCK_SIZE + BLOCK_SIZE
    BY <1>1, Zenon DEF Middle
<1>4. /\ d[1] * BLOCK_SIZE <= c[1] * BLOCK_SIZE + 1
         /\ c[1] * BLOCK_SIZE + 1 < d[1] * BLOCK_SIZE + BLOCK_SIZE
           <=> d[1] = c[1]
      /\ d[2] * BLOCK_SIZE <= c[2] * BLOCK_SIZE + 1
         /\ c[2] * BLOCK_SIZE + 1 < d[2] * BLOCK_SIZE + BLOCK_SIZE
           <=> d[2] = c[2]
    BY <1>2, BlocksApart
<1> QED
    BY <1>2, <1>3, <1>4, Zenon

LEMMA GridMiddle ==
  ASSUME NEW c \in Int \X Int, NEW r \in _draw_grid
  PROVE  ~Middle(r, c)
<1>1. FIELD_WIDTH \in Nat /\ FIELD_HEIGHT \in Nat /\ BLOCK_SIZE \in Nat /\ c[1] \in Int /\ c[2] \in Int
    BY FieldAssumption, ViewAssumption
<1>2. ASSUME NEW i \in 0..FIELD_WIDTH, r = Rect(i * BLOCK_SIZE, 0, 1, WINDOW_HEIGHT, Black)
      PROVE  ~Middle(r, c)
  <2>1. r.x = i * BLOCK_SIZE /\ r.w = 1
      BY <1>2 DEF Rect
  <2>2. i \in Int /\ ~(i * BLOCK_SIZE = c[1] * BLOCK_SIZE + 1)
      BY <1>1, BlocksApart
  <2>3. i * BLOCK_SIZE \in Int /\ c[1] * BLOCK_SIZE \in Int
      BY <1>1, <2>2
  <2> QED
      BY <2>1, <2>2, <2>3 DEF Middle
<1>3. ASSUME NEW i \in Rows, r = Rect(0, i * BLOCK_SIZE, BLOCK_SIZE * FIELD_WIDTH, 1, Black)
      PROVE  ~Middle(r, c)
  <2>1. r.y = i * BLOCK_SIZE /\ r.h = 1
      BY <1>3 DEF Rect
  <2>2. i \in Int /\ ~(i * BLOCK_SIZE = c[2] * BLOCK_SIZE + 1)
      BY <1>1, BlocksApart DEF Rows
  <2>3. i * BLOCK_SIZE \in Int /\ c[2] * BLOCK_SIZE \in Int
      BY <1>1, <2>2
  <2> QED
      BY <2>1, <2>2, <2>3 DEF Middle
<1> QED
    BY <1>2, <1>3 DEF _draw_grid

-----------------------------------------------------------------------------
(* A piece keeps its shape, and the piece shown as next is the one dealt.   *)
Piece == [X : Int, Y : Int, Rotation : 0..3, Type : Types]
ViewInv == IInv /\ cp \in Piece /\ np = next

LEMMA NewIsPiece ==
  ASSUME NEW t \in Types
  PROVE  NewPiece(t) \in Piece
BY FieldAssumption DEF NewPiece, Piece

LEMMA MovesArePieces ==
  ASSUME NEW p \in Piece
  PROVE  /\ [p EXCEPT !.X = @ - 1] \in Piece /\ [p EXCEPT !.X = @ + 1] \in Piece
         /\ [p EXCEPT !.Y = @ + 1] \in Piece /\ [p EXCEPT !.Rotation = (@ + 3) % 4] \in Piece
<1>1. p.X \in Int /\ p.Y \in Int /\ p.Rotation \in 0..3 /\ p.Type \in Types
    BY DEF Piece
<1>2. (p.Rotation + 3) % 4 \in 0..3
    BY <1>1
<1> QED
    BY <1>1, <1>2 DEF Piece

LEMMA ViewInit == Init => ViewInv
BY InitInv, NewIsPiece DEF Init, ViewInv

LEMMA MoveKeepsView ==
  ASSUME ViewInv, NEW p \in Piece, Move(p), Others
  PROVE  cp' \in Piece /\ np' = next'
BY DEF ViewInv, Move, Others

LEMMA ViewStep == ViewInv /\ [Next]_vars => ViewInv'
<1> SUFFICES ASSUME ViewInv, [Next]_vars PROVE ViewInv'
    OBVIOUS
<1> USE MovesArePieces
<1>1. IInv' /\ cp \in Piece
    BY NextKeepsInv DEF ViewInv
<1>2. CASE Fall
    BY <1>1, <1>2 DEF Fall, Below, Others, ViewInv
<1>3. CASE Landing
    BY <1>1, <1>3, NewIsPiece DEF Landing, Land, Preview, ViewInv, IInv
<1>4. CASE Left
    BY <1>1, <1>4, MoveKeepsView DEF Left, ViewInv
<1>5. CASE Right
    BY <1>1, <1>5, MoveKeepsView DEF Right, ViewInv
<1>6. CASE Rotate
    BY <1>1, <1>6, MoveKeepsView DEF Rotate, ViewInv
<1>7. CASE \E released \in BOOLEAN : Down(released)
    BY <1>1, <1>7 DEF Down, ViewInv
<1>8. CASE UNCHANGED vars
    BY <1>1, <1>8 DEF vars, ViewInv
<1> QED
    BY <1>2, <1>3, <1>4, <1>5, <1>6, <1>7, <1>8 DEF Next, TimerEvent

-----------------------------------------------------------------------------
(* The cells of the three pictures: the preview beside the field, the       *)
(* falling piece on its empty cells, the blocks on its others.              *)
Filled == {c \in Cells : field[c] # 0}

LEMMA ComingPlaces ==
  ASSUME ViewInv
  PROVE  \A c \in CellsOf(NextPiece) :
           /\ c \in Int \X Int
           /\ c[1] \in PreviewX..PreviewX + 3 /\ c[2] \in 1..4
<1>1. /\ NextPiece.Type \in Types /\ NextPiece.Rotation \in 0..3
      /\ NextPiece.X = PreviewX /\ NextPiece.X \in Int /\ NextPiece.Y = 1 /\ NextPiece.Y \in Int
    BY ViewAssumption DEF ViewInv, IInv, NextPiece
<1> QED
    BY <1>1, CellsInteger

LEMMA PlacesApart ==
  ASSUME ViewInv
  PROVE  /\ CellsOf(cp) \subseteq Cells /\ CellsOf(cp) \cap Filled = {}
         /\ Filled \subseteq Cells /\ Cells \subseteq Int \X Int
         /\ CellsOf(NextPiece) \cap Cells = {} /\ CellsOf(NextPiece) \subseteq Int \X Int
<1>1. \A c \in CellsOf(cp) : c \in Cells /\ field[c] = 0
    BY DEF ViewInv, IInv, PieceFits, Fits, _field_get
<1>2. Cells \subseteq Int \X Int
    BY FieldAssumption DEF Cells, Columns, Rows
<1>3. \A c \in CellsOf(NextPiece) : c \in Int \X Int /\ c \notin Cells
  <2> SUFFICES ASSUME NEW c \in CellsOf(NextPiece) PROVE c \in Int \X Int /\ c \notin Cells
      OBVIOUS
  <2>1. c \in Int \X Int /\ c[1] \in PreviewX..PreviewX + 3
      BY ComingPlaces
  <2> QED
      BY <2>1, FieldAssumption, ViewAssumption DEF Cells, Columns, Rows
<1> QED
    BY <1>1, <1>2, <1>3 DEF Filled

(* What a layer of blocks, one on each cell of a set, paints in the middle  *)
(* of a cell.                                                               *)
MiddleOf(c, layer) == Paints(layer, c[1] * BLOCK_SIZE + 1, c[2] * BLOCK_SIZE + 1)
LayerShows(layer, D, u, c) ==
  /\ c \in D => MiddleOf(c, layer) = {Block(c, u[c])}
  /\ c \notin D => MiddleOf(c, layer) = {}

LEMMA PaintsMiddle ==
  ASSUME NEW c, NEW layer, NEW r
  PROVE  r \in MiddleOf(c, layer) <=> r \in layer /\ Middle(r, c)
BY DEF MiddleOf, Paints, Middle

LEMMA LayerMiddle ==
  ASSUME NEW D \in SUBSET (Int \X Int), NEW u, NEW layer, NEW c \in Int \X Int,
         layer = {Block(d, u[d]) : d \in D}
  PROVE  LayerShows(layer, D, u, c)
<1>1. \A d \in D : Middle(Block(d, u[d]), c) <=> d = c
    BY BlockMiddle
<1>2. \A r : r \in MiddleOf(c, layer) <=> (\E d \in D : r = Block(d, u[d]) /\ d = c)
  <2>1. \A r : r \in layer <=> \E d \in D : r = Block(d, u[d])
      BY Zenon
  <2>2. \A r : r \in MiddleOf(c, layer) <=> (r \in layer /\ Middle(r, c))
      BY PaintsMiddle, Zenon
  <2> QED
      BY <1>1, <2>1, <2>2, Zenon
<1>3. c \in D => MiddleOf(c, layer) = {Block(c, u[c])}
    BY <1>2, Zenon
<1>4. c \notin D => MiddleOf(c, layer) = {}
    BY <1>2, Zenon
<1> QED
    BY <1>3, <1>4, Zenon DEF LayerShows

(* The only layer that paints a point decides its colour.                   *)
Seen(layers, x, y, t) == Pixel(layers, x, y) = {t}

LEMMA OnlyLayer ==
  ASSUME NEW layers, DOMAIN layers = 1..4, NEW x, NEW y, NEW k \in 1..4, NEW c, NEW t,
         Paints(layers[k], x, y) = {Block(c, t)},
         \A j \in 1..4 : j # k => Paints(layers[j], x, y) = {}
  PROVE  Seen(layers, x, y, t)
<1> DEFINE painted == {j \in DOMAIN layers : Paints(layers[j], x, y) # {}}
           top == CHOOSE j \in painted : \A i \in painted : i <= j
<1>1. painted = {k}
    BY Zenon
<1>2. top = k
  <2>1. k <= k
      OBVIOUS
  <2> HIDE DEF painted
  <2> QED
      BY <1>1, <2>1
<1>3. Pixel(layers, x, y) = {r.color : r \in Paints(layers[top], x, y)}
    BY Zenon DEF Pixel
<1>4. Block(c, t).color = t
    BY DEF Block, Rect
<1> HIDE DEF top
<1> QED
    BY <1>2, <1>3, <1>4, Zenon DEF Seen

-----------------------------------------------------------------------------
LayerColors(k) == IF k = 1 THEN [c \in CellsOf(NextPiece) |-> PieceColor(np)]
                  ELSE IF k = 2 THEN [c \in CellsOf(cp) |-> PieceColor(cp.Type)]
                  ELSE [c \in Filled |-> BlockColor(field[c] - 1)]

(* The layers of blocks, by their cells and the colours there.              *)
LEMMA LayersAre ==
  /\ DOMAIN update = 1..4
  /\ update[1] = _draw_piece(NextPiece) /\ update[2] = _draw_piece(cp)
  /\ update[3] = _draw_field(field) /\ update[4] = _draw_grid
  /\ update[1] = {Block(c, LayerColors(1)[c]) : c \in CellsOf(NextPiece)}
  /\ update[2] = {Block(c, LayerColors(2)[c]) : c \in CellsOf(cp)}
  /\ update[3] = {Block(c, LayerColors(3)[c]) : c \in Filled}
<1>1. /\ DOMAIN update = 1..4
      /\ update[1] = _draw_piece(NextPiece) /\ update[2] = _draw_piece(cp)
      /\ update[3] = _draw_field(field) /\ update[4] = _draw_grid
    BY DEF update
<1>2. _draw_piece(NextPiece) = {Block(c, LayerColors(1)[c]) : c \in CellsOf(NextPiece)}
  <2>1. NextPiece.Type = np
      BY DEF NextPiece
  <2>2. LayerColors(1) = [c \in CellsOf(NextPiece) |-> PieceColor(np)]
      BY DEF LayerColors
  <2>3. \A c \in CellsOf(NextPiece) : LayerColors(1)[c] = PieceColor(np)
      BY <2>2, Zenon
  <2> QED
      BY <2>1, <2>3, Zenon DEF _draw_piece
<1>3. _draw_piece(cp) = {Block(c, LayerColors(2)[c]) : c \in CellsOf(cp)}
  <2>1. LayerColors(2) = [c \in CellsOf(cp) |-> PieceColor(cp.Type)]
      BY DEF LayerColors
  <2>2. \A c \in CellsOf(cp) : LayerColors(2)[c] = PieceColor(cp.Type)
      BY <2>1, Zenon
  <2> QED
      BY <2>2, Zenon DEF _draw_piece
<1>4. _draw_field(field) = {Block(c, LayerColors(3)[c]) : c \in Filled}
  <2>1. LayerColors(3) = [c \in Filled |-> BlockColor(field[c] - 1)]
      BY DEF LayerColors
  <2>2. \A c \in Filled : LayerColors(3)[c] = BlockColor(field[c] - 1)
      BY <2>1, Zenon
  <2> QED
      BY <2>2, Zenon DEF _draw_field, Filled
<1> QED
    BY <1>1, <1>2, <1>3, <1>4, Zenon

(* All that is drawn lies inside the window.                                *)
LEMMA InWindow ==
  ASSUME ViewInv
  PROVE  \A k \in 1..4 : \A r \in update[k] :
           /\ 0 <= r.x /\ r.x + r.w <= WINDOW_WIDTH
           /\ 0 <= r.y /\ r.y + r.h <= WINDOW_HEIGHT
<1> DEFINE Inside(r) == /\ 0 <= r.x /\ r.x + r.w <= WINDOW_WIDTH
                        /\ 0 <= r.y /\ r.y + r.h <= WINDOW_HEIGHT
<1>1. /\ FIELD_WIDTH \in Nat /\ FIELD_HEIGHT \in Nat /\ BLOCK_SIZE \in Nat /\ PreviewX \in Nat
      /\ BLOCK_SIZE >= 2 /\ FIELD_WIDTH <= PreviewX /\ PreviewX + 4 <= FIELD_WIDTH + 6
      /\ 5 <= FIELD_HEIGHT
    BY FieldAssumption, ViewAssumption
<1>2. WINDOW_WIDTH = (FIELD_WIDTH + 6) * BLOCK_SIZE /\ WINDOW_HEIGHT = FIELD_HEIGHT * BLOCK_SIZE
    BY <1>1 DEF WINDOW_WIDTH, WINDOW_HEIGHT
<1>3. ASSUME NEW c \in Nat \X Nat, NEW t, c[1] + 1 <= FIELD_WIDTH + 6, c[2] + 1 <= FIELD_HEIGHT
      PROVE  Inside(Block(c, t))
  <2>1. c[1] * BLOCK_SIZE \in Nat /\ c[1] * BLOCK_SIZE + BLOCK_SIZE <= (FIELD_WIDTH + 6) * BLOCK_SIZE
    <3>1. c[1] \in Nat /\ FIELD_WIDTH + 6 \in Nat
        BY <1>1
    <3> QED
        BY <1>3, <3>1, BlockInside
  <2>2. c[2] * BLOCK_SIZE \in Nat /\ c[2] * BLOCK_SIZE + BLOCK_SIZE <= FIELD_HEIGHT * BLOCK_SIZE
    <3>1. c[2] \in Nat
        OBVIOUS
    <3> QED
        BY <1>1, <1>3, <3>1, BlockInside
  <2>3. /\ Block(c, t).x = c[1] * BLOCK_SIZE /\ Block(c, t).w = BLOCK_SIZE
        /\ Block(c, t).y = c[2] * BLOCK_SIZE /\ Block(c, t).h = BLOCK_SIZE
      BY DEF Block, Rect
  <2> QED
      BY <1>2, <2>1, <2>2, <2>3
<1>4. \A c \in Cells : c \in Nat \X Nat /\ c[1] + 1 <= FIELD_WIDTH + 6 /\ c[2] + 1 <= FIELD_HEIGHT
    BY <1>1 DEF Cells, Columns, Rows
<1>5. \A r \in update[1] : Inside(r)
  <2>1. \A c \in CellsOf(NextPiece) :
          c \in Nat \X Nat /\ c[1] + 1 <= FIELD_WIDTH + 6 /\ c[2] + 1 <= FIELD_HEIGHT
      BY <1>1, ComingPlaces
  <2> QED
      BY <1>3, <2>1, LayersAre, Zenon
<1>6. \A r \in update[2] : Inside(r)
    BY <1>3, <1>4, LayersAre, PlacesApart, Zenon
<1>7. \A r \in update[3] : Inside(r)
    BY <1>3, <1>4, LayersAre, PlacesApart, Zenon
<1>8. \A r \in update[4] : Inside(r)
  <2>1. ASSUME NEW n \in 0..FIELD_WIDTH PROVE Inside(Rect(n * BLOCK_SIZE, 0, 1, WINDOW_HEIGHT, Black))
    <3> DEFINE r == Rect(n * BLOCK_SIZE, 0, 1, WINDOW_HEIGHT, Black)
    <3>1. r.x = n * BLOCK_SIZE /\ r.w = 1 /\ r.y = 0 /\ r.h = WINDOW_HEIGHT
        BY DEF Rect
    <3>2. n * BLOCK_SIZE \in Nat /\ n * BLOCK_SIZE + BLOCK_SIZE <= (FIELD_WIDTH + 6) * BLOCK_SIZE
      <4>1. n \in Nat /\ FIELD_WIDTH + 6 \in Nat /\ n + 1 <= FIELD_WIDTH + 6
          BY <1>1
      <4> QED
          BY <4>1, BlockInside
    <3>3. WINDOW_HEIGHT \in Nat
        BY <1>1, <1>2
    <3> HIDE DEF r
    <3>4. Inside(r)
        BY <1>1, <1>2, <3>1, <3>2, <3>3
    <3> QED
        BY <3>4 DEF r
  <2>2. ASSUME NEW n \in Rows
        PROVE  Inside(Rect(0, n * BLOCK_SIZE, BLOCK_SIZE * FIELD_WIDTH, 1, Black))
    <3> DEFINE r == Rect(0, n * BLOCK_SIZE, BLOCK_SIZE * FIELD_WIDTH, 1, Black)
    <3>1. r.x = 0 /\ r.w = BLOCK_SIZE * FIELD_WIDTH /\ r.y = n * BLOCK_SIZE /\ r.h = 1
        BY DEF Rect
    <3>2. n * BLOCK_SIZE \in Nat /\ n * BLOCK_SIZE + BLOCK_SIZE <= FIELD_HEIGHT * BLOCK_SIZE
      <4>1. n \in Nat /\ n + 1 <= FIELD_HEIGHT
          BY <1>1 DEF Rows
      <4> QED
          BY <1>1, <4>1, BlockInside
    <3>3. BLOCK_SIZE * FIELD_WIDTH <= (FIELD_WIDTH + 6) * BLOCK_SIZE /\ BLOCK_SIZE * FIELD_WIDTH \in Nat
        BY <1>1
    <3> HIDE DEF r
    <3>4. Inside(r)
        BY <1>1, <1>2, <3>1, <3>2, <3>3
    <3> QED
        BY <3>4 DEF r
  <2> HIDE DEF Inside
  <2> QED
      BY <2>1, <2>2, LayersAre, Zenon DEF _draw_grid
<1> QED
  <2>1. \A k \in 1..4 : k = 1 \/ k = 2 \/ k = 3 \/ k = 4
      OBVIOUS
  <2> QED
      BY <1>5, <1>6, <1>7, <1>8, <2>1, Zenon

(* Each cell of the scene belongs to one layer, and the grid spares its     *)
(* middle.                                                                  *)
LEMMA SceneSeen ==
  ASSUME ViewInv, NEW c \in Int \X Int, NEW k \in 1..3, NEW t,
         c \in IF k = 1 THEN CellsOf(NextPiece) ELSE IF k = 2 THEN CellsOf(cp) ELSE Filled,
         t = LayerColors(k)[c]
  PROVE  Seen(update, c[1] * BLOCK_SIZE + 1, c[2] * BLOCK_SIZE + 1, t)
<1>1. LayerShows(update[1], CellsOf(NextPiece), LayerColors(1), c)
    BY PlacesApart, LayersAre, LayerMiddle, Zenon
<1>2. LayerShows(update[2], CellsOf(cp), LayerColors(2), c)
  <2>1. CellsOf(cp) \in SUBSET (Int \X Int)
      BY PlacesApart
  <2> QED
      BY <2>1, LayersAre, LayerMiddle, Zenon
<1>3. LayerShows(update[3], Filled, LayerColors(3), c)
  <2>1. Filled \in SUBSET (Int \X Int)
      BY PlacesApart
  <2> QED
      BY <2>1, LayersAre, LayerMiddle, Zenon
<1>4. MiddleOf(c, update[4]) = {}
  <2>1. \A r \in _draw_grid : ~Middle(r, c)
      BY GridMiddle
  <2> QED
      BY <2>1, LayersAre, PaintsMiddle, Zenon
<1>5. /\ MiddleOf(c, update[k]) = {Block(c, t)}
      /\ \A j \in 1..4 : j # k => MiddleOf(c, update[j]) = {}
  <2>1. CASE k = 1
    <3>1. c \in CellsOf(NextPiece) /\ c \notin CellsOf(cp) /\ c \notin Filled
        BY <2>1, PlacesApart
    <3>2. /\ MiddleOf(c, update[1]) = {Block(c, t)} /\ MiddleOf(c, update[2]) = {}
          /\ MiddleOf(c, update[3]) = {}
        BY <1>1, <1>2, <1>3, <2>1, <3>1 DEF LayerShows
    <3> QED
        BY <1>4, <2>1, <3>2
  <2>2. CASE k = 2
    <3>1. c \notin CellsOf(NextPiece) /\ c \in CellsOf(cp) /\ c \notin Filled
        BY <2>2, PlacesApart
    <3>2. /\ MiddleOf(c, update[1]) = {} /\ MiddleOf(c, update[2]) = {Block(c, t)}
          /\ MiddleOf(c, update[3]) = {}
        BY <1>1, <1>2, <1>3, <2>2, <3>1 DEF LayerShows
    <3> QED
        BY <1>4, <2>2, <3>2
  <2>3. CASE k = 3
    <3>1. c \notin CellsOf(NextPiece) /\ c \notin CellsOf(cp) /\ c \in Filled
        BY <2>3, PlacesApart
    <3>2. /\ MiddleOf(c, update[1]) = {} /\ MiddleOf(c, update[2]) = {}
          /\ MiddleOf(c, update[3]) = {Block(c, t)}
        BY <1>1, <1>2, <1>3, <2>3, <3>1 DEF LayerShows
    <3> QED
        BY <1>4, <2>3, <3>2
  <2> QED
      BY <2>1, <2>2, <2>3
<1>6. k \in 1..4
    OBVIOUS
<1> QED
  <2> DEFINE x == c[1] * BLOCK_SIZE + 1
             y == c[2] * BLOCK_SIZE + 1
  <2>1. /\ Paints(update[k], x, y) = {Block(c, t)}
        /\ \A j \in 1..4 : j # k => Paints(update[j], x, y) = {}
      BY <1>5, Zenon DEF MiddleOf
  <2>2. DOMAIN update = 1..4
      BY LayersAre, Zenon
  <2> HIDE DEF x, y
  <2>3. Seen(update, x, y, t)
      BY <1>6, <2>1, <2>2, OnlyLayer, Zenon
  <2> QED
      BY <2>3 DEF x, y

Pairs(D, u) == {<<c, u[c]>> : c \in D}
BlocksOf(D, u) == {Block(c, u[c]) : c \in D}

(* Drawing the layers draws the scene.                                      *)
LEMMA PairedBlocks ==
  \A D1, D2, D3, u1, u2, u3 :
    {Block(s[1], s[2]) : s \in Pairs(D2, u2) \cup Pairs(D3, u3) \cup Pairs(D1, u1)}
      = BlocksOf(D1, u1) \cup BlocksOf(D2, u2) \cup BlocksOf(D3, u3)
<1> SUFFICES ASSUME NEW D1, NEW D2, NEW D3, NEW u1, NEW u2, NEW u3
             PROVE  {Block(s[1], s[2]) : s \in Pairs(D2, u2) \cup Pairs(D3, u3) \cup Pairs(D1, u1)}
                      = BlocksOf(D1, u1) \cup BlocksOf(D2, u2) \cup BlocksOf(D3, u3)
    OBVIOUS
<1>1. \A D, u : \A s \in Pairs(D, u) : Block(s[1], s[2]) \in BlocksOf(D, u)
    BY DEF Pairs, BlocksOf
<1>2. \A D, u : \A r \in BlocksOf(D, u) : \E s \in Pairs(D, u) : r = Block(s[1], s[2])
  <2> SUFFICES ASSUME NEW D, NEW u, NEW r \in BlocksOf(D, u)
               PROVE  \E s \in Pairs(D, u) : r = Block(s[1], s[2])
      OBVIOUS
  <2>1. PICK c \in D : r = Block(c, u[c])
      BY Zenon DEF BlocksOf
  <2>2. <<c, u[c]>> \in Pairs(D, u) /\ <<c, u[c]>>[1] = c /\ <<c, u[c]>>[2] = u[c]
      BY DEF Pairs
  <2> QED
      BY <2>1, <2>2, Zenon
<1> DEFINE P == Pairs(D2, u2) \cup Pairs(D3, u3) \cup Pairs(D1, u1)
<1>3. \A s : s \in P <=> s \in Pairs(D1, u1) \/ s \in Pairs(D2, u2) \/ s \in Pairs(D3, u3)
    OBVIOUS
<1> HIDE DEF P
<1>4. ASSUME NEW s \in P
      PROVE  Block(s[1], s[2]) \in BlocksOf(D1, u1) \cup BlocksOf(D2, u2) \cup BlocksOf(D3, u3)
    BY <1>1, <1>3, Zenon
<1>5. ASSUME NEW r \in BlocksOf(D1, u1) \cup BlocksOf(D2, u2) \cup BlocksOf(D3, u3)
      PROVE  \E s \in P : r = Block(s[1], s[2])
  <2>1. CASE r \in BlocksOf(D1, u1)
    <3>1. PICK s \in Pairs(D1, u1) : r = Block(s[1], s[2])
        BY <1>2, <2>1
    <3>2. s \in P
        BY <1>3, Zenon
    <3> QED
        BY <3>1, <3>2, Zenon
  <2>2. CASE r \in BlocksOf(D2, u2)
    <3>1. PICK s \in Pairs(D2, u2) : r = Block(s[1], s[2])
        BY <1>2, <2>2
    <3>2. s \in P
        BY <1>3, Zenon
    <3> QED
        BY <3>1, <3>2, Zenon
  <2>3. CASE r \in BlocksOf(D3, u3)
    <3>1. PICK s \in Pairs(D3, u3) : r = Block(s[1], s[2])
        BY <1>2, <2>3
    <3>2. s \in P
        BY <1>3, Zenon
    <3> QED
        BY <3>1, <3>2, Zenon
  <2> QED
      BY <1>5, <2>1, <2>2, <2>3, Zenon
<1>6. {Block(s[1], s[2]) : s \in P} = BlocksOf(D1, u1) \cup BlocksOf(D2, u2) \cup BlocksOf(D3, u3)
    BY <1>4, <1>5, Zenon
<1> QED
    BY <1>6, Zenon DEF P

LEMMA InvShowsGame == ViewInv => ShowsGame
<1> SUFFICES ASSUME ViewInv PROVE ShowsGame
    OBVIOUS
<1>1. Coming = CellsOf(NextPiece) /\ np = next
  <2>1. NextPiece.Type = next /\ [NextPiece EXCEPT !.Type = next] = NextPiece
      BY DEF ViewInv, NextPiece
  <2> QED
      BY <2>1 DEF Coming, ViewInv
<1>2. update[1] \cup update[2] \cup update[3] = {Block(s[1], s[2]) : s \in Scene}
  <2>1. np = next
      BY DEF ViewInv
  <2>2. {<<c, PieceColor(next)>> : c \in Coming} = Pairs(CellsOf(NextPiece), LayerColors(1))
    <3>1. LayerColors(1) = [c \in CellsOf(NextPiece) |-> PieceColor(np)]
        BY DEF LayerColors
    <3>2. \A c \in CellsOf(NextPiece) : LayerColors(1)[c] = PieceColor(next)
        BY <2>1, <3>1, Zenon
    <3> QED
        BY <1>1, <3>2, Zenon DEF Pairs
  <2>3. {<<c, PieceColor(cp.Type)>> : c \in CellsOf(cp)} = Pairs(CellsOf(cp), LayerColors(2))
    <3>1. LayerColors(2) = [c \in CellsOf(cp) |-> PieceColor(cp.Type)]
        BY DEF LayerColors
    <3>2. \A c \in CellsOf(cp) : LayerColors(2)[c] = PieceColor(cp.Type)
        BY <3>1, Zenon
    <3> QED
        BY <3>2, Zenon DEF Pairs
  <2>4. {<<c, BlockColor(field[c] - 1)>> : c \in Filled} = Pairs(Filled, LayerColors(3))
    <3>1. LayerColors(3) = [c \in Filled |-> BlockColor(field[c] - 1)]
        BY DEF LayerColors
    <3>2. \A c \in Filled : LayerColors(3)[c] = BlockColor(field[c] - 1)
        BY <3>1, Zenon
    <3> QED
        BY <3>2, Zenon DEF Pairs
  <2>5. Scene = Pairs(CellsOf(cp), LayerColors(2)) \cup Pairs(Filled, LayerColors(3))
                \cup Pairs(CellsOf(NextPiece), LayerColors(1))
      BY <2>2, <2>3, <2>4, Zenon DEF Scene, Filled
  <2>6. /\ update[1] = BlocksOf(CellsOf(NextPiece), LayerColors(1))
        /\ update[2] = BlocksOf(CellsOf(cp), LayerColors(2))
        /\ update[3] = BlocksOf(Filled, LayerColors(3))
      BY LayersAre, Zenon DEF BlocksOf
  <2> QED
      BY <2>5, <2>6, PairedBlocks
<1>3. \A s \in Scene : Pixel(update, s[1][1] * BLOCK_SIZE + 1, s[1][2] * BLOCK_SIZE + 1) = {s[2]}
  <2> SUFFICES ASSUME NEW s \in Scene
               PROVE  Pixel(update, s[1][1] * BLOCK_SIZE + 1, s[1][2] * BLOCK_SIZE + 1) = {s[2]}
      OBVIOUS
  <2>1. s \in {<<c, PieceColor(next)>> : c \in CellsOf(NextPiece)} \/ s \in {<<c, PieceColor(cp.Type)>> : c \in CellsOf(cp)}
        \/ s \in {<<c, BlockColor(field[c] - 1)>> : c \in Filled}
      BY <1>1, Zenon DEF Scene, Filled
  <2>2. \E k \in 1..3 :
          /\ s[1] \in IF k = 1 THEN CellsOf(NextPiece) ELSE IF k = 2 THEN CellsOf(cp) ELSE Filled
          /\ s[2] = LayerColors(k)[s[1]]
    <3>1. CASE s \in {<<c, PieceColor(next)>> : c \in CellsOf(NextPiece)}
      <4>1. s[1] \in CellsOf(NextPiece) /\ s[2] = PieceColor(np)
          BY <1>1, <3>1
      <4>2. LayerColors(1) = [c \in CellsOf(NextPiece) |-> PieceColor(np)]
          BY DEF LayerColors
      <4> QED
          BY <4>1, <4>2
    <3>2. CASE s \in {<<c, PieceColor(cp.Type)>> : c \in CellsOf(cp)}
      <4>1. s[1] \in CellsOf(cp) /\ s[2] = PieceColor(cp.Type)
          BY <3>2
      <4>2. LayerColors(2) = [c \in CellsOf(cp) |-> PieceColor(cp.Type)]
          BY DEF LayerColors
      <4> QED
          BY <4>1, <4>2
    <3>3. CASE s \in {<<c, BlockColor(field[c] - 1)>> : c \in Filled}
      <4>1. s[1] \in Filled /\ s[2] = BlockColor(field[s[1]] - 1)
          BY <3>3
      <4>2. LayerColors(3) = [c \in Filled |-> BlockColor(field[c] - 1)]
          BY DEF LayerColors
      <4> QED
          BY <4>1, <4>2
    <3> QED
        BY <2>1, <3>1, <3>2, <3>3
  <2>3. s[1] \in Int \X Int
      BY <2>2, PlacesApart
  <2> QED
    <3>1. PICK k \in 1..3 :
            /\ s[1] \in IF k = 1 THEN CellsOf(NextPiece) ELSE IF k = 2 THEN CellsOf(cp) ELSE Filled
            /\ s[2] = LayerColors(k)[s[1]]
        BY <2>2
    <3>2. Seen(update, s[1][1] * BLOCK_SIZE + 1, s[1][2] * BLOCK_SIZE + 1, s[2])
        BY <2>3, <3>1, SceneSeen, Zenon
    <3> QED
        BY <3>2, Zenon DEF Seen
<1> QED
    BY <1>2, <1>3, InWindow, LayersAre, Zenon DEF ShowsGame

(* For every size of field and of block: whatever was drawn lies inside the *)
(* window, and every block of the field, the falling piece and the piece    *)
(* that comes next is seen, none under another or under the grid            *)
(* (tetris/main.c:149-164, 218-288, 335-341, 421).                          *)
THEOREM ShowsGameHolds == Spec => []ShowsGame
BY ViewInit, ViewStep, InvShowsGame, PTL DEF Spec
=============================================================================
