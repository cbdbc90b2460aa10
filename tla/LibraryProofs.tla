-------------------------- MODULE LibraryProofs -----------------------------
(*****************************************************************************)
(* The library of the kernel: the allocator, for every memory map and every  *)
(* sequence of requests; memmove, for every memory and every pair of         *)
(* regions; that graphics.c implements Picture, for every geometry of the    *)
(* framebuffer; and that _vsnprintf prints what the C standard says, for     *)
(* every format and all sizes of integers and buffers.                       *)
(*****************************************************************************)
EXTENDS Allocator, MemMove, Graphics, Printf, SequenceTheorems, WellFoundedInduction, TLAPS

-----------------------------------------------------------------------------
(* The allocator.                                                           *)

(* Before the heap is chosen nothing is handed out; while it is looked for, *)
(* it is the best of the entries seen.                                      *)
Untouched == i # 0 => p = 0 /\ blocks = <<>> /\ asked = 0
BestSoFar ==
  /\ \A k \in DOMAIN map : (i = 0 \/ k < i) /\ Usable(map[k]) => map[k].length <= largest
  /\ largest > 0 => \E k \in DOMAIN map :
                      Usable(map[k]) /\ map[k].base = start /\ map[k].length = largest

(* The pointer has moved from the start of the heap by no more than asked.  *)
Bounded ==
  i = 0 => /\ start <= p /\ p <= start + asked
           /\ \A k \in DOMAIN blocks : start <= blocks[k].at

Inv == TypeOK /\ Untouched /\ BestSoFar /\ Bounded /\ Disjoint /\ AlignedBlocks

(* Rounding up goes forward, by less than the alignment.                    *)
LEMMA AlignedBounds ==
  ASSUME NEW n \in Nat, NEW align \in Nat \ {0}
  PROVE  Aligned(n, align) \in Nat /\ n <= Aligned(n, align) /\ Aligned(n, align) <= n + align - 1
<1>1. n % align \in 0..align - 1
    OBVIOUS
<1> QED
    BY <1>1 DEF Aligned

(* Rounding up reaches a multiple.                                          *)
LEMMA AlignedMultiple ==
  ASSUME NEW n \in Nat, NEW align \in Nat \ {0}
  PROVE  Aligned(n, align) % align = 0
<1>1. CASE n % align = 0
    BY <1>1 DEF Aligned
<1>2. CASE n % align # 0
  <2>1. n = align * (n \div align) + (n % align) /\ n \div align \in Nat
      OBVIOUS
  <2>2. Aligned(n, align) = align * (n \div align + 1)
      BY <2>1, <1>2 DEF Aligned
  <2>3. \A q \in Nat : (align * q) % align = 0
      OBVIOUS
  <2> QED
      BY <2>1, <2>2, <2>3
<1> QED
    BY <1>1, <1>2

LEMMA MapEntry ==
  ASSUME map \in Maps, NEW k \in DOMAIN map
  PROVE  map[k].length \in Nat /\ map[k].base \in Nat /\ k \in 1..Len(map)
<1>1. map \in Seq(Entry)
    BY MapsAssumption
<1>2. map[k] \in Entry /\ k \in 1..Len(map)
    BY <1>1
<1> QED
    BY <1>2 DEF Entry

LEMMA InitInv == Init => Inv
<1> SUFFICES ASSUME Init PROVE Inv
    OBVIOUS
<1>1. map \in Seq(Entry) /\ Len(map) \in Nat
    BY MapsAssumption DEF Init
<1>2. blocks \in Seq(Block) /\ DOMAIN blocks = {}
    BY DEF Init
<1>3. TypeOK
    BY <1>1, <1>2 DEF Init, TypeOK
<1>4. BestSoFar
  <2>1. \A k \in DOMAIN map : ~(i = 0 \/ k < i)
      BY MapEntry DEF Init
  <2> QED
      BY <2>1 DEF Init, BestSoFar
<1> QED
    BY <1>2, <1>3, <1>4 DEF Inv, Untouched, Bounded, Disjoint, AlignedBlocks, Init

LEMMA ScanStep == Inv /\ ScanEntry => Inv'
<1> SUFFICES ASSUME Inv, ScanEntry PROVE Inv'
    OBVIOUS
<1>1. /\ i \in DOMAIN map /\ i' = i + 1 /\ map' = map
      /\ p' = p /\ blocks' = blocks /\ asked' = asked
    BY DEF ScanEntry
<1>2. map \in Maps /\ map \in Seq(Entry) /\ Len(map) \in Nat
    BY MapsAssumption DEF Inv, TypeOK
<1>3. i \in 1..Len(map) /\ map[i].length \in Nat /\ map[i].base \in Nat
    BY <1>1, <1>2, MapEntry
<1>4. i # 0 /\ i' # 0 /\ i' \in 0..Len(map) + 1
    BY <1>1, <1>2, <1>3
<1>5. start' \in Nat /\ largest' \in Nat /\ largest <= largest'
    BY <1>3 DEF Inv, TypeOK, ScanEntry, Better
<1>6. TypeOK'
    BY <1>1, <1>4, <1>5 DEF Inv, TypeOK
<1>7. Untouched' /\ Bounded' /\ Disjoint' /\ AlignedBlocks'
    BY <1>1, <1>4 DEF Inv, Untouched, Bounded, Disjoint, AlignedBlocks
<1>8. ASSUME NEW k \in DOMAIN map, k < i', Usable(map[k]) PROVE map[k].length <= largest'
  <2>1. map[k].length \in Nat /\ k \in 1..Len(map)
      BY <1>2, MapEntry
  <2>2. CASE k < i
      BY <2>1, <2>2, <1>5, <1>8 DEF Inv, TypeOK, BestSoFar
  <2>3. CASE k = i
      BY <2>3, <1>8, <1>3 DEF Inv, TypeOK, ScanEntry, Better, Usable
  <2> QED
      BY <2>1, <2>2, <2>3, <1>1, <1>3, <1>8
<1>9. ASSUME largest' > 0
      PROVE  \E k \in DOMAIN map :
               Usable(map[k]) /\ map[k].base = start' /\ map[k].length = largest'
  <2>1. CASE Better(map[i])
      BY <2>1, <1>1, <1>3, SMTT(60) DEF Inv, TypeOK, ScanEntry, Better, Usable
  <2>2. CASE ~Better(map[i])
      BY <2>2, <1>9 DEF Inv, BestSoFar, ScanEntry
  <2> QED
      BY <2>1, <2>2
<1>10. BestSoFar'
    BY <1>1, <1>4, <1>8, <1>9 DEF BestSoFar
<1> QED
    BY <1>6, <1>7, <1>10 DEF Inv

LEMMA StartStep == Inv /\ StartAllocator => Inv'
<1> SUFFICES ASSUME Inv, StartAllocator PROVE Inv'
    OBVIOUS
<1>1. /\ i = Len(map) + 1 /\ i' = 0 /\ p' = start /\ map' = map
      /\ start' = start /\ largest' = largest /\ blocks' = blocks /\ asked' = asked
    BY DEF StartAllocator
<1>2. map \in Maps /\ map \in Seq(Entry) /\ Len(map) \in Nat
    BY MapsAssumption DEF Inv, TypeOK
<1>3. blocks = <<>> /\ asked = 0
    BY <1>1, <1>2 DEF Inv, Untouched
<1>4. DOMAIN blocks = {}
    BY <1>3
<1>5. TypeOK'
    BY <1>1, <1>2, <1>4 DEF Inv, TypeOK
<1>6. Untouched' /\ Bounded' /\ Disjoint' /\ AlignedBlocks'
    BY <1>1, <1>3, <1>4 DEF Inv, TypeOK, Untouched, Bounded, Disjoint, AlignedBlocks
<1>7. \A k \in DOMAIN map : k < i
    BY <1>1, <1>2
<1>8. BestSoFar'
    BY <1>1, <1>7 DEF Inv, BestSoFar
<1> QED
    BY <1>5, <1>6, <1>8 DEF Inv

LEMMA MallocStep ==
  ASSUME Inv, NEW size \in Nat, NEW align \in Nat \ {0}, malloc_align(size, align)
  PROVE  Inv'
<1> DEFINE ret == Aligned(p, align)
           block == [at |-> ret, size |-> size, align |-> align]
<1>1. p \in Nat /\ blocks \in Seq(Block) /\ asked \in Nat /\ start \in Nat
    BY DEF Inv, TypeOK
<1>2. ret \in Nat /\ p <= ret /\ ret <= p + align - 1
    BY <1>1, AlignedBounds
<1>3. block \in Block /\ block.at = ret /\ block.size = size
    BY <1>2 DEF Block
<1> HIDE DEF ret, block
<1>4. /\ i = 0 /\ p' = ret + size /\ blocks' = Append(blocks, block)
      /\ asked' = asked + size + align - 1 /\ UNCHANGED scan
    BY DEF malloc_align, ret, block
<1>5. /\ blocks' \in Seq(Block) /\ DOMAIN blocks' = 1..Len(blocks) + 1
      /\ blocks'[Len(blocks) + 1] = block
      /\ \A k \in 1..Len(blocks) : blocks'[k] = blocks[k]
      /\ DOMAIN blocks = 1..Len(blocks) /\ Len(blocks) \in Nat
    BY <1>1, <1>3, <1>4
<1>6. ASSUME NEW k \in 1..Len(blocks) PROVE blocks[k].at \in Nat /\ blocks[k].size \in Nat
  <2>1. blocks[k] \in Block
      BY <1>1
  <2> QED
      BY <2>1 DEF Block
<1>7. \A k \in 1..Len(blocks) : blocks[k].at + blocks[k].size <= p
    BY <1>5 DEF Inv, TypeOK
<1>8. \A k \in DOMAIN blocks' : blocks'[k].at + blocks'[k].size <= p'
  <2> SUFFICES ASSUME NEW k \in DOMAIN blocks' PROVE blocks'[k].at + blocks'[k].size <= p'
      OBVIOUS
  <2>1. CASE k = Len(blocks) + 1
      BY <2>1, <1>1, <1>2, <1>3, <1>4, <1>5
  <2>2. CASE k \in 1..Len(blocks)
      BY <2>2, <1>1, <1>2, <1>4, <1>5, <1>6, <1>7
  <2> QED
      BY <2>1, <2>2, <1>5
<1>9. TypeOK'
    BY <1>1, <1>2, <1>4, <1>5, <1>8 DEF Inv, TypeOK, scan
<1>10. Disjoint'
  <2> SUFFICES ASSUME NEW j \in DOMAIN blocks', NEW k \in DOMAIN blocks', j < k
               PROVE  blocks'[j].at + blocks'[j].size <= blocks'[k].at
      BY DEF Disjoint
  <2>1. j \in 1..Len(blocks)
      BY <1>5
  <2>2. CASE k = Len(blocks) + 1
      BY <2>1, <2>2, <1>1, <1>2, <1>3, <1>5, <1>6, <1>7, SMTT(60)
  <2>3. CASE k \in 1..Len(blocks)
      BY <2>1, <2>3, <1>5 DEF Inv, Disjoint
  <2> QED
      BY <2>2, <2>3, <1>5
<1>11. Untouched' /\ BestSoFar'
    BY <1>4 DEF Inv, Untouched, BestSoFar, scan
<1>12. Bounded'
  <2>1. /\ start' = start /\ start <= p /\ p <= start + asked
        /\ \A k \in 1..Len(blocks) : start <= blocks[k].at
      BY <1>4, <1>5 DEF Inv, Bounded, scan
  <2>2. start <= ret /\ start <= p' /\ p' <= start + asked'
      BY <2>1, <1>1, <1>2, <1>4
  <2>3. \A k \in DOMAIN blocks' : start <= blocks'[k].at
      BY <2>1, <2>2, <1>3, <1>5
  <2> QED
      BY <2>1, <2>2, <2>3 DEF Bounded
<1>13. AlignedBlocks'
  <2> SUFFICES ASSUME NEW k \in DOMAIN blocks' PROVE blocks'[k].at % blocks'[k].align = 0
      BY DEF AlignedBlocks
  <2>1. CASE k = Len(blocks) + 1
    <3>1. block.at % block.align = 0
        BY <1>1, AlignedMultiple DEF block, ret
    <3> QED
        BY <2>1, <3>1, <1>5
  <2>2. CASE k \in 1..Len(blocks)
      BY <2>2, <1>5 DEF Inv, AlignedBlocks
  <2> QED
      BY <2>1, <2>2, <1>5
<1> QED
    BY <1>9, <1>10, <1>11, <1>12, <1>13 DEF Inv

LEMMA StepInv == Inv /\ [Next]_vars => Inv'
<1> SUFFICES ASSUME Inv, [Next]_vars PROVE Inv'
    OBVIOUS
<1>1. CASE ScanEntry
    BY <1>1, ScanStep
<1>2. CASE StartAllocator
    BY <1>2, StartStep
<1>3. CASE \E r \in Requests : malloc_align(r[1], r[2])
  <2>1. PICK r \in Requests : malloc_align(r[1], r[2])
      BY <1>3
  <2>2. r[1] \in Nat /\ r[2] \in Nat \ {0}
      BY RequestsAssumption
  <2> QED
      BY <2>1, <2>2, MallocStep
<1>4. CASE UNCHANGED vars
    BY <1>4 DEF Inv, TypeOK, Untouched, BestSoFar, Bounded, Disjoint, AlignedBlocks, vars, scan
<1> QED
    BY <1>1, <1>2, <1>3, <1>4 DEF Next

LEMMA InvHeap == Inv => InsideHeap
<1> SUFFICES ASSUME Inv, asked <= largest, NEW k \in DOMAIN blocks
             PROVE  start <= blocks[k].at /\ blocks[k].at + blocks[k].size <= start + largest
    BY DEF InsideHeap
<1>1. blocks \in Seq(Block) /\ blocks[k] \in Block /\ blocks # <<>>
    BY DEF Inv, TypeOK
<1>2. i = 0
    BY <1>1 DEF Inv, Untouched
<1>3. start <= blocks[k].at /\ p <= start + asked /\ blocks[k].at + blocks[k].size <= p
    BY <1>2 DEF Inv, TypeOK, Bounded
<1>4. /\ blocks[k].at \in Nat /\ blocks[k].size \in Nat
      /\ p \in Nat /\ start \in Nat /\ asked \in Nat /\ largest \in Nat
    BY <1>1 DEF Inv, TypeOK, Block
<1> QED
    BY <1>3, <1>4

(* Blocks handed out never overlap, for every memory map, every size and    *)
(* every alignment (stdlib.c:16-31).                                        *)
THEOREM BlocksDisjoint == Spec => []Disjoint
<1>1. Inv => Disjoint
    BY DEF Inv
<1> QED
    BY <1>1, InitInv, StepInv, PTL DEF Spec

(* Every block has the alignment it was asked with.                         *)
THEOREM BlocksAligned == Spec => []AlignedBlocks
<1>1. Inv => AlignedBlocks
    BY DEF Inv
<1> QED
    BY <1>1, InitInv, StepInv, PTL DEF Spec

(* pmm_init takes a longest usable entry of every memory map                *)
(* (cpu.c:393-414).                                                         *)
THEOREM LargestChosen == Spec => []HeapIsLargest
<1>1. Inv => HeapIsLargest
    BY DEF Inv, BestSoFar, HeapIsLargest
<1> QED
    BY <1>1, InitInv, StepInv, PTL DEF Spec

(* Requests that add up to no more than the heap, padding included, are all *)
(* met inside it.                                                           *)
THEOREM BlocksInsideHeap == Spec => []InsideHeap
  BY InitInv, StepInv, InvHeap, PTL DEF Spec

-----------------------------------------------------------------------------
(* memmove.                                                                 *)

MoveInv == MoveTypeOK /\ PartlyMoved

LEMMA MoveInitial == MoveInit => MoveInv
  BY SizeAssumption DEF MoveInit, MoveInv, MoveTypeOK, PartlyMoved, Copied, Places

(* A step copies a byte that no earlier step has written.                   *)
LEMMA MoveStep == MoveInv /\ [MoveNext]_move => MoveInv'
<1> SUFFICES ASSUME MoveInv, [MoveNext]_move PROVE MoveInv'
    OBVIOUS
<1>1. CASE CopyByte
  <2>1. /\ left > 0 /\ left' = left - 1
        /\ memory' = [memory EXCEPT ![dest + Offset] = memory[src + Offset]]
        /\ dest' = dest /\ src' = src /\ len' = len /\ original' = original
      BY <1>1 DEF CopyByte, arguments
  <2>2. /\ Offset \in 0..len - 1
        /\ dest + Offset \in Places /\ src + Offset \in Places
      BY <2>1, SizeAssumption DEF MoveInv, MoveTypeOK, Offset, Places
  <2>3. MoveTypeOK'
    <3>1. memory' \in [Places -> Values]
        BY <2>1, <2>2 DEF MoveInv, MoveTypeOK
    <3> QED
        BY <2>1, <3>1, SizeAssumption DEF MoveInv, MoveTypeOK
  <2>4. \A k \in 0..len - 1 : k \in Copied' <=> k \in Copied \/ k = Offset
      BY <2>1, SizeAssumption DEF MoveInv, MoveTypeOK, Copied, Offset
  <2>5. Copied \subseteq 0..len - 1 /\ Copied' \subseteq 0..len - 1 /\ Offset \notin Copied
      BY <2>1, SizeAssumption DEF MoveInv, MoveTypeOK, Copied, Offset
  <2>6. \A k \in Copied : src + Offset # dest + k
      BY <2>1, <2>2, SizeAssumption DEF MoveInv, MoveTypeOK, Copied, Offset
  <2>7. memory[src + Offset] = original[src + Offset]
      BY <2>2, <2>6 DEF MoveInv, PartlyMoved
  <2>8. ASSUME NEW k \in Copied' PROVE memory'[dest' + k] = original'[src' + k]
    <3>1. CASE k = Offset
        BY <3>1, <2>1, <2>2, <2>7 DEF MoveInv, MoveTypeOK
    <3>2. CASE k # Offset
      <4>1. k \in Copied /\ k \in 0..len - 1
          BY <3>2, <2>4, <2>5, <2>8
      <4>2. dest + k \in Places /\ dest + k # dest + Offset
          BY <4>1, <3>2, <2>2, SizeAssumption DEF MoveInv, MoveTypeOK, Places
      <4> QED
          BY <4>1, <4>2, <2>1, <2>2 DEF MoveInv, MoveTypeOK, PartlyMoved
    <3> QED
        BY <3>1, <3>2
  <2>9. ASSUME NEW a \in Places, \A k \in Copied' : a # dest' + k
        PROVE  memory'[a] = original'[a]
    <3>1. a # dest + Offset /\ \A k \in Copied : a # dest + k
        BY <2>1, <2>2, <2>4, <2>5, <2>9
    <3> QED
        BY <3>1, <2>1, <2>2 DEF MoveInv, MoveTypeOK, PartlyMoved
  <2> QED
      BY <2>3, <2>8, <2>9 DEF MoveInv, PartlyMoved, Places
<1>2. CASE UNCHANGED move
    BY <1>2 DEF MoveInv, MoveTypeOK, PartlyMoved, Copied, move, arguments
<1> QED
    BY <1>1, <1>2 DEF MoveNext

LEMMA InvMoved == MoveInv => Moved
<1> SUFFICES ASSUME MoveInv, left = 0 PROVE Moved
    BY DEF Moved
<1>1. Copied = 0..len - 1
    BY SizeAssumption DEF MoveInv, MoveTypeOK, Copied
<1>2. \A a \in Places \ (dest..dest + len - 1) : \A k \in 0..len - 1 : a # dest + k
    BY SizeAssumption DEF MoveInv, MoveTypeOK, Places
<1> QED
    BY <1>1, <1>2 DEF MoveInv, PartlyMoved, Moved

(* The loop invariant: no byte is overwritten before it is copied.          *)
THEOREM MemMoveLoop == MoveSpec => []PartlyMoved
<1>1. MoveInv => PartlyMoved
    BY DEF MoveInv
<1> QED
    BY <1>1, MoveInitial, MoveStep, PTL DEF MoveSpec

(* When the loop of memmove ends, the destination holds what the source     *)
(* held at the call, however the regions overlap, and all else is as it was *)
(* (string.c:49-71).                                                        *)
THEOREM MemMoveMoves == MoveSpec => []Moved
  BY MoveInitial, MoveStep, InvMoved, PTL DEF MoveSpec

-----------------------------------------------------------------------------
(* Graphics.                                                                *)

(* Induction up to a number, over a set instead of a predicate.             *)
LEMMA Induct ==
  ASSUME NEW L \in Nat, NEW S, 0 \in S, \A n \in 1..L : n - 1 \in S => n \in S
  PROVE  \A n \in 0..L : n \in S
<1> SUFFICES ASSUME NEW z \in 0..L, z \notin S PROVE FALSE
    OBVIOUS
<1> DEFINE T == {n \in 0..L : n \notin S}
           R == {ss \in Nat \X Nat : ss[1] < ss[2]}
<1>1. T \subseteq Nat /\ T # {}
    OBVIOUS
<1>2. IsWellFoundedOn(R, Nat)
    BY NatLessThanWellFounded DEF OpToRel
<1> HIDE DEF R, T
<1>3. PICK m \in T : \A k \in T : ~(<<k, m>> \in R)
    BY <1>1, <1>2, WFMin, Zenon
<1>4. m \in 1..L /\ m - 1 \in 0..L
    BY <1>3 DEF T
<1>5. <<m - 1, m>> \in R
    BY <1>4 DEF R
<1> QED
  <2>1. m - 1 \notin T
      BY <1>3, <1>5, Zenon
  <2> QED
      BY <1>3, <1>4, <2>1 DEF T

(* The pixels that are seen, and where they lie.                           *)
Pixel == (0..GraphicsWidth - 1) \X (0..GraphicsHeight - 1)
Place(x, y) == y * Pitch + x

LEMMA PlaceIs ==
  ASSUME NEW x \in 0..Pitch - 1, NEW y \in 0..GraphicsHeight - 1
  PROVE  /\ Place(x, y) \in Offsets
         /\ Place(x, y) % Pitch = x
<1>1. Pitch \in Nat /\ Pitch > 0 /\ GraphicsHeight \in Nat /\ x \in Nat /\ y \in Nat
    BY GraphicsAssumption
<1>2. y * Pitch \in Nat /\ y * Pitch <= (GraphicsHeight - 1) * Pitch
    BY <1>1
<1>3. (GraphicsHeight - 1) * Pitch = Pitch * GraphicsHeight - Pitch
    BY <1>1
<1>4. Place(x, y) \in Offsets
    BY <1>1, <1>2, <1>3 DEF Offsets, Place
<1>5. Place(x, y) % Pitch = x
    BY <1>1 DEF Place
<1> QED
    BY <1>4, <1>5

OnePlace(x, y, u, v) == Place(x, y) = Place(u, v) <=> x = u /\ y = v

LEMMA PlaceInjective ==
  ASSUME NEW x \in 0..Pitch - 1, NEW y \in 0..GraphicsHeight - 1,
         NEW u \in 0..Pitch - 1, NEW v \in 0..GraphicsHeight - 1
  PROVE  OnePlace(x, y, u, v)
<1> SUFFICES ASSUME Place(x, y) = Place(u, v) PROVE x = u /\ y = v
    BY DEF OnePlace
<1>1. x = u
    BY PlaceIs, Zenon
<1>2. Pitch \in Nat /\ Pitch > 0 /\ x \in Nat /\ y \in Nat /\ v \in Nat
    BY GraphicsAssumption
<1>3. y * Pitch = v * Pitch
    BY <1>1, <1>2 DEF Place
<1> QED
    BY <1>1, <1>2, <1>3

Picturable == Pixels = [o \in Offsets |-> Pixels[o]]

(* What k rows of a rectangle leave.                                        *)
Painted(fb, x, y, w, k, color) ==
  [o \in Offsets |->
     IF \E r \in 0..k - 1 : o \in Place(x, y) + r * Pitch..Place(x, y) + r * Pitch + w - 1
     THEN color ELSE fb[o]]
RectRow(fb, x, y, w, color, f, k) ==
  IF k = 0 THEN fb ELSE memset32(f[k - 1], RowBelow(Place(x, y), k - 1), color, w)

RowPaints(fb, x, y, w, k, color) ==
  memset32(Painted(fb, x, y, w, k - 1, color), RowBelow(Place(x, y), k - 1), color, w)
    = Painted(fb, x, y, w, k, color)

LEMMA PaintedRow ==
  ASSUME NEW fb, NEW x, NEW y, NEW w, NEW color, NEW k \in Nat \ {0}
  PROVE  RowPaints(fb, x, y, w, k, color)
<1> DEFINE At(o, r) == o \in Place(x, y) + r * Pitch..Place(x, y) + r * Pitch + w - 1
           g == Painted(fb, x, y, w, k - 1, color)
<1>1. RowBelow(Place(x, y), k - 1) = Place(x, y) + (k - 1) * Pitch
    BY DEF RowBelow
<1>2. ASSUME NEW o \in Offsets
      PROVE  (IF At(o, k - 1) THEN color ELSE g[o]) = IF \E r \in 0..k - 1 : At(o, r) THEN color ELSE fb[o]
  <2>1. g[o] = IF \E r \in 0..(k - 1) - 1 : At(o, r) THEN color ELSE fb[o]
      BY DEF Painted
  <2> HIDE DEF At, g
  <2>2. \A r : r \in 0..k - 1 <=> r \in 0..(k - 1) - 1 \/ r = k - 1
      OBVIOUS
  <2> QED
      BY <2>1, <2>2
<1> QED
    BY <1>1, <1>2 DEF memset32, Painted, RowPaints

AllPainted(fb, x, y, w, h, color, t) == t[h] = Painted(fb, x, y, w, h, color)
LEMMA RowsExist ==
  ASSUME NEW fb, fb = [o \in Offsets |-> fb[o]], NEW x \in Nat, NEW y \in Nat, NEW w \in Nat,
         NEW h \in Nat, NEW color,
         NEW t, t = CHOOSE f : f = [k \in 0..h |-> RectRow(fb, x, y, w, color, f, k)]
  PROVE  AllPainted(fb, x, y, w, h, color, t)
<1> DEFINE f == [k \in 0..h |-> Painted(fb, x, y, w, k, color)]
<1>1. ASSUME NEW k \in 0..h PROVE f[k] = RectRow(fb, x, y, w, color, f, k)
  <2>1. CASE k = 0
    <3>1. \A r : ~(r \in 0..0 - 1)
        OBVIOUS
    <3>2. Painted(fb, x, y, w, 0, color) = [o \in Offsets |-> fb[o]]
        BY <3>1 DEF Painted
    <3> QED
        BY <2>1, <3>2 DEF RectRow
  <2>2. CASE k # 0
    <3>1. k \in Nat \ {0} /\ k - 1 \in 0..h
        BY <2>2
    <3>2. f[k - 1] = Painted(fb, x, y, w, k - 1, color) /\ f[k] = Painted(fb, x, y, w, k, color)
        BY <3>1
    <3>3. RowPaints(fb, x, y, w, k, color)
        BY <3>1, PaintedRow, Zenon
    <3> HIDE DEF f
    <3> QED
        BY <2>2, <3>2, <3>3, Zenon DEF RectRow, RowPaints
  <2> QED
      BY <2>1, <2>2
<1>2. f = [k \in 0..h |-> RectRow(fb, x, y, w, color, f, k)]
    BY <1>1
<1> HIDE DEF f
<1>3. t = [k \in 0..h |-> RectRow(fb, x, y, w, color, t, k)]
    BY <1>2, Zenon
<1> DEFINE S == {k \in 0..h : t[k] = Painted(fb, x, y, w, k, color)}
<1>4. \A k \in 0..h : t[k] = RectRow(fb, x, y, w, color, t, k)
    BY <1>3
<1>5. 0 \in S
  <2>1. 0 \in 0..h
      OBVIOUS
  <2>2. \A r : ~(r \in 0..0 - 1)
      OBVIOUS
  <2>3. Painted(fb, x, y, w, 0, color) = [o \in Offsets |-> fb[o]]
      BY <2>2 DEF Painted
  <2>4. t[0] = fb
      BY <2>1, <1>4 DEF RectRow
  <2> QED
      BY <2>1, <2>3, <2>4
<1>6. ASSUME NEW k \in 1..h, k - 1 \in S PROVE k \in S
  <2>1. k \in 0..h /\ k \in Nat \ {0} /\ k # 0
      OBVIOUS
  <2>2. t[k - 1] = Painted(fb, x, y, w, k - 1, color)
      BY <1>6
  <2>3. t[k] = memset32(t[k - 1], RowBelow(Place(x, y), k - 1), color, w)
      BY <1>4, <2>1, Zenon DEF RectRow
  <2>4. RowPaints(fb, x, y, w, k, color)
      BY <2>1, PaintedRow, Zenon
  <2>5. t[k] = Painted(fb, x, y, w, k, color)
      BY <2>2, <2>3, <2>4, Zenon DEF RowPaints
  <2> QED
      BY <2>1, <2>5
<1> HIDE DEF S
<1>7. \A k \in 0..h : k \in S
    BY <1>5, <1>6, Induct
<1>8. h \in 0..h
    OBVIOUS
<1> QED
    BY <1>7, <1>8 DEF S, AllPainted

LEMMA RectPaints ==
  ASSUME Picturable, NEW x \in Nat, NEW y \in Nat, NEW w \in Nat, NEW h \in Nat, NEW color,
         graphics_rect(x, y, w, h, color)
  PROVE  Pixels' = Painted(Pixels, x, y, w, h, color)
<1> DEFINE t == CHOOSE f : f = [k \in 0..h |-> RectRow(Pixels, x, y, w, color, f, k)]
<1>1. Pixels' = t[h]
    BY DEF graphics_rect, RectRow, Place
<1> HIDE DEF t
<1>2. t = CHOOSE f : f = [k \in 0..h |-> RectRow(Pixels, x, y, w, color, f, k)]
    BY DEF t
<1>3. Pixels = [o \in Offsets |-> Pixels[o]]
    BY DEF Picturable
<1>4. AllPainted(Pixels, x, y, w, h, color, t)
    BY <1>2, <1>3, RowsExist, Zenon
<1> QED
    BY <1>1, <1>4, Zenon DEF AllPainted

(* The place j to the right of and r below another.                         *)
IsBeside(x, y, j, r) ==
  /\ RowBelow(Place(x, y), r) + j = Place(x + j, y + r)
  /\ Place(x, y) + r * Pitch + j = Place(x + j, y + r)
  /\ Place(x, y) \in Nat /\ r * Pitch \in Nat

LEMMA PlaceBeside ==
  ASSUME NEW x \in Nat, NEW y \in Nat, NEW j \in Nat, NEW r \in Nat
  PROVE  IsBeside(x, y, j, r)
<1>1. (y + r) * Pitch = y * Pitch + r * Pitch /\ y * Pitch \in Nat /\ r * Pitch \in Nat
    BY GraphicsAssumption
<1> QED
    BY <1>1 DEF Place, RowBelow, IsBeside

InRow(o, x, y, w, r) == o \in Place(x, y) + r * Pitch..Place(x, y) + r * Pitch + w - 1

RowIs(o, x, y, w, r) == InRow(o, x, y, w, r) <=> \E j \in 0..w - 1 : o = Place(x + j, y + r)

LEMMA RowOf ==
  ASSUME NEW x \in Nat, NEW y \in Nat, NEW w \in Nat, NEW r \in Nat, NEW o
  PROVE  RowIs(o, x, y, w, r)
<1>1. Place(x, y) \in Nat /\ r * Pitch \in Nat
  <2>1. IsBeside(x, y, 0, r)
      BY PlaceBeside
  <2> QED
      BY <2>1 DEF IsBeside
<1>2. ASSUME InRow(o, x, y, w, r) PROVE \E j \in 0..w - 1 : o = Place(x + j, y + r)
  <2> DEFINE a == Place(x, y)
             b == r * Pitch
             j == o - (a + b)
  <2>1. o \in a + b..a + b + w - 1
      BY <1>2 DEF InRow
  <2>2. j \in 0..w - 1 /\ o = a + b + j
    <3> HIDE DEF a, b
    <3> QED
        BY <1>1, <2>1 DEF a, b
  <2>3. a + b + j = Place(x + j, y + r)
    <3>1. IsBeside(x, y, j, r)
      <4>1. j \in Nat
          BY <2>2
      <4> QED
          BY <4>1, PlaceBeside, Zenon
    <3> QED
        BY <2>2, <3>1 DEF IsBeside
  <2> QED
      BY <2>2, <2>3
<1>3. ASSUME NEW j \in 0..w - 1, o = Place(x + j, y + r) PROVE InRow(o, x, y, w, r)
  <2>1. o = Place(x, y) + r * Pitch + j
    <3>1. IsBeside(x, y, j, r)
      <4>1. j \in Nat
          OBVIOUS
      <4> QED
          BY <4>1, PlaceBeside, Zenon
    <3> QED
        BY <1>3, <3>1 DEF IsBeside
  <2> QED
      BY <1>1, <2>1 DEF InRow
<1> QED
    BY <1>2, <1>3 DEF RowIs

(* A rectangle that lies in the picture covers the pixels of its box and    *)
(* nothing between the rows.                                                *)
Inside(x, y, w, h) == x + w <= GraphicsWidth /\ y + h <= GraphicsHeight

LEMMA BoxCovers ==
  ASSUME NEW x \in Nat, NEW y \in Nat, NEW w \in Nat, NEW h \in Nat, Inside(x, y, w, h)
  PROVE  /\ \A j \in 0..w - 1, r \in 0..h - 1 :
              /\ x + j \in 0..GraphicsWidth - 1 /\ x + j \in 0..Pitch - 1
              /\ y + r \in 0..GraphicsHeight - 1
              /\ j \in Nat /\ r \in Nat
         /\ \A j \in 0..w - 1, r \in 0..h - 1, q \in Pixel : OnePlace(q[1], q[2], x + j, y + r)
         /\ \A j \in 0..w - 1, r \in 0..h - 1 : Place(x + j, y + r) % Pitch < GraphicsWidth
<1>1. ASSUME NEW j \in 0..w - 1, NEW r \in 0..h - 1
      PROVE  /\ x + j \in 0..GraphicsWidth - 1 /\ x + j \in 0..Pitch - 1
             /\ y + r \in 0..GraphicsHeight - 1
             /\ j \in Nat /\ r \in Nat
    BY GraphicsAssumption DEF Inside
<1>2. ASSUME NEW j \in 0..w - 1, NEW r \in 0..h - 1, NEW q \in Pixel
      PROVE  OnePlace(q[1], q[2], x + j, y + r)
  <2>1. q[1] \in 0..Pitch - 1 /\ q[2] \in 0..GraphicsHeight - 1
      BY GraphicsAssumption DEF Pixel
  <2> QED
      BY <1>1, <2>1, PlaceInjective, Zenon
<1>3. ASSUME NEW j \in 0..w - 1, NEW r \in 0..h - 1
      PROVE  Place(x + j, y + r) % Pitch < GraphicsWidth
  <2>1. Place(x + j, y + r) % Pitch = x + j
      BY <1>1, PlaceIs, Zenon
  <2>2. x + j < GraphicsWidth
      BY <1>1, GraphicsAssumption
  <2> QED
      BY <2>1, <2>2, Zenon
<1> QED
    BY <1>1, <1>2, <1>3, Zenon

PaintedAt(o, x, y, w, h) == \E r \in 0..h - 1 : InRow(o, x, y, w, r)

LEMMA RectCovers ==
  ASSUME NEW x \in Nat, NEW y \in Nat, NEW w \in Nat, NEW h \in Nat, Inside(x, y, w, h)
  PROVE  /\ \A q \in Pixel : PaintedAt(Place(q[1], q[2]), x, y, w, h) <=> q \in Shown!Box(x, y, w, h)
         /\ \A o \in Offsets : PaintedAt(o, x, y, w, h) => o % Pitch < GraphicsWidth
<1>1. \A r \in 0..h - 1 : \A o : InRow(o, x, y, w, r) <=> \E j \in 0..w - 1 : o = Place(x + j, y + r)
  <2>1. ASSUME NEW r \in 0..h - 1, NEW o PROVE RowIs(o, x, y, w, r)
    <3>1. r \in Nat
        OBVIOUS
    <3> QED
        BY <3>1, RowOf, Zenon
  <2> QED
      BY <2>1, Zenon DEF RowIs
<1>2. ASSUME NEW q \in Pixel
      PROVE  PaintedAt(Place(q[1], q[2]), x, y, w, h) <=> q \in Shown!Box(x, y, w, h)
  <2> DEFINE o == Place(q[1], q[2])
  <2>1. q = <<q[1], q[2]>> /\ q[1] \in Nat /\ q[2] \in Nat
      BY GraphicsAssumption DEF Pixel
  <2>2. ASSUME NEW r \in 0..h - 1, NEW j \in 0..w - 1
        PROVE  o = Place(x + j, y + r) <=> q[1] = x + j /\ q[2] = y + r
    <3>1. OnePlace(q[1], q[2], x + j, y + r)
        BY BoxCovers, Zenon
    <3> QED
        BY <3>1, Zenon DEF OnePlace
  <2> HIDE DEF o
  <2>3. ASSUME PaintedAt(o, x, y, w, h) PROVE q \in Shown!Box(x, y, w, h)
    <3>1. PICK r \in 0..h - 1 : \E j \in 0..w - 1 : o = Place(x + j, y + r)
        BY <1>1, <2>3, Zenon DEF PaintedAt
    <3>2. PICK j \in 0..w - 1 : o = Place(x + j, y + r)
        BY <3>1
    <3>3. q[1] = x + j /\ q[2] = y + r
        BY <2>2, <3>2, Zenon
    <3> QED
        BY <2>1, <3>3 DEF Shown!Box
  <2>4. ASSUME q \in Shown!Box(x, y, w, h) PROVE PaintedAt(o, x, y, w, h)
    <3> DEFINE r == q[2] - y
               j == q[1] - x
    <3>1. r \in 0..h - 1 /\ j \in 0..w - 1 /\ q[1] = x + j /\ q[2] = y + r
        BY <2>1, <2>4 DEF Shown!Box
    <3> HIDE DEF r, j
    <3> QED
        BY <1>1, <2>2, <3>1, ZenonT(60) DEF PaintedAt
  <2> QED
      BY <2>3, <2>4 DEF o
<1>3. ASSUME NEW o \in Offsets, PaintedAt(o, x, y, w, h) PROVE o % Pitch < GraphicsWidth
  <2>1. PICK r \in 0..h - 1 : \E j \in 0..w - 1 : o = Place(x + j, y + r)
      BY <1>1, <1>3, Zenon DEF PaintedAt
  <2>2. PICK j \in 0..w - 1 : o = Place(x + j, y + r)
      BY <2>1
  <2> QED
      BY <2>2, BoxCovers, Zenon
<1> QED
    BY <1>2, <1>3

LEMMA VisibleAt ==
  ASSUME NEW q \in Pixel
  PROVE  /\ q \in DOMAIN Visible /\ Visible[q] = Pixels[Place(q[1], q[2])]
         /\ q \in DOMAIN Visible' /\ Visible'[q] = Pixels'[Place(q[1], q[2])]
         /\ Place(q[1], q[2]) \in Offsets
<1>1. q[1] \in 0..Pitch - 1 /\ q[2] \in 0..GraphicsHeight - 1
    BY GraphicsAssumption DEF Pixel
<1>2. Place(q[1], q[2]) \in Offsets
    BY <1>1, PlaceIs, Zenon
<1> QED
    BY <1>2 DEF Visible, Place, Pixel

(* A call that changes only pixels, each to what the picture shows there.   *)
Leaves(picture) == Between' = Between /\ Visible' = [q \in DOMAIN Visible |-> picture[q]]

LEMMA Repainted ==
  ASSUME NEW new, Pixels' = [o \in Offsets |-> new[o]],
         \A o \in Offsets : o % Pitch >= GraphicsWidth => new[o] = Pixels[o],
         NEW picture, \A q \in Pixel : new[Place(q[1], q[2])] = picture[q]
  PROVE  Leaves(picture)
<1>1. Between' = Between
    BY DEF Between
<1>2. DOMAIN Visible = Pixel
    BY DEF Visible, Pixel
<1>3. Visible' = [q \in Pixel |-> Pixels'[Place(q[1], q[2])]]
    BY DEF Visible, Place, Pixel
<1>4. \A q \in Pixel : Pixels'[Place(q[1], q[2])] = picture[q]
    BY VisibleAt
<1> QED
    BY <1>1, <1>2, <1>3, <1>4 DEF Leaves

LEMMA RectFills ==
  ASSUME Picturable, NEW x \in Nat, NEW y \in Nat, NEW w \in Nat, NEW h \in Nat, NEW color,
         Inside(x, y, w, h), graphics_rect(x, y, w, h, color),
         drawn' = [what |-> "rect", x |-> x, y |-> y, w |-> w, h |-> h, color |-> color]
  PROVE  Picturable' /\ Shown!Next
<1> DEFINE new == Painted(Pixels, x, y, w, h, color)
           picture == [q \in Pixel |-> IF q \in Shown!Box(x, y, w, h) THEN color ELSE Visible[q]]
<1>1. Pixels' = new
    BY RectPaints, Zenon
<1>2. new = [o \in Offsets |-> IF PaintedAt(o, x, y, w, h) THEN color ELSE Pixels[o]]
    BY DEF Painted, PaintedAt, InRow
<1> HIDE DEF new
<1>3. Pixels' = [o \in Offsets |-> new[o]] /\ Picturable'
    BY <1>1, <1>2 DEF Picturable, Offsets
<1>4. \A o \in Offsets : new[o] = IF PaintedAt(o, x, y, w, h) THEN color ELSE Pixels[o]
    BY <1>2
<1>5. \A o \in Offsets : o % Pitch >= GraphicsWidth => new[o] = Pixels[o]
  <2>1. \A o \in Offsets : PaintedAt(o, x, y, w, h) => o % Pitch < GraphicsWidth
      BY RectCovers, Zenon
  <2>2. \A o \in Offsets : ~(o % Pitch >= GraphicsWidth /\ o % Pitch < GraphicsWidth)
    <3>1. ASSUME NEW o \in Offsets PROVE o % Pitch \in Nat
        BY GraphicsAssumption DEF Offsets
    <3> QED
        BY <3>1, GraphicsAssumption
  <2> QED
      BY <1>4, <2>1, <2>2, Zenon
<1>6. ASSUME NEW q \in Pixel PROVE new[Place(q[1], q[2])] = picture[q]
  <2>1. PaintedAt(Place(q[1], q[2]), x, y, w, h) <=> q \in Shown!Box(x, y, w, h)
      BY RectCovers, Zenon
  <2>2. Place(q[1], q[2]) \in Offsets /\ Visible[q] = Pixels[Place(q[1], q[2])]
      BY VisibleAt, Zenon
  <2> QED
      BY <1>4, <2>1, <2>2, Zenon
<1> HIDE DEF picture
<1>7. Between' = Between /\ Visible' = [q \in DOMAIN Visible |-> picture[q]]
  <2>1. \A q \in Pixel : new[Place(q[1], q[2])] = picture[q]
      BY <1>6
  <2>2. Leaves(picture)
      BY <1>3, <1>5, <2>1, Repainted, Zenon
  <2> QED
      BY <2>2, Zenon DEF Leaves
<1>8. Visible' = [q \in DOMAIN Visible |->
                   IF q \in Shown!Box(drawn'.x, drawn'.y, drawn'.w, drawn'.h) THEN drawn'.color
                   ELSE Visible[q]]
  <2>1. DOMAIN Visible = Pixel
      BY DEF Visible, Pixel
  <2>2. /\ drawn'.x = x /\ drawn'.y = y /\ drawn'.w = w /\ drawn'.h = h /\ drawn'.color = color
      OBVIOUS
  <2> QED
      BY <1>7, <2>1, <2>2 DEF picture
<1>9. drawn'.what = "rect"
    OBVIOUS
<1> QED
    BY <1>3, <1>7, <1>8, <1>9, Zenon DEF Shown!Next, Shown!Fill

(* A character covers the pixels of its box, the same as a rectangle.       *)
CharBox == (0..CharWidth - 1) \X (0..CharHeight - 1)
DrawnAt(o, x, y) == {q \in CharBox : o = RowBelow(Place(x, y), q[2]) + q[1]}

LEMMA CharCovers ==
  ASSUME NEW x \in Nat, NEW y \in Nat, Inside(x, y, CharWidth, CharHeight)
  PROVE  /\ \A q \in Pixel : DrawnAt(Place(q[1], q[2]), x, y) =
              IF q \in Shown!Box(x, y, CharWidth, CharHeight) THEN {<<q[1] - x, q[2] - y>>} ELSE {}
         /\ \A o \in Offsets : DrawnAt(o, x, y) # {} => o % Pitch < GraphicsWidth
<1>1. ASSUME NEW b \in CharBox
      PROVE  /\ b[1] \in 0..CharWidth - 1 /\ b[2] \in 0..CharHeight - 1
             /\ RowBelow(Place(x, y), b[2]) + b[1] = Place(x + b[1], y + b[2])
  <2>1. b[1] \in 0..CharWidth - 1 /\ b[2] \in 0..CharHeight - 1 /\ b[1] \in Nat /\ b[2] \in Nat
      BY DEF CharBox
  <2>2. IsBeside(x, y, b[1], b[2])
      BY <2>1, PlaceBeside, Zenon
  <2>3. RowBelow(Place(x, y), b[2]) + b[1] = Place(x + b[1], y + b[2])
      BY <2>2, Zenon DEF IsBeside
  <2> QED
      BY <2>1, <2>3
<1>2. CharWidth \in Nat /\ CharHeight \in Nat
    BY GraphicsAssumption
<1>3. ASSUME NEW q \in Pixel
      PROVE  DrawnAt(Place(q[1], q[2]), x, y) =
              IF q \in Shown!Box(x, y, CharWidth, CharHeight) THEN {<<q[1] - x, q[2] - y>>} ELSE {}
  <2> DEFINE o == Place(q[1], q[2])
  <2>1. q = <<q[1], q[2]>> /\ q[1] \in Nat /\ q[2] \in Nat
      BY GraphicsAssumption DEF Pixel
  <2>2. ASSUME NEW b \in CharBox
        PROVE  o = RowBelow(Place(x, y), b[2]) + b[1] <=> q[1] = x + b[1] /\ q[2] = y + b[2]
    <3>1. OnePlace(q[1], q[2], x + b[1], y + b[2])
        BY <1>1, <1>2, BoxCovers, Zenon
    <3> QED
        BY <1>1, <3>1, Zenon DEF OnePlace
  <2> HIDE DEF o
  <2>3. DrawnAt(o, x, y) = {b \in CharBox : q[1] = x + b[1] /\ q[2] = y + b[2]}
      BY <2>2 DEF DrawnAt
  <2>4. CASE q \in Shown!Box(x, y, CharWidth, CharHeight)
    <3> DEFINE a == <<q[1] - x, q[2] - y>>
    <3>1. a \in CharBox /\ q[1] = x + a[1] /\ q[2] = y + a[2]
        BY <1>2, <2>1, <2>4 DEF Shown!Box, CharBox
    <3>2. ASSUME NEW b \in CharBox, q[1] = x + b[1], q[2] = y + b[2] PROVE b = a
        BY <2>1, <3>2 DEF CharBox
    <3> QED
        BY <2>3, <2>4, <3>1, <3>2 DEF o
  <2>5. CASE q \notin Shown!Box(x, y, CharWidth, CharHeight)
    <3>1. ASSUME NEW b \in CharBox, q[1] = x + b[1], q[2] = y + b[2] PROVE FALSE
        BY <1>1, <1>2, <2>1, <2>5, <3>1 DEF Shown!Box
    <3> QED
        BY <2>3, <2>5, <3>1 DEF o
  <2> QED
      BY <2>4, <2>5
<1>4. ASSUME NEW o \in Offsets, DrawnAt(o, x, y) # {} PROVE o % Pitch < GraphicsWidth
  <2>1. PICK b \in CharBox : o = RowBelow(Place(x, y), b[2]) + b[1]
      BY <1>4 DEF DrawnAt
  <2>2. o = Place(x + b[1], y + b[2])
      BY <1>1, <2>1, Zenon
  <2> QED
      BY <1>1, <1>2, <2>2, BoxCovers, Zenon
<1> QED
    BY <1>3, <1>4

CharAt(o, x, y, c, fg, bg) ==
  LET a == CHOOSE q \in DrawnAt(o, x, y) : TRUE
  IN  IF Ink(Font[c][a[2] + 1], a[1]) THEN fg ELSE bg

LEMMA CharDraws ==
  ASSUME Picturable, NEW x \in Nat, NEW y \in Nat, NEW c \in DOMAIN Font, NEW fg, NEW bg,
         Inside(x, y, CharWidth, CharHeight), graphics_char(x, y, c, fg, bg),
         drawn' = [what |-> "char", x |-> x, y |-> y, c |-> c, fg |-> fg, bg |-> bg]
  PROVE  Picturable' /\ Shown!Next
<1> DEFINE box == Shown!Box(x, y, CharWidth, CharHeight)
           new == [o \in Offsets |-> IF DrawnAt(o, x, y) = {} THEN Pixels[o] ELSE CharAt(o, x, y, c, fg, bg)]
           In(q) == <<q[1] - x, q[2] - y>> \in InkOf[c]
           picture == [q \in Pixel |-> IF q \notin box THEN Visible[q] ELSE IF In(q) THEN fg ELSE bg]
<1>1. Pixels' = new
    BY DEF graphics_char, DrawnAt, CharBox, CharAt, Place
<1>2. \A o \in Offsets :
        new[o] = IF DrawnAt(o, x, y) = {} THEN Pixels[o] ELSE CharAt(o, x, y, c, fg, bg)
    OBVIOUS
<1>3. Pixels' = [o \in Offsets |-> new[o]] /\ Picturable'
    BY <1>1 DEF Picturable, Offsets
<1> HIDE DEF new
<1>4. \A o \in Offsets : o % Pitch >= GraphicsWidth => new[o] = Pixels[o]
  <2>1. \A o \in Offsets : DrawnAt(o, x, y) # {} => o % Pitch < GraphicsWidth
      BY CharCovers, Zenon
  <2>2. \A o \in Offsets : ~(o % Pitch >= GraphicsWidth /\ o % Pitch < GraphicsWidth)
    <3>1. ASSUME NEW o \in Offsets PROVE o % Pitch \in Nat
        BY GraphicsAssumption DEF Offsets
    <3> QED
        BY <3>1, GraphicsAssumption
  <2> QED
      BY <1>2, <2>1, <2>2, Zenon
<1>5. ASSUME NEW q \in Pixel PROVE new[Place(q[1], q[2])] = picture[q]
  <2> DEFINE o == Place(q[1], q[2])
  <2>1. DrawnAt(o, x, y) = IF q \in box THEN {<<q[1] - x, q[2] - y>>} ELSE {}
      BY CharCovers, Zenon
  <2>2. o \in Offsets /\ Visible[q] = Pixels[o]
      BY VisibleAt, Zenon
  <2>3. picture[q] = IF q \notin box THEN Visible[q] ELSE IF In(q) THEN fg ELSE bg
      BY Zenon
  <2> HIDE DEF o, picture, box
  <2>4. CASE q \notin box
    <3>1. DrawnAt(o, x, y) = {}
        BY <2>1, <2>4
    <3>2. new[o] = picture[q]
        BY <1>2, <2>2, <2>3, <2>4, <3>1, Zenon
    <3> QED
        BY <3>2 DEF o
  <2>5. CASE q \in box
    <3> DEFINE a == <<q[1] - x, q[2] - y>>
    <3>1. DrawnAt(o, x, y) = {a}
        BY <2>1, <2>5
    <3>2. new[o] = CharAt(o, x, y, c, fg, bg)
        BY <1>2, <2>2, <3>1
    <3>3. (CHOOSE b \in DrawnAt(o, x, y) : TRUE) = a
        BY <3>1
    <3>4. a \in CharBox
        BY <3>1 DEF DrawnAt
    <3>5. In(q) <=> Ink(Font[c][a[2] + 1], a[1])
        BY <3>4 DEF InkOf, CharBox
    <3> HIDE DEF a, In
    <3>6. CharAt(o, x, y, c, fg, bg) = IF Ink(Font[c][a[2] + 1], a[1]) THEN fg ELSE bg
        BY <3>3 DEF CharAt
    <3>7. new[o] = picture[q]
        BY <2>3, <2>5, <3>2, <3>5, <3>6
    <3> QED
        BY <3>7 DEF o
  <2> QED
      BY <2>4, <2>5 DEF o
<1> HIDE DEF picture
<1>6. Between' = Between /\ Visible' = [q \in DOMAIN Visible |-> picture[q]]
  <2>1. \A q \in Pixel : new[Place(q[1], q[2])] = picture[q]
      BY <1>5
  <2>2. Leaves(picture)
      BY <1>3, <1>4, <2>1, Repainted, Zenon
  <2> QED
      BY <2>2, Zenon DEF Leaves
<1>7. Shown!Draw(drawn')
  <2>1. DOMAIN Visible = Pixel
      BY DEF Visible, Pixel
  <2>2. drawn'.x = x /\ drawn'.y = y /\ drawn'.c = c /\ drawn'.fg = fg /\ drawn'.bg = bg
      OBVIOUS
  <2>3. ASSUME NEW q \in Pixel
        PROVE  picture[q] = CASE q \notin box -> Visible[q] [] In(q) -> fg [] OTHER -> bg
    <3>1. picture[q] = IF q \notin box THEN Visible[q] ELSE IF In(q) THEN fg ELSE bg
        BY Zenon DEF picture
    <3>2. In(q) => q \in box
      <4>1. q = <<q[1], q[2]>> /\ q[1] \in Nat /\ q[2] \in Nat
          BY GraphicsAssumption DEF Pixel
      <4> QED
          BY <4>1, GraphicsAssumption DEF InkOf, Shown!Box
    <3> HIDE DEF In, box
    <3> QED
        BY <3>1, <3>2
  <2>4. Visible' = [q \in DOMAIN Visible |-> CASE q \notin box -> Visible[q] [] In(q) -> fg [] OTHER -> bg]
      BY <1>6, <2>1, <2>3
  <2> QED
    <3>1. Shown!Draw(drawn') <=>
            Visible' = [q \in DOMAIN Visible |->
                          CASE q \notin Shown!Box(drawn'.x, drawn'.y, CharWidth, CharHeight) -> Visible[q]
                            [] <<q[1] - drawn'.x, q[2] - drawn'.y>> \in InkOf[drawn'.c] -> drawn'.fg
                            [] OTHER -> drawn'.bg]
        BY DEF Shown!Draw
    <3> QED
        BY <2>2, <2>4, <3>1
<1>8. drawn'.what = "char"
    OBVIOUS
<1> QED
    BY <1>3, <1>6, <1>7, <1>8, Zenon DEF Shown!Next

LEMMA GraphicsInitial == GraphicsInit => Picturable /\ Shown!Init
<1> SUFFICES ASSUME GraphicsInit PROVE Picturable /\ Shown!Init
    OBVIOUS
<1>1. PICK color \in Colors : Pixels = [o \in Offsets |-> IF o % Pitch < GraphicsWidth THEN color ELSE Stale]
    BY DEF GraphicsInit
<1>2. Picturable
    BY <1>1 DEF Picturable
<1>3. ASSUME NEW q \in Pixel PROVE Pixels[Place(q[1], q[2])] = color
  <2>1. q[1] \in 0..Pitch - 1 /\ q[2] \in 0..GraphicsHeight - 1 /\ q[1] < GraphicsWidth
      BY GraphicsAssumption DEF Pixel
  <2>2. Place(q[1], q[2]) \in Offsets /\ Place(q[1], q[2]) % Pitch = q[1]
      BY <2>1, PlaceIs, Zenon
  <2> QED
      BY <1>1, <2>1, <2>2, Zenon
<1>4. Visible = [q \in Shown!Box(0, 0, GraphicsWidth, GraphicsHeight) |-> color]
  <2>1. Shown!Box(0, 0, GraphicsWidth, GraphicsHeight) = Pixel
      BY GraphicsAssumption DEF Shown!Box, Pixel
  <2>2. Visible = [q \in Pixel |-> Pixels[Place(q[1], q[2])]]
      BY DEF Visible, Pixel, Place
  <2> QED
      BY <1>3, <2>1, <2>2
<1> QED
    BY <1>2, <1>4 DEF GraphicsInit, Shown!Init

LEMMA GraphicsStep ==
  Picturable /\ [GraphicsNext]_graphics => Picturable' /\ [Shown!Next]_(Shown!vars)
<1> SUFFICES ASSUME Picturable, [GraphicsNext]_graphics
             PROVE  Picturable' /\ [Shown!Next]_(Shown!vars)
    OBVIOUS
<1>1. CASE FillRect
  <2>1. PICK x \in 0..GraphicsWidth, y \in 0..GraphicsHeight :
          \E w \in 0..GraphicsWidth - x, h \in 0..GraphicsHeight - y, color \in Colors :
            /\ graphics_rect(x, y, w, h, color)
            /\ drawn' = [what |-> "rect", x |-> x, y |-> y, w |-> w, h |-> h, color |-> color]
      BY <1>1 DEF FillRect
  <2>2. PICK w \in 0..GraphicsWidth - x, h \in 0..GraphicsHeight - y, color \in Colors :
            /\ graphics_rect(x, y, w, h, color)
            /\ drawn' = [what |-> "rect", x |-> x, y |-> y, w |-> w, h |-> h, color |-> color]
      BY <2>1
  <2>3. x \in Nat /\ y \in Nat /\ w \in Nat /\ h \in Nat /\ Inside(x, y, w, h)
      BY GraphicsAssumption DEF Inside
  <2> QED
      BY <2>2, <2>3, RectFills, Zenon
<1>2. CASE PutChar
  <2>1. PICK k \in 0..(GraphicsWidth \div CharWidth) - 1,
            r \in 0..(GraphicsHeight \div CharHeight) - 1 :
          \E c \in DOMAIN Font, fg, bg \in Colors :
            /\ graphics_char(CharWidth * k, CharHeight * r, c, fg, bg)
            /\ drawn' = [what |-> "char", x |-> CharWidth * k, y |-> CharHeight * r,
                         c |-> c, fg |-> fg, bg |-> bg]
      BY <1>2 DEF PutChar
  <2>2. PICK c \in DOMAIN Font, fg \in Colors, bg \in Colors :
            /\ graphics_char(CharWidth * k, CharHeight * r, c, fg, bg)
            /\ drawn' = [what |-> "char", x |-> CharWidth * k, y |-> CharHeight * r,
                         c |-> c, fg |-> fg, bg |-> bg]
      BY <2>1
  <2>3. /\ CharWidth * k \in Nat /\ CharHeight * r \in Nat
        /\ Inside(CharWidth * k, CharHeight * r, CharWidth, CharHeight)
    <3>1. ASSUME NEW n \in Nat, NEW d \in Nat \ {0}, NEW j \in 0..(n \div d) - 1
          PROVE  d * j \in Nat /\ d * j + d <= n
      <4>1. n = d * (n \div d) + (n % d) /\ n % d \in Nat /\ n \div d \in Nat
          OBVIOUS
      <4>2. j \in Nat /\ j + 1 <= n \div d
          BY <4>1
      <4>3. d * (j + 1) <= d * (n \div d)
          BY <4>1, <4>2
      <4>4. d * (j + 1) = d * j + d /\ d * j \in Nat
          BY <4>2
      <4> QED
          BY <4>1, <4>3, <4>4
    <3>2. /\ GraphicsWidth \in Nat /\ GraphicsHeight \in Nat
          /\ CharWidth \in Nat \ {0} /\ CharHeight \in Nat \ {0}
        BY GraphicsAssumption
    <3> QED
        BY <3>1, <3>2, Zenon DEF Inside
  <2> QED
      BY <2>2, <2>3, CharDraws, Zenon
<1>3. CASE UNCHANGED graphics
  <2>1. Pixels' = Pixels /\ drawn' = drawn
      BY <1>3 DEF graphics
  <2> QED
      BY <2>1 DEF Picturable, Shown!vars, Visible, Between
<1> QED
    BY <1>1, <1>2, <1>3 DEF GraphicsNext

(* For every screen, whatever its pitch, the framebuffer shows a picture on *)
(* which rectangles and upright characters appear where they are asked for, *)
(* and nothing between the rows is written (graphics.c:45-87).              *)
THEOREM ShowsPictureHolds == GraphicsSpec => ShowsPicture
  BY GraphicsInitial, GraphicsStep, PTL DEF GraphicsSpec, ShowsPicture, Shown!Spec

-----------------------------------------------------------------------------
(* printf: numbers and their digits.                                        *)

(* Division of natural numbers stays among them.                            *)
LEMMA DivNat ==
  ASSUME NEW a \in Nat, NEW b \in Nat \ {0}
  PROVE  a \div b \in Nat /\ a % b \in 0..b - 1 /\ a = b * (a \div b) + (a % b)
<1>1. a \div b \in Int /\ a % b \in 0..b - 1 /\ a = b * (a \div b) + (a % b)
    OBVIOUS
<1>2. ASSUME a \div b < 0 PROVE FALSE
  <2> DEFINE q == a \div b
  <2>1. q \in Int /\ q <= -1 /\ a = b * q + (a % b) /\ a % b < b
      BY <1>1, <1>2
  <2> HIDE DEF q
  <2>2. b * q <= -b
      BY <2>1
  <2> QED
      BY <1>1, <2>1, <2>2
<1> QED
    BY <1>1, <1>2

QuotientStep(v, base, q) == [k \in 0..NtoaSize |-> IF k = 0 THEN v ELSE q[k - 1] \div base]

(* The quotients up to the n-th can be written down.                        *)
Divided(v, base, q, n) ==
  q \in [0..n -> Nat] /\ q[0] = v /\ \A k \in 1..n : q[k] = q[k - 1] \div base

(* There are such quotients, as many as the scratch buffer has places.      *)
LEMMA DividedExists ==
  ASSUME NEW v \in Nat, NEW base \in Nat \ {0}
  PROVE  \E q : Divided(v, base, q, NtoaSize)
<1> DEFINE S == {n \in Nat : \E q : Divided(v, base, q, n)}
<1>1. 0 \in S
  <2> DEFINE q == [k \in 0..0 |-> v]
  <2>1. Divided(v, base, q, 0)
      BY DEF Divided
  <2> QED
      BY <2>1
<1>2. ASSUME NEW n \in 1..NtoaSize, n - 1 \in S PROVE n \in S
  <2>1. PICK q : Divided(v, base, q, n - 1)
      BY <1>2
  <2> DEFINE r == [k \in 0..n |-> IF k = n THEN q[n - 1] \div base ELSE q[k]]
  <2>2. n \in Nat \ {0} /\ n - 1 \in 0..n - 1 /\ 0 \in 0..n - 1
      BY PrintSizes
  <2>3. q[n - 1] \in Nat /\ q[n - 1] \div base \in Nat
    <3>1. q[n - 1] \in Nat
        BY <2>1, <2>2 DEF Divided
    <3> QED
        BY <3>1, DivNat
  <2>4. \A k \in 0..n : k # n => k \in 0..n - 1 /\ q[k] \in Nat
      BY <2>1, <2>2 DEF Divided
  <2>5. r \in [0..n -> Nat]
      BY <2>3, <2>4
  <2>6. r[0] = v
      BY <2>1, <2>2 DEF Divided
  <2>7. ASSUME NEW k \in 1..n PROVE r[k] = r[k - 1] \div base
    <3>1. k - 1 \in 0..n /\ k - 1 # n /\ k \in 0..n
        BY <2>2
    <3>2. r[k - 1] = q[k - 1]
        BY <3>1
    <3>3. CASE k = n
        BY <3>1, <3>2, <3>3
    <3>4. CASE k # n
      <4>1. k \in 1..n - 1 /\ r[k] = q[k]
          BY <2>2, <3>1, <3>4
      <4> QED
          BY <2>1, <3>2, <4>1 DEF Divided
    <3> QED
        BY <3>3, <3>4
  <2> HIDE DEF r
  <2>8. Divided(v, base, r, n)
      BY <2>5, <2>6, <2>7 DEF Divided
  <2> QED
      BY <2>2, <2>8
<1> HIDE DEF S
<1>3. NtoaSize \in Nat /\ NtoaSize \in 0..NtoaSize
    BY PrintSizes
<1>4. NtoaSize \in S
    BY <1>1, <1>2, <1>3, Induct
<1> QED
    BY <1>4 DEF S

(* A recursive function is what its equation says if anything is.           *)
LEMMA QuotientsChosen ==
  ASSUME NEW v, NEW base, NEW g, g = QuotientStep(v, base, g),
         NEW t, t = CHOOSE f : f = QuotientStep(v, base, f)
  PROVE  t = QuotientStep(v, base, t)
  BY Zenon

(* The value a round finds is the one before divided by the base.           *)
LEMMA QuotientsDivide ==
  ASSUME NEW v \in Nat, NEW base \in Nat \ {0}
  PROVE  Divided(v, base, Quotients(v, base), NtoaSize)
<1> DEFINE Q == Quotients(v, base)
<1>1. PICK g : Divided(v, base, g, NtoaSize)
    BY DividedExists
<1>2. NtoaSize \in Nat \ {0}
    BY PrintSizes
<1>3. g = QuotientStep(v, base, g)
  <2>1. \A k \in 0..NtoaSize : g[k] = QuotientStep(v, base, g)[k]
      BY <1>1, <1>2 DEF Divided, QuotientStep
  <2> QED
      BY <1>1, <2>1 DEF Divided, QuotientStep
<1>4. Q = CHOOSE f : f = QuotientStep(v, base, f)
    BY DEF Quotients, QuotientStep
<1> HIDE DEF Q
<1>5. Q = QuotientStep(v, base, Q)
    BY <1>3, <1>4, QuotientsChosen
<1>6. /\ Q[0] = v /\ DOMAIN Q = 0..NtoaSize /\ Q = [k \in 0..NtoaSize |-> Q[k]]
      /\ \A k \in 1..NtoaSize : Q[k] = Q[k - 1] \div base
  <2>1. 0 \in 0..NtoaSize /\ \A k \in 1..NtoaSize : k \in 0..NtoaSize /\ k # 0
      BY <1>2
  <2> QED
      BY <1>5, <2>1 DEF QuotientStep
<1>7. \A k \in 0..NtoaSize : Q[k] \in Nat
  <2> DEFINE S == {n \in 0..NtoaSize : Q[n] \in Nat}
  <2>1. 0 \in S
    <3>1. 0 \in 0..NtoaSize
        BY <1>2
    <3> QED
        BY <1>6, <3>1
  <2>2. ASSUME NEW n \in 1..NtoaSize, n - 1 \in S PROVE n \in S
    <3>1. n \in 0..NtoaSize /\ Q[n - 1] \in Nat
        BY <1>2, <2>2
    <3>2. Q[n - 1] \div base \in Nat
        BY <3>1, DivNat
    <3> QED
        BY <1>6, <3>1, <3>2
  <2> HIDE DEF S
  <2>3. \A n \in 0..NtoaSize : n \in S
      BY <1>2, <2>1, <2>2, Induct
  <2> QED
      BY <2>3 DEF S
<1>8. Q \in [0..NtoaSize -> Nat]
    BY <1>6, <1>7
<1> QED
    BY <1>6, <1>8 DEF Divided, Q

(* The rounds are the first so many.                                        *)
LEMMA RoundsRun ==
  ASSUME NEW v \in Nat, NEW base \in Nat \ {0}
  PROVE  \E n \in 1..NtoaSize : Rounds(v, base) = 1..n /\ (n < NtoaSize => Quotients(v, base)[n] = 0)
<1> DEFINE Q == Quotients(v, base)
<1>1. NtoaSize \in Nat \ {0}
    BY PrintSizes
<1>2. /\ Q \in [0..NtoaSize -> Nat]
      /\ \A k \in 1..NtoaSize : Q[k] = Q[k - 1] \div base
    BY QuotientsDivide DEF Divided
<1>3. Rounds(v, base) = {k \in 1..NtoaSize : k = 1 \/ Q[k - 1] > 0}
    BY DEF Rounds
<1> HIDE DEF Q
<1> DEFINE S == {m \in 0..NtoaSize : m > 0 =>
                   \E n \in 1..m : /\ {k \in 1..m : k = 1 \/ Q[k - 1] > 0} = 1..n
                                   /\ n < m => Q[n] = 0 /\ Q[m - 1] = 0}
<1>4. 0 \in S
    BY <1>1
<1>5. ASSUME NEW m \in 1..NtoaSize, m - 1 \in S PROVE m \in S
  <2> DEFINE R(j) == {k \in 1..j : k = 1 \/ Q[k - 1] > 0}
  <2>1. m \in Nat \ {0} /\ m - 1 \in Nat /\ m - 1 \in 0..NtoaSize
      BY <1>1
  <2>2. CASE m = 1
    <3>1. R(1) = 1..1
        OBVIOUS
    <3> QED
        BY <1>1, <2>2, <3>1
  <2>3. CASE m # 1
    <3>1. m - 1 > 0 /\ m - 1 \in 1..NtoaSize
        BY <2>1, <2>3
    <3>2. PICK n \in 1..m - 1 : R(m - 1) = 1..n /\ (n < m - 1 => Q[n] = 0 /\ Q[m - 2] = 0)
        BY <1>5, <3>1
    <3>3. n \in 1..m /\ n < m
        BY <2>1
    <3>4. CASE Q[m - 1] > 0
      <4>1. n = m - 1
        <5>1. SUFFICES ASSUME n < m - 1 PROVE FALSE
            BY <2>1
        <5>2. Q[m - 2] = 0 /\ Q[m - 1] = Q[(m - 1) - 1] \div base
            BY <1>2, <3>1, <3>2, <5>1
        <5>3. (m - 1) - 1 = m - 2 /\ 0 \div base = 0
            BY <2>1
        <5> QED
            BY <3>4, <5>2, <5>3
      <4>2. R(m) = 1..m
        <5>1. \A k \in 1..m : k \in 1..m - 1 \/ k = m
            BY <2>1
        <5>2. \A k \in 1..m - 1 : k \in R(m - 1)
            BY <3>2, <4>1
        <5> QED
            BY <3>4, <5>1, <5>2
      <4> QED
          BY <2>1, <4>2
    <3>5. CASE Q[m - 1] = 0
      <4>1. R(m) = 1..n
        <5>1. R(m) = R(m - 1)
          <6>1. \A k \in 1..m : k \in 1..m - 1 \/ k = m
              BY <2>1
          <6>2. \A k \in 1..m - 1 : k \in 1..m
              BY <2>1
          <6>3. m \notin R(m)
              BY <2>3, <3>5
          <6> QED
              BY <6>1, <6>2, <6>3
        <5> QED
            BY <3>2, <5>1
      <4>2. Q[n] = 0
          BY <2>1, <3>2, <3>5
      <4> QED
          BY <3>3, <3>5, <4>1, <4>2
    <3> QED
      <4>1. Q[m - 1] \in Nat
          BY <1>2, <2>1
      <4> QED
          BY <3>4, <3>5, <4>1
  <2> QED
      BY <2>2, <2>3
<1> HIDE DEF S
<1>6. NtoaSize \in S
    BY <1>1, <1>4, <1>5, Induct
<1> QED
    BY <1>1, <1>3, <1>6 DEF S, Q

(* Runs of a character, and sequences the other way round.                  *)
LEMMA PadIs ==
  ASSUME NEW S, NEW c \in S, NEW n \in Int
  PROVE  /\ Pad(c, n) \in Seq(S) /\ Len(Pad(c, n)) = Most(n, 0)
         /\ \A k \in 1..Most(n, 0) : Pad(c, n)[k] = c
         /\ Most(n, 0) \in Nat /\ (n >= 0 => Most(n, 0) = n) /\ (n <= 0 => Most(n, 0) = 0)
<1>1. Most(n, 0) \in Nat /\ (n >= 0 => Most(n, 0) = n) /\ (n <= 0 => Most(n, 0) = 0)
    BY DEF Most
<1> QED
    BY <1>1 DEF Pad

(* A run of no length is empty.                                             *)
LEMMA PadNone ==
  ASSUME NEW c, NEW n \in Int, n <= 0
  PROVE  Pad(c, n) = << >>
<1>1. Pad(c, n) \in Seq({c}) /\ Len(Pad(c, n)) = 0
    BY PadIs
<1> QED
    BY <1>1, EmptySeq

(* A sequence the other way round.                                          *)
LEMMA ReversedIs ==
  ASSUME NEW S, NEW s \in Seq(S)
  PROVE  /\ Reversed(s) \in Seq(S) /\ Len(Reversed(s)) = Len(s)
         /\ \A k \in 1..Len(s) : Reversed(s)[k] = s[Len(s) + 1 - k]
<1> DEFINE L == Len(s)
<1>1. L \in Nat /\ DOMAIN s = 1..L /\ \A k \in 1..L : s[k] \in S
    OBVIOUS
<1>2. Reversed(s) = [k \in 1..L |-> s[L + 1 - k]]
    BY <1>1 DEF Reversed
<1> HIDE DEF L
<1>3. \A k \in 1..L : L + 1 - k \in 1..L
    BY <1>1
<1> QED
    BY <1>1, <1>2, <1>3 DEF L

(* Two sequences one behind the other turn round by turning round each,     *)
LEMMA ConcatReversed ==
  ASSUME NEW S, NEW s \in Seq(S), NEW t \in Seq(S), NEW l \in Seq(S),
         NEW a \in Seq(S), NEW b \in Seq(S),
         Len(a) = Len(s), \A k \in 1..Len(s) : a[k] = s[Len(s) + 1 - k],
         Len(b) = Len(t), \A k \in 1..Len(t) : b[k] = t[Len(t) + 1 - k],
         Len(l) = Len(s) + Len(t),
         \A k \in 1..Len(s) + Len(t) : l[k] = (s \o t)[Len(s) + Len(t) + 1 - k]
  PROVE  l = b \o a
<1> DEFINE M == Len(s)
           N == Len(t)
<1>1. M \in Nat /\ N \in Nat /\ M = Len(s) /\ N = Len(t)
    OBVIOUS
<1>2. \A k \in 1..M : a[k] = s[M + 1 - k]
    OBVIOUS
<1>3. \A k \in 1..N : b[k] = t[N + 1 - k]
    OBVIOUS
<1>4. Len(l) = M + N /\ \A k \in 1..M + N : l[k] = (s \o t)[M + N + 1 - k]
    OBVIOUS
<1> HIDE DEF M, N
<1>5. b \o a \in Seq(S) /\ Len(b \o a) = N + M
  <2>1. b \o a \in Seq(S) /\ Len(b \o a) = Len(b) + Len(a)
      BY ConcatProperties, Zenon
  <2> QED
      BY <1>1, <2>1
<1>6. \A k \in 1..M + N : (b \o a)[k] = IF k <= N THEN b[k] ELSE a[k - N]
    BY <1>1, ConcatProperties
<1>7. \A k \in 1..M + N : (s \o t)[k] = IF k <= M THEN s[k] ELSE t[k - M]
    BY <1>1, ConcatProperties
<1>8. ASSUME NEW k \in 1..M + N PROVE l[k] = (b \o a)[k]
  <2>1. M + N + 1 - k \in 1..M + N
      BY <1>1
  <2>2. l[k] = IF M + N + 1 - k <= M THEN s[M + N + 1 - k] ELSE t[(M + N + 1 - k) - M]
      BY <1>7, <1>4, <2>1
  <2>3. CASE k <= N
    <3>1. k \in 1..N /\ ~(M + N + 1 - k <= M) /\ (M + N + 1 - k) - M = N + 1 - k
        BY <1>1, <2>3
    <3>2. l[k] = t[N + 1 - k]
        BY <2>2, <3>1
    <3>3. (b \o a)[k] = b[k]
        BY <1>6, <2>3
    <3> QED
        BY <1>3, <3>1, <3>2, <3>3
  <2>4. CASE ~(k <= N)
    <3>1. k - N \in 1..M /\ M + N + 1 - k <= M /\ M + N + 1 - k = M + 1 - (k - N)
        BY <1>1, <2>4, SMTT(60)
    <3> QED
        BY <1>6, <1>2, <2>2, <2>4, <3>1
  <2> QED
      BY <2>3, <2>4
<1>9. Len(l) = Len(b \o a) /\ \A k \in 1..Len(l) : l[k] = (b \o a)[k]
    BY <1>1, <1>4, <1>5, <1>8
<1> HIDE DEF M, N
<1> QED
    BY <1>5, <1>9, SeqEqual, ZenonT(60)

(* that is:                                                                 *)
LEMMA ReversedConcat ==
  ASSUME NEW S, NEW s \in Seq(S), NEW t \in Seq(S)
  PROVE  Reversed(s \o t) = Reversed(t) \o Reversed(s)
<1> DEFINE l == Reversed(s \o t)
           a == Reversed(s)
           b == Reversed(t)
<1>1. Len(s) \in Nat /\ Len(t) \in Nat
    OBVIOUS
<1>2. s \o t \in Seq(S) /\ Len(s \o t) = Len(s) + Len(t)
    BY ConcatProperties
<1>3. /\ a \in Seq(S) /\ Len(a) = Len(s)
      /\ \A k \in 1..Len(s) : a[k] = s[Len(s) + 1 - k]
    BY ReversedIs, Zenon
<1>4. /\ b \in Seq(S) /\ Len(b) = Len(t)
      /\ \A k \in 1..Len(t) : b[k] = t[Len(t) + 1 - k]
    BY ReversedIs, Zenon
<1>5. /\ l \in Seq(S) /\ Len(l) = Len(s) + Len(t)
      /\ \A k \in 1..Len(s) + Len(t) : l[k] = (s \o t)[Len(s) + Len(t) + 1 - k]
  <2>1. /\ l \in Seq(S) /\ Len(l) = Len(s \o t)
        /\ \A k \in 1..Len(s \o t) : l[k] = (s \o t)[Len(s \o t) + 1 - k]
      BY <1>2, ReversedIs, Zenon
  <2> QED
      BY <1>2, <2>1, Zenon
<1> HIDE DEF l, a, b
<1>6. l = b \o a
    BY <1>1, <1>2, <1>3, <1>4, <1>5, ConcatReversed, Zenon
<1> QED
    BY <1>6 DEF l, a, b

(* A run of one character is the same both ways,                            *)
LEMMA ReversedPad ==
  ASSUME NEW c, NEW n \in Int
  PROVE  Reversed(Pad(c, n)) = Pad(c, n)
<1> DEFINE s == Pad(c, n)
           L == Len(s)
<1>1. s \in Seq({c}) /\ L \in Nat /\ \A k \in 1..L : s[k] = c
    BY PadIs
<1>2. /\ Reversed(s) \in Seq({c}) /\ Len(Reversed(s)) = L
      /\ \A k \in 1..L : Reversed(s)[k] = s[L + 1 - k]
    BY <1>1, ReversedIs
<1> HIDE DEF L, s
<1>3. \A k \in 1..L : L + 1 - k \in 1..L
    BY <1>1
<1>4. Reversed(s) = s
    BY <1>1, <1>2, <1>3, SeqEqual DEF L
<1> QED
    BY <1>4 DEF s

(* and so is a sequence of at most one.                                     *)
LEMMA ReversedShort ==
  /\ Reversed(<< >>) = << >>
  /\ \A c : Reversed(<<c>>) = <<c>>
<1>1. Reversed(<< >>) = << >>
  <2>1. << >> \in Seq({})
      OBVIOUS
  <2>2. Reversed(<< >>) \in Seq({}) /\ Len(Reversed(<< >>)) = 0
      BY <2>1, ReversedIs
  <2> QED
      BY <2>2
<1>2. ASSUME NEW c PROVE Reversed(<<c>>) = <<c>>
  <2> DEFINE s == <<c>>
  <2>1. s \in Seq({c}) /\ Len(s) = 1 /\ s[1] = c
      OBVIOUS
  <2> HIDE DEF s
  <2>2. /\ Reversed(s) \in Seq({c}) /\ Len(Reversed(s)) = 1
        /\ \A k \in 1..1 : Reversed(s)[k] = s[1 + 1 - k]
    <3>1. /\ Reversed(s) \in Seq({c}) /\ Len(Reversed(s)) = Len(s)
          /\ \A k \in 1..Len(s) : Reversed(s)[k] = s[Len(s) + 1 - k]
        BY <2>1, ReversedIs, ZenonT(60)
    <3> QED
        BY <2>1, <3>1
  <2>3. \A k \in 1..1 : Reversed(s)[k] = s[k]
      BY <2>2
  <2>4. Reversed(s) = s
      BY <2>1, <2>2, <2>3, SeqEqual
  <2> QED
      BY <2>4 DEF s
<1> QED
    BY <1>1, <1>2

(* A character more is a sequence of one behind.                            *)
LEMMA AddIs ==
  ASSUME NEW S, NEW b \in Seq(S), NEW c \in S, Len(b) < NtoaSize
  PROVE  Add(b, c) = b \o <<c>> /\ Add(b, c) \in Seq(S) /\ Len(Add(b, c)) = Len(b) + 1
<1>1. Append(b, c) = b \o <<c>>
    BY AppendIsConcat
<1> QED
    BY <1>1 DEF Add

(* The digits of a number, the lowest first.                                *)
Numerals == {"0", "1", "2", "3", "4", "5", "6", "7", "8", "9", "a", "b", "c", "d", "e", "f",
             "A", "B", "C", "D", "E", "F"}

(* A remainder below 16 has its numeral in either alphabet.                 *)
LEMMA NumeralIs ==
  ASSUME NEW k \in 0..15
  PROVE  Lower[1 + k] \in Numerals /\ Upper[1 + k] \in Numerals
<1>1. k = 0 \/ k = 1 \/ k = 2 \/ k = 3 \/ k = 4 \/ k = 5 \/ k = 6 \/ k = 7 \/ k = 8 \/ k = 9 \/ k = 10
      \/ k = 11 \/ k = 12 \/ k = 13 \/ k = 14 \/ k = 15
    OBVIOUS
<1> QED
    BY <1>1 DEF Lower, Upper, Numerals

(* There are four bases.                                                    *)
LEMMA BaseIs == \A conv : Base(conv) \in {2, 8, 10, 16}
  BY DEF Base

(* The scratch buffer holds numerals, at least one unless a precision drops the 0. *)
LEMMA ScratchIs ==
  ASSUME NEW d, NEW v \in Nat
  PROVE  /\ Scratch(d, v) \in Seq(Numerals) /\ Len(Scratch(d, v)) \in 0..NtoaSize
         /\ v # 0 \/ d.prec = NoPrecision => Len(Scratch(d, v)) >= 1
<1> DEFINE base == Base(d.conv)
           up == d.conv \in {"X", "p"}
           Q == Quotients(v, base)
<1>1. base \in Nat \ {0} /\ base <= 16
    BY BaseIs
<1> HIDE DEF base, up
<1>2. PICK n \in 1..NtoaSize : Rounds(v, base) = 1..n
    BY <1>1, RoundsRun
<1>3. Q \in [0..NtoaSize -> Nat] /\ NtoaSize \in Nat \ {0}
    BY <1>1, QuotientsDivide, PrintSizes DEF Divided
<1>4. \A k \in 1..n : Digit(v, base, k, up) \in Numerals
  <2> SUFFICES ASSUME NEW k \in 1..n PROVE Digit(v, base, k, up) \in Numerals
      OBVIOUS
  <2>1. k - 1 \in 0..NtoaSize
      BY <1>3
  <2>2. Q[k - 1] \in Nat
      BY <1>3, <2>1
  <2>3. Q[k - 1] % base \in 0..15
    <3>1. Q[k - 1] % base \in 0..base - 1
        BY <1>1, <2>2, DivNat
    <3> HIDE DEF Q
    <3> QED
        BY <1>1, <3>1
  <2> HIDE DEF Q
  <2>4. Lower[1 + (Q[k - 1] % base)] \in Numerals /\ Upper[1 + (Q[k - 1] % base)] \in Numerals
      BY <2>3, NumeralIs
  <2> QED
      BY <2>4 DEF Digit, Q
<1> DEFINE s == [k \in 1..n |-> Digit(v, base, k, up)]
<1>5. s \in Seq(Numerals) /\ Len(s) = n
    BY <1>3, <1>4
<1>6. Scratch(d, v) = IF v = 0 /\ d.prec # NoPrecision THEN << >> ELSE s
    BY <1>2 DEF Scratch, base, up
<1> HIDE DEF s
<1>7. << >> \in Seq(Numerals) /\ Len(<< >>) = 0
    OBVIOUS
<1> QED
    BY <1>3, <1>5, <1>6, <1>7

(* A directive whose width and precision are read.                          *)
ReadDirectives ==
  [conv : Conversions, len : Lengths, flags : SUBSET AnyFlag,
   width : Nat, prec : Nat \cup {NoPrecision}]

(* The characters of numbers are characters, and none is the mark of an unset byte. *)
LEMMA CharsAre ==
  /\ Numerals \subseteq Chars /\ Unset \notin Chars
  /\ "0" \in Chars /\ " " \in Chars /\ "+" \in Chars /\ "-" \in Chars
  /\ "x" \in Chars /\ "X" \in Chars /\ "b" \in Chars
  BY PrintSizes DEF Numerals, Chars, Unset

(* Types and lengths add up.                                                *)
LEMMA ConcatTyped ==
  ASSUME NEW S, NEW s \in Seq(S), NEW t \in Seq(S)
  PROVE  s \o t \in Seq(S) /\ Len(s \o t) = Len(s) + Len(t)
  BY ConcatProperties, Zenon

(* Filling up to a length adds a run, none if it is reached, and stops at the buffer. *)
LEMMA FillIs ==
  ASSUME NEW S, NEW b \in Seq(S), NEW c \in S, NEW n \in Int
  PROVE  /\ FillTo(b, c, n) \in Seq(S)
         /\ n <= NtoaSize => FillTo(b, c, n) = b \o Pad(c, n - Len(b))
         /\ n <= Len(b) => FillTo(b, c, n) = b
         /\ Len(FillTo(b, c, n)) = Most(Len(b), Least(n, NtoaSize))
<1> DEFINE m == Least(n, NtoaSize)
           n0 == m - Len(b)
           pad == Pad(c, n0)
<1>1. NtoaSize \in Nat /\ Len(b) \in Nat /\ m \in Int /\ m <= n /\ (n <= NtoaSize => m = n)
    BY PrintSizes DEF Least
<1> HIDE DEF m
<1>2. n0 \in Int /\ n0 = m - Len(b)
    BY <1>1
<1> HIDE DEF n0
<1>3. pad \in Seq(S) /\ Len(pad) = Most(n0, 0) /\ (n0 <= 0 => pad = << >>)
    BY <1>2, PadIs, PadNone
<1>4. FillTo(b, c, n) = b \o pad
    BY DEF FillTo, m, n0
<1> HIDE DEF pad
<1>5. b \o pad \in Seq(S) /\ Len(b \o pad) = Len(b) + Len(pad)
    BY <1>3, ConcatTyped
<1>6. Len(b) + Most(n0, 0) = Most(Len(b), m)
    BY <1>1, <1>2 DEF Most
<1>7. n <= Len(b) => b \o pad = b
    BY <1>1, <1>2, <1>3, ConcatEmptySeq
<1> QED
    BY <1>1, <1>2, <1>4, <1>5, <1>6, <1>7, <1>3 DEF m, pad, n0

(* A text brought to a width is a text, and the same if it is that long.    *)
LEMMA JustifiedIs ==
  ASSUME NEW s \in Seq(Chars), NEW f, NEW width \in Int
  PROVE  /\ Justified(s, f, width) \in Seq(Chars)
         /\ width <= Len(s) => Justified(s, f, width) = s
<1> DEFINE n == width - Len(s)
           pad == Pad(" ", n)
<1>1. n \in Int /\ (width <= Len(s) => n <= 0)
    OBVIOUS
<1>2. " " \in Chars
    BY CharsAre, Zenon
<1> HIDE DEF n
<1>3. pad \in Seq(Chars) /\ (width <= Len(s) => pad = << >>)
    BY <1>1, <1>2, PadIs, PadNone
<1>4. Justified(s, f, width) = IF "left" \in f THEN s \o pad ELSE pad \o s
    BY DEF Justified, n
<1> HIDE DEF pad
<1>5. s \o pad \in Seq(Chars) /\ pad \o s \in Seq(Chars)
    BY <1>3, ConcatTyped
<1> QED
    BY <1>3, <1>4, <1>5, ConcatEmptySeq

(* A sign is one character, and there is one for a negative number and      *)
(* where a flag wants one.                                                  *)
LEMMA SignIs ==
  ASSUME NEW f, NEW negative \in BOOLEAN
  PROVE  LET s == Sign(f, negative) IN
         /\ s = << >> \/ \E c \in Chars : s = <<c>>
         /\ s = << >> <=> ~negative /\ f \cap {"plus", "space"} = {}
  BY CharsAre DEF Sign

(* A sequence of at most one character.                                     *)
LEMMA ShortIs ==
  ASSUME NEW s, s = << >> \/ \E c \in Chars : s = <<c>>
  PROVE  /\ s \in Seq(Chars) /\ Reversed(s) = s
         /\ Len(s) = IF s = << >> THEN 0 ELSE 1
         /\ s # << >> => s = <<s[1]>> /\ s[1] \in Chars
<1>1. CASE s = << >>
    BY <1>1, ReversedShort
<1>2. ASSUME NEW c \in Chars, s = <<c>> PROVE s \in Seq(Chars) /\ Len(s) = 1 /\ s[1] = c
    BY <1>2
<1>3. \A c : Reversed(<<c>>) = <<c>>
    BY ReversedShort
<1> QED
    BY <1>1, <1>2, <1>3

(* The flags in force, for a number.                                        *)
LEMMA FlagsAre ==
  ASSUME NEW d \in ReadDirectives, d.conv \in Integral, NEW value
  PROVE  /\ "left" \in Flags(d, value) <=> "left" \in d.flags
         /\ "zero" \in Flags(d, value) <=> "zero" \in d.flags /\ d.prec = NoPrecision
         /\ "plus" \in Flags(d, value) <=> "plus" \in d.flags /\ d.conv \in Signed
         /\ "space" \in Flags(d, value) <=> "space" \in d.flags /\ d.conv \in Signed
         /\ "hash" \in Flags(d, value) <=> "hash" \in d.flags /\ Base(d.conv) # 10 /\ value # 0
<1>1. d.conv # "p"
    BY DEF Integral, Signed
<1>2. Flags(d, value) =
        d.flags \ ((IF d.conv \notin Signed THEN {"plus", "space"} ELSE {})
                   \cup (IF d.prec # NoPrecision THEN {"zero"} ELSE {})
                   \cup (IF Base(d.conv) = 10 THEN {"hash"} ELSE {})
                   \cup (IF value = 0 THEN {"hash"} ELSE {}))
    BY <1>1 DEF Flags
<1> QED
    BY <1>2

(* Which conversions have which base.                                       *)
LEMMA BasesAre ==
  ASSUME NEW conv \in Integral
  PROVE  /\ Base(conv) = 10 <=> conv \in {"d", "i", "u"}
         /\ Base(conv) = 16 <=> conv \in {"x", "X"}
         /\ Base(conv) = 8 <=> conv = "o"
         /\ Base(conv) = 2 <=> conv = "b"
  BY DEF Base, Integral, Signed

-----------------------------------------------------------------------------
(* A number has the type of a text, whatever the directive.                 *)
LEMMA AddTyped ==
  ASSUME NEW S, NEW b \in Seq(S), NEW c \in S
  PROVE  Add(b, c) \in Seq(S)
  BY AppendProperties, Zenon DEF Add

(* Digits given up leave digits.                                            *)
LEMMA GiveWayTyped ==
  ASSUME NEW S, NEW b \in Seq(S), NEW d, NEW width
  PROVE  GiveWay(b, d, width) \in Seq(S)
<1>1. ASSUME NEW n \in Int, n <= Len(b) PROVE SubSeq(b, 1, n) \in Seq(S)
  <2>1. Len(b) \in Nat
      OBVIOUS
  <2>2. \A k \in 1..n : k \in 1..Len(b)
      BY <1>1, <2>1
  <2>3. \A k \in 1..n : b[k] \in S
      BY <2>2, ElementOfSeq
  <2> QED
      BY <2>3, SubSeqProperties
<1>2. \A j \in {1, 2} : Len(b) - j \in Int /\ Len(b) - j <= Len(b)
    OBVIOUS
<1>3. \A j \in {1, 2} : SubSeq(b, 1, Len(b) - j) \in Seq(S)
    BY <1>1, <1>2
<1> QED
    BY <1>3 DEF GiveWay

(* Whatever Number does, it makes a text.                                   *)
LEMMA NumberTyped ==
  ASSUME NEW d \in ReadDirectives, NEW value \in Int
  PROVE  Number(d, value) \in Seq(Chars)
<1> DEFINE m == IF value < 0 THEN -value ELSE value
           f == Flags(d, value)
           w == IF /\ {"left", "zero"} \cap f = {"zero"} /\ d.width > 0
                   /\ value < 0 \/ f \cap {"plus", "space"} # {}
                  THEN d.width - 1 ELSE d.width
           s == Scratch(d, m)
           z == Zeroed(s, d, f, w)
           b == Prefixed(z, d, f, w)
           sign == Sign(f, value < 0)
           whole == IF sign = << >> THEN b ELSE Add(b, sign[1])
           lead == IF {"left", "zero"} \cap f = {"zero"} THEN 0 ELSE w
<1>1. m \in Nat /\ w \in Int /\ lead \in Int /\ d.prec \in Int
    BY DEF ReadDirectives, NoPrecision
<1>2. Number(d, value) = Justified(Reversed(whole), f, lead)
    BY DEF Number
<1> HIDE DEF f, m, w, lead
<1>3. s \in Seq(Chars)
  <2>1. s \in Seq(Numerals)
      BY <1>1, ScratchIs
  <2>2. Numerals \subseteq Chars
      BY CharsAre
  <2> QED
      BY <2>1, <2>2, SeqMonotonic, Zenon
<1> HIDE DEF s
<1>4. z \in Seq(Chars)
  <2>1. "0" \in Chars
      BY CharsAre, Zenon
  <2>2. (IF "zero" \in f THEN w ELSE 0) \in Int
      BY <1>1
  <2>3. FillTo(s, "0", d.prec) \in Seq(Chars)
      BY <1>1, <1>3, <2>1, FillIs
  <2>4. FillTo(FillTo(s, "0", d.prec), "0", IF "zero" \in f THEN w ELSE 0) \in Seq(Chars)
      BY <2>1, <2>3, <2>2, FillIs
  <2> QED
      BY <1>3, <2>4 DEF Zeroed
<1> HIDE DEF z
<1>5. b \in Seq(Chars)
  <2> DEFINE kept == GiveWay(z, d, w)
             mark == CASE d.conv = "x" -> "x" [] d.conv \in {"X", "p"} -> "X" [] OTHER -> "b"
  <2>1. kept \in Seq(Chars) /\ mark \in Chars /\ "0" \in Chars
      BY <1>4, GiveWayTyped, CharsAre
  <2>2. b = IF "hash" \notin f THEN z
            ELSE Add(AddIf(Base(d.conv) \in {2, 16}, kept, mark), "0")
      BY DEF Prefixed
  <2> HIDE DEF kept, mark
  <2>3. AddIf(Base(d.conv) \in {2, 16}, kept, mark) \in Seq(Chars)
      BY <2>1, AddTyped DEF AddIf
  <2>4. Add(AddIf(Base(d.conv) \in {2, 16}, kept, mark), "0") \in Seq(Chars)
      BY <2>1, <2>3, AddTyped
  <2> QED
      BY <1>4, <2>2, <2>4
<1> HIDE DEF b
<1>6. whole \in Seq(Chars)
  <2>1. (value < 0) \in BOOLEAN
      OBVIOUS
  <2>2. sign = << >> \/ \E c \in Chars : sign = <<c>>
      BY <2>1, SignIs
  <2> HIDE DEF sign
  <2>3. sign # << >> => sign[1] \in Chars
      BY <2>2, ShortIs
  <2> QED
      BY <1>5, <2>3, AddTyped
<1> HIDE DEF whole
<1>7. Reversed(whole) \in Seq(Chars)
    BY <1>6, ReversedIs
<1> QED
    BY <1>1, <1>2, <1>7, JustifiedIs

(* The sign goes behind the reversed digits.                                *)
LEMMA SignedNumber ==
  ASSUME NEW b \in Seq(Chars), NEW s, s = << >> \/ \E c \in Chars : s = <<c>>,
         s = << >> \/ Len(b) < NtoaSize
  PROVE  Reversed(IF s = << >> THEN b ELSE Add(b, s[1])) = s \o Reversed(b)
<1>1. /\ s \in Seq(Chars) /\ Reversed(s) = s /\ (s # << >> => s = <<s[1]>> /\ s[1] \in Chars)
    BY ShortIs
<1>2. Reversed(b) \in Seq(Chars)
    BY ReversedIs
<1>3. CASE s = << >>
  <2>1. << >> \o Reversed(b) = Reversed(b)
      BY <1>2, ConcatEmptySeq
  <2> QED
      BY <1>3, <2>1
<1>4. CASE s # << >>
  <2>1. Add(b, s[1]) = b \o s
    <3>1. Add(b, s[1]) = b \o <<s[1]>>
        BY <1>1, <1>4, AddIs
    <3> QED
        BY <1>1, <1>4, <3>1
  <2>2. Reversed(b \o s) = Reversed(s) \o Reversed(b)
      BY <1>1, ReversedConcat
  <2> QED
      BY <1>1, <1>4, <2>1, <2>2
<1> QED
    BY <1>3, <1>4

(* What _ntoa_format makes of the digits where the standard is followed.    *)
Sane(d, value, s) ==
  /\ d.conv \in Signed \/ value >= 0
  /\ Len(s) + 2 <= NtoaSize
  /\ "zero" \in d.flags => d.width <= NtoaSize
  /\ d.prec < NtoaSize
  /\ "left" \in d.flags => d.prec = NoPrecision
  /\ "hash" \in d.flags => d.width = 0 /\ d.prec = NoPrecision

(* FillIs for zeroes.                                                       *)
LEMMA FillZeros ==
  ASSUME NEW s \in Seq(Chars), NEW n \in Int
  PROVE  /\ FillTo(s, "0", n) \in Seq(Chars)
         /\ n <= NtoaSize => FillTo(s, "0", n) = s \o Pad("0", n - Len(s))
         /\ n <= Len(s) => FillTo(s, "0", n) = s
         /\ Len(FillTo(s, "0", n)) = Most(Len(s), Least(n, NtoaSize))
<1>1. "0" \in Chars
    BY CharsAre, Zenon
<1> QED
    BY <1>1, FillIs, ZenonT(60)

(* When the number and its zeroes fit the scratch buffer, and what _ntoa_format then makes. *)
Fits(d, s, f, w) ==
  /\ Len(s) < NtoaSize /\ w \in Int /\ d.prec < NtoaSize
  /\ "zero" \in f => w <= NtoaSize /\ d.prec = NoPrecision
  /\ "left" \in f => d.prec = NoPrecision
ZeroesFill(d, s, f, w) ==
  /\ "left" \in f => Zeroed(s, d, f, w) = s
  /\ "left" \notin f /\ "zero" \in f => Zeroed(s, d, f, w) = s \o Pad("0", w - Len(s))
  /\ "zero" \notin f => Zeroed(s, d, f, w) = s \o Pad("0", d.prec - Len(s))
  /\ Len(Zeroed(s, d, f, w)) = IF "left" \in f THEN Len(s)
                               ELSE IF "zero" \in f THEN Most(Len(s), w)
                               ELSE Most(Len(s), d.prec)

(* The zeroes of the precision and of the flag are never both there.        *)
LEMMA ZeroedIs ==
  ASSUME NEW d \in ReadDirectives, NEW s \in Seq(Chars), NEW f, NEW w, Fits(d, s, f, w)
  PROVE  ZeroesFill(d, s, f, w)
<1> USE DEF Fits
<1> DEFINE q == d.prec
           n == IF "zero" \in f THEN w ELSE 0
           b == FillTo(s, "0", q)
           z == FillTo(b, "0", n)
<1>1. /\ d.prec \in Int /\ n \in Int /\ Len(s) \in Nat /\ NtoaSize \in Nat
      /\ d.prec = NoPrecision => d.prec <= Len(s)
    BY PrintSizes DEF ReadDirectives, NoPrecision
<1>2. Zeroed(s, d, f, w) = IF "left" \in f THEN s ELSE z
    BY DEF Zeroed
<1>3. q \in Int /\ q <= NtoaSize /\ n \in Int
    BY <1>1
<1> HIDE DEF q, n
<1>4. /\ b \in Seq(Chars) /\ b = s \o Pad("0", q - Len(s))
      /\ q <= Len(s) => b = s
      /\ Len(b) = Most(Len(s), Least(q, NtoaSize))
    BY <1>3, FillZeros, Zenon
<1> HIDE DEF b
<1>5. /\ n <= NtoaSize => z = b \o Pad("0", n - Len(b))
      /\ n <= Len(b) => z = b
      /\ Len(z) = Most(Len(b), Least(n, NtoaSize))
    BY <1>4, <1>3, FillZeros, Zenon
<1> HIDE DEF z
<1>6. CASE "left" \in f
  <2>1. Zeroed(s, d, f, w) = s
      BY <1>2, <1>6
  <2>2. d.prec - Len(s) <= 0 /\ d.prec - Len(s) \in Int
      BY <1>1, <1>6
  <2>3. Pad("0", d.prec - Len(s)) = << >>
      BY <2>2, PadNone
  <2>4. s \o << >> = s
      BY ConcatEmptySeq
  <2> QED
      BY <1>6, <2>1, <2>3, <2>4 DEF ZeroesFill
<1>7. CASE "left" \notin f /\ "zero" \in f
  <2>1. b = s /\ n = w
      BY <1>1, <1>4, <1>7 DEF q, n
  <2>2. z = s \o Pad("0", w - Len(s))
      BY <1>5, <1>7, <2>1
  <2>3. Len(z) = Most(Len(s), w)
    <3>1. Least(w, NtoaSize) = w
        BY <1>1, <1>7 DEF Least
    <3> QED
        BY <1>5, <2>1, <3>1
  <2> QED
      BY <1>2, <1>7, <2>2, <2>3 DEF ZeroesFill
<1>8. CASE "left" \notin f /\ "zero" \notin f
  <2>1. n = 0 /\ Len(b) \in Nat
      BY <1>4, <1>8 DEF n
  <2>2. z = b
      BY <1>5, <2>1
  <2>3. Least(d.prec, NtoaSize) = d.prec
      BY <1>1 DEF Least
  <2>4. Len(b) = Most(Len(s), d.prec)
      BY <1>4, <2>3 DEF q
  <2> QED
      BY <1>4, <1>2, <1>8, <2>2, <2>4 DEF q, ZeroesFill
<1> QED
    BY <1>6, <1>7, <1>8 DEF ZeroesFill

(* The standard's number, from its parts.                                   *)
Standard(d, sign, prefix, digits) ==
  LET short == d.width - Len(sign \o prefix \o digits)
  IN  IF "left" \in d.flags THEN sign \o prefix \o digits \o Pad(" ", short)
      ELSE IF "zero" \in d.flags /\ d.prec = NoPrecision
             THEN sign \o prefix \o Pad("0", short) \o digits
      ELSE Pad(" ", short) \o sign \o prefix \o digits

(* It is the one of CNumber.                                                *)
LEMMA CNumberIs ==
  ASSUME NEW d, NEW value, NEW s, s = Scratch(d, IF value < 0 THEN -value ELSE value)
  PROVE  CNumber(d, value) =
           Standard(d, IF d.conv \in Signed THEN Sign(d.flags, value < 0) ELSE << >>,
                    IF "hash" \notin d.flags \/ value = 0 \/ Base(d.conv) = 10 THEN << >>
                    ELSE IF d.conv = "o" THEN <<"0">> ELSE <<"0", d.conv>>,
                    Pad("0", d.prec - Len(Reversed(s))) \o Reversed(s))
  BY ZenonT(60) DEF CNumber, Standard

(* The parts of Number.                                                     *)
NumberWidth(d, value) ==
  IF /\ {"left", "zero"} \cap Flags(d, value) = {"zero"} /\ d.width > 0
     /\ value < 0 \/ Flags(d, value) \cap {"plus", "space"} # {}
    THEN d.width - 1 ELSE d.width
NumberBuffer(d, value) ==
  Prefixed(Zeroed(Scratch(d, IF value < 0 THEN -value ELSE value), d, Flags(d, value),
                  NumberWidth(d, value)),
           d, Flags(d, value), NumberWidth(d, value))

(* Number, put together from them.                                          *)
LEMMA NumberIs ==
  ASSUME NEW d, NEW value
  PROVE  Number(d, value) =
           Justified(Reversed(IF Sign(Flags(d, value), value < 0) = << >> THEN NumberBuffer(d, value)
                              ELSE Add(NumberBuffer(d, value), Sign(Flags(d, value), value < 0)[1])),
                     Flags(d, value),
                     IF {"left", "zero"} \cap Flags(d, value) = {"zero"} THEN 0
                     ELSE NumberWidth(d, value))
  BY Zenon DEF Number, NumberBuffer, NumberWidth

(* The same sign, the standard's unsigned conversions having none.          *)
LEMMA SameSign ==
  ASSUME NEW d \in ReadDirectives, d.conv \in Integral, NEW value \in Int,
         d.conv \in Signed \/ value >= 0
  PROVE  Sign(Flags(d, value), value < 0) =
           IF d.conv \in Signed THEN Sign(d.flags, value < 0) ELSE << >>
<1> DEFINE f == Flags(d, value)
           negative == value < 0
<1>1. /\ "plus" \in f <=> "plus" \in d.flags /\ d.conv \in Signed
      /\ "space" \in f <=> "space" \in d.flags /\ d.conv \in Signed
    BY FlagsAre
<1>2. negative \in BOOLEAN /\ (d.conv \notin Signed => ~negative)
    OBVIOUS
<1> HIDE DEF f, negative
<1> QED
    BY <1>1, <1>2 DEF Sign, f, negative

(* With "#" in force there is neither width nor precision.                  *)
LEMMA PrefixedNumber ==
  ASSUME NEW d \in ReadDirectives, d.conv \in Integral, Base(d.conv) # 10,
         NEW s \in Seq(Chars), Len(s) >= 1, Len(s) + 2 <= NtoaSize,
         d.width = 0, d.prec = NoPrecision, NEW f, "hash" \in f
  PROVE  /\ Prefixed(Zeroed(s, d, f, 0), d, f, 0) \in Seq(Chars)
         /\ Reversed(Prefixed(Zeroed(s, d, f, 0), d, f, 0)) =
              (IF d.conv = "o" THEN <<"0">> ELSE <<"0", d.conv>>) \o Reversed(s)
<1> DEFINE mark == CASE d.conv = "x" -> "x" [] d.conv \in {"X", "p"} -> "X" [] OTHER -> "b"
<1>1. Zeroed(s, d, f, 0) = s
  <2>1. Len(s) \in Nat /\ NtoaSize \in Nat
      BY PrintSizes
  <2>2. /\ d.prec < NtoaSize /\ Len(s) < NtoaSize /\ 0 <= NtoaSize
        /\ 0 - Len(s) <= 0 /\ 0 - Len(s) \in Int
        /\ d.prec - Len(s) <= 0 /\ d.prec - Len(s) \in Int
      BY <2>1 DEF NoPrecision
  <2>3. Pad("0", 0 - Len(s)) = << >> /\ Pad("0", d.prec - Len(s)) = << >>
      BY <2>2, PadNone, Zenon
  <2>4. \/ Zeroed(s, d, f, 0) = s
        \/ Zeroed(s, d, f, 0) = s \o Pad("0", 0 - Len(s))
        \/ Zeroed(s, d, f, 0) = s \o Pad("0", d.prec - Len(s))
    <3> DEFINE w == 0
    <3>1. w \in Int /\ w <= NtoaSize
        BY <2>2
    <3> HIDE DEF w
    <3>2. Fits(d, s, f, w)
        BY <2>2, <3>1 DEF Fits
    <3>3. ZeroesFill(d, s, f, w)
        BY <3>2, ZeroedIs
    <3> QED
        BY <3>3, Zenon DEF w, ZeroesFill
  <2> QED
      BY <2>3, <2>4, ConcatEmptySeq
<1>2. GiveWay(s, d, 0) = s
  <2>1. Len(s) # 0
      OBVIOUS
  <2> QED
      BY <2>1 DEF GiveWay
<1>3. Prefixed(Zeroed(s, d, f, 0), d, f, 0) =
        Add(AddIf(Base(d.conv) \in {2, 16}, s, mark), "0")
    BY <1>1, <1>2 DEF Prefixed
<1>4. mark \in Chars /\ "0" \in Chars
    BY CharsAre
<1>5. /\ Base(d.conv) \in {2, 16} <=> d.conv # "o"
      /\ d.conv # "o" => mark = d.conv
    BY BasesAre DEF Integral, Signed
<1> HIDE DEF mark
<1>6. Len(s) < NtoaSize /\ Len(s) + 1 < NtoaSize /\ Len(s) \in Nat
    BY PrintSizes
<1>7. CASE d.conv = "o"
  <2>1. Add(AddIf(Base(d.conv) \in {2, 16}, s, mark), "0") = Add(s, "0")
      BY <1>5, <1>7 DEF AddIf
  <2>2. Add(s, "0") = s \o <<"0">> /\ Add(s, "0") \in Seq(Chars)
      BY <1>4, <1>6, AddIs
  <2>3. <<"0">> \in Seq(Chars)
      BY <1>4
  <2>4. Reversed(s \o <<"0">>) = <<"0">> \o Reversed(s)
      BY <2>3, ReversedConcat, ReversedShort
  <2> QED
      BY <1>3, <1>7, <2>1, <2>2, <2>4
<1>8. CASE d.conv # "o"
  <2>1. AddIf(Base(d.conv) \in {2, 16}, s, mark) = Add(s, mark)
      BY <1>5, <1>8 DEF AddIf
  <2>2. Add(s, mark) = s \o <<mark>> /\ Add(s, mark) \in Seq(Chars) /\ Len(Add(s, mark)) = Len(s) + 1
      BY <1>4, <1>6, AddIs
  <2> DEFINE t == s \o <<mark>>
  <2>3. t \in Seq(Chars) /\ Len(t) < NtoaSize
      BY <1>6, <2>2
  <2>4. <<mark>> \in Seq(Chars) /\ <<"0">> \in Seq(Chars)
      BY <1>4
  <2>5. Reversed(t) = <<mark>> \o Reversed(s)
      BY <2>4, ReversedConcat, ReversedShort
  <2> HIDE DEF t
  <2>6. Add(t, "0") = t \o <<"0">> /\ Add(t, "0") \in Seq(Chars)
      BY <1>4, <2>3, AddIs
  <2>7. Reversed(t \o <<"0">>) = <<"0">> \o Reversed(t)
      BY <2>3, <2>4, ReversedConcat, ReversedShort
  <2>8. Reversed(s) \in Seq(Chars)
      BY ReversedIs
  <2>9. <<"0">> \o (<<mark>> \o Reversed(s)) = (<<"0">> \o <<mark>>) \o Reversed(s)
      BY <2>4, <2>8, ConcatAssociative
  <2>10. <<"0">> \o <<mark>> = <<"0", mark>>
    <3>1. Append(<<"0">>, mark) = <<"0">> \o <<mark>>
        BY <1>4, <2>4, AppendIsConcat
    <3>2. Append(<<"0">>, mark) = <<"0", mark>>
      <4> DEFINE a == Append(<<"0">>, mark)
                 c == <<"0", mark>>
      <4>1. a \in Seq(Chars) /\ Len(a) = 2 /\ a[1] = "0" /\ a[2] = mark
        <5>1. Len(<<"0">>) = 1 /\ <<"0">>[1] = "0" /\ 1 \in 1..1
            OBVIOUS
        <5> QED
            BY <1>4, <2>4, <5>1, AppendProperties
      <4>2. c \in Seq(Chars) /\ Len(c) = 2 /\ c[1] = "0" /\ c[2] = mark
          BY <1>4
      <4> HIDE DEF a, c
      <4>3. \A k \in 1..2 : a[k] = c[k]
          BY <4>1, <4>2
      <4>4. a = c
          BY <4>1, <4>2, <4>3, SeqEqual
      <4> QED
          BY <4>4 DEF a, c
    <3> QED
        BY <3>1, <3>2, Zenon
  <2> QED
      BY <1>3, <1>5, <1>8, <2>1, <2>2, <2>5, <2>6, <2>7, <2>9, <2>10 DEF t
<1> QED
    BY <1>7, <1>8

(* No width, no filling.                                                    *)
LEMMA StandardNoWidth ==
  ASSUME NEW d, d.width = 0, NEW prefix \in Seq(Chars), NEW digits \in Seq(Chars)
  PROVE  Standard(d, << >>, prefix, digits) = prefix \o digits
<1> DEFINE all == << >> \o prefix \o digits
           short == 0 - Len(all)
<1>1. << >> \o prefix = prefix
    BY ConcatEmptySeq
<1>2. all = prefix \o digits /\ all \in Seq(Chars)
    BY <1>1, ConcatTyped
<1> HIDE DEF all
<1>3. short \in Int /\ short <= 0
    BY <1>2
<1> HIDE DEF short
<1>4. Pad(" ", short) = << >> /\ Pad("0", short) = << >>
    BY <1>3, PadNone
<1>5. /\ all \o << >> = all
      /\ prefix \o << >> = prefix /\ << >> \o << >> = << >>
    BY <1>2, ConcatEmptySeq
<1>6. Standard(d, << >>, prefix, digits) =
        IF "left" \in d.flags THEN all \o Pad(" ", short)
        ELSE IF "zero" \in d.flags /\ d.prec = NoPrecision
               THEN << >> \o prefix \o Pad("0", short) \o digits
        ELSE Pad(" ", short) \o << >> \o prefix \o digits
    BY DEF Standard, all, short
<1>7. Standard(d, << >>, prefix, digits) =
        IF "left" \in d.flags THEN all \o << >>
        ELSE IF "zero" \in d.flags /\ d.prec = NoPrecision
               THEN << >> \o prefix \o << >> \o digits
        ELSE << >> \o << >> \o prefix \o digits
    BY <1>4, <1>6, Zenon
<1> QED
    BY <1>1, <1>2, <1>5, <1>7, Zenon

(* Three texts in a row.                                                    *)
LEMMA Associative ==
  \A s, t, u \in Seq(Chars) : (s \o t) \o u = s \o (t \o u)
  BY ConcatAssociative

(* With no prefix.                                                          *)
LEMMA StandardNoPrefix ==
  ASSUME NEW d, NEW sign \in Seq(Chars), NEW digits \in Seq(Chars), d.width \in Int
  PROVE  Standard(d, sign, << >>, digits) =
           LET short == d.width - Len(sign \o digits)
           IN  IF "left" \in d.flags THEN sign \o digits \o Pad(" ", short)
               ELSE IF "zero" \in d.flags /\ d.prec = NoPrecision
                      THEN sign \o (Pad("0", short) \o digits)
               ELSE Pad(" ", short) \o (sign \o digits)
<1> DEFINE short == d.width - Len(sign \o digits)
           blank == Pad(" ", short)
           zeros == Pad("0", short)
<1>1. sign \o << >> = sign
    BY ConcatEmptySeq
<1>2. sign \o digits \in Seq(Chars)
    BY ConcatTyped
<1>3. short \in Int
    BY <1>2
<1>4. "0" \in Chars /\ " " \in Chars
    BY CharsAre, Zenon
<1>5. Standard(d, sign, << >>, digits) =
        IF "left" \in d.flags THEN sign \o digits \o blank
        ELSE IF "zero" \in d.flags /\ d.prec = NoPrecision THEN sign \o zeros \o digits
        ELSE blank \o sign \o << >> \o digits
    BY <1>1, Zenon DEF Standard
<1> HIDE DEF short
<1>6. blank \in Seq(Chars) /\ zeros \in Seq(Chars)
    BY <1>3, <1>4, PadIs
<1> HIDE DEF blank, zeros
<1>7. blank \o sign \in Seq(Chars)
    BY <1>6, ConcatTyped
<1>8. blank \o sign \o << >> = blank \o sign
    BY <1>7, ConcatEmptySeq
<1>9. /\ sign \o zeros \o digits = sign \o (zeros \o digits)
      /\ blank \o sign \o digits = blank \o (sign \o digits)
    BY <1>6, Associative, SMTT(60)
<1>10. Standard(d, sign, << >>, digits) =
        IF "left" \in d.flags THEN sign \o digits \o blank
        ELSE IF "zero" \in d.flags /\ d.prec = NoPrecision THEN sign \o (zeros \o digits)
        ELSE blank \o (sign \o digits)
  <2>1. blank \o sign \o << >> \o digits = blank \o (sign \o digits)
      BY <1>8, <1>9, Zenon
  <2> QED
      BY <1>5, <1>9, <2>1, Zenon
<1> QED
    BY <1>10, Zenon DEF short, blank, zeros

(* A number with its prefix, without width and precision, is the standard's. *)
LEMMA WithPrefix ==
  ASSUME NEW d \in ReadDirectives, d.conv \in Integral, NEW value \in Int,
         NEW s \in Seq(Chars), s = Scratch(d, IF value < 0 THEN -value ELSE value),
         Sane(d, value, s), "hash" \in Flags(d, value)
  PROVE  Number(d, value) = CNumber(d, value)
<1> DEFINE f == Flags(d, value)
           plain == Reversed(s)
           prefix == IF d.conv = "o" THEN <<"0">> ELSE <<"0", d.conv>>
           b == Prefixed(Zeroed(s, d, f, 0), d, f, 0)
           m == IF value < 0 THEN -value ELSE value
           n == d.prec - Len(plain)
<1>1. "hash" \in d.flags /\ Base(d.conv) # 10 /\ value # 0
    BY FlagsAre
<1>2. d.width = 0 /\ d.prec = NoPrecision /\ Len(s) + 2 <= NtoaSize
    BY <1>1 DEF Sane
<1>3. Len(s) >= 1 /\ Len(s) \in Nat
  <2>1. m \in Nat /\ m # 0
      BY <1>1
  <2> HIDE DEF m
  <2>2. Len(Scratch(d, m)) >= 1
      BY <2>1, ScratchIs
  <2> QED
      BY <2>2 DEF m
<1>4. d.conv \notin Signed
    BY <1>1, BasesAre DEF Signed
<1>5. Sign(f, value < 0) = << >>
    BY <1>4, SameSign DEF Sane
<1>6. b \in Seq(Chars) /\ Reversed(b) = prefix \o plain
    BY <1>1, <1>2, <1>3, PrefixedNumber
<1>7. Number(d, value) = Justified(Reversed(b), f, 0)
  <2>1. NumberWidth(d, value) = 0
      BY <1>2 DEF NumberWidth
  <2>2. NumberBuffer(d, value) = b
      BY <2>1 DEF NumberBuffer
  <2> HIDE DEF b
  <2>3. Number(d, value) =
          Justified(Reversed(b), f, IF {"left", "zero"} \cap f = {"zero"} THEN 0 ELSE 0)
      BY <1>5, <2>1, <2>2, NumberIs
  <2> QED
      BY <2>3
<1>8. plain \in Seq(Chars) /\ Len(plain) = Len(s)
    BY ReversedIs
<1>9. prefix \in Seq(Chars)
  <2>1. d.conv = "o" \/ d.conv \in {"x", "X", "b"}
      BY <1>1, BasesAre DEF Integral, Signed
  <2>2. "0" \in Chars /\ "x" \in Chars /\ "X" \in Chars /\ "b" \in Chars
      BY CharsAre, Zenon
  <2> QED
      BY <2>1, <2>2
<1>10. Number(d, value) = prefix \o plain
  <2>1. Reversed(b) \in Seq(Chars) /\ 0 <= Len(Reversed(b)) /\ 0 \in Int
      BY <1>6, ReversedIs
  <2>2. Justified(Reversed(b), f, 0) = Reversed(b)
      BY <2>1, JustifiedIs
  <2> QED
      BY <1>6, <1>7, <2>2
<1>11. Pad("0", n) \o plain = plain
  <2>1. n \in Int /\ n <= 0
      BY <1>2, <1>3, <1>8 DEF NoPrecision
  <2> HIDE DEF n
  <2>2. Pad("0", n) = << >>
      BY <2>1, PadNone
  <2> QED
      BY <1>8, <2>2, ConcatEmptySeq
<1>12. CNumber(d, value) = Standard(d, << >>, prefix, plain)
  <2>1. CNumber(d, value) =
           Standard(d, IF d.conv \in Signed THEN Sign(d.flags, value < 0) ELSE << >>,
                    IF "hash" \notin d.flags \/ value = 0 \/ Base(d.conv) = 10 THEN << >>
                    ELSE prefix, Pad("0", n) \o plain)
      BY CNumberIs, Zenon
  <2> HIDE DEF prefix, n, plain
  <2> QED
      BY <1>1, <1>4, <1>11, <2>1
<1> HIDE DEF prefix, plain
<1>13. Standard(d, << >>, prefix, plain) = prefix \o plain
    BY <1>2, <1>8, <1>9, StandardNoWidth, Zenon
<1> QED
    BY <1>10, <1>12, <1>13, Zenon

(* The zeroes in front of the digits, once they are turned round.           *)
LEMMA ReversedFilled ==
  ASSUME NEW s \in Seq(Chars), NEW n \in Int
  PROVE  /\ Reversed(s \o Pad("0", n)) = Pad("0", n) \o Reversed(s)
         /\ s \o Pad("0", n) \in Seq(Chars)
         /\ Pad("0", n) \o Reversed(s) \in Seq(Chars)
<1>1. "0" \in Chars
    BY CharsAre, Zenon
<1>2. Pad("0", n) \in Seq(Chars)
    BY <1>1, PadIs
<1>3. Reversed(Pad("0", n)) = Pad("0", n)
    BY ReversedPad
<1>4. Reversed(s) \in Seq(Chars)
    BY ReversedIs
<1> DEFINE pad == Pad("0", n)
<1> HIDE DEF pad
<1>5. pad \in Seq(Chars) /\ Reversed(pad) = pad
    BY <1>2, <1>3 DEF pad
<1>6. Reversed(s \o pad) = Reversed(pad) \o Reversed(s)
    BY <1>5, ReversedConcat
<1>7. s \o pad \in Seq(Chars) /\ pad \o Reversed(s) \in Seq(Chars)
    BY <1>4, <1>5, ConcatTyped
<1> QED
    BY <1>5, <1>6, <1>7 DEF pad

(* The width that is left for zeroes once the sign is counted.              *)
LEMMA WidthIs ==
  ASSUME NEW d \in ReadDirectives, d.conv \in Integral, NEW value \in Int,
         d.conv \in Signed \/ value >= 0
  PROVE  LET f == Flags(d, value)
             sign == Sign(f, value < 0)
             w == NumberWidth(d, value) IN
         /\ "left" \in f \/ "zero" \notin f => w = d.width
         /\ "left" \notin f /\ "zero" \in f =>
              w = IF d.width > 0 /\ sign # << >> THEN d.width - 1 ELSE d.width
<1> DEFINE f == Flags(d, value)
           sign == Sign(f, value < 0)
<1>1. sign = << >> <=> ~(value < 0) /\ f \cap {"plus", "space"} = {}
  <2>1. (value < 0) \in BOOLEAN
      OBVIOUS
  <2> QED
      BY <2>1, SignIs
<1>2. {"left", "zero"} \cap f = {"zero"} <=> "left" \notin f /\ "zero" \in f
    OBVIOUS
<1>3. NumberWidth(d, value) =
        IF {"left", "zero"} \cap f = {"zero"} /\ d.width > 0 /\ sign # << >>
          THEN d.width - 1 ELSE d.width
    BY <1>1 DEF NumberWidth
<1> HIDE DEF f, sign
<1> QED
    BY <1>2, <1>3 DEF f, sign

(* So is a number without, by the side the spaces or zeroes go to.          *)
LEMMA WithoutPrefix ==
  ASSUME NEW d \in ReadDirectives, d.conv \in Integral, NEW value \in Int,
         NEW s \in Seq(Chars), s = Scratch(d, IF value < 0 THEN -value ELSE value),
         Sane(d, value, s), "hash" \notin Flags(d, value)
  PROVE  Number(d, value) = CNumber(d, value)
<1> DEFINE f == Flags(d, value)
           sign == Sign(f, value < 0)
           plain == Reversed(s)
           w == NumberWidth(d, value)
           b == NumberBuffer(d, value)
           lead == IF {"left", "zero"} \cap f = {"zero"} THEN 0 ELSE w
           whole == Reversed(IF sign = << >> THEN b ELSE Add(b, sign[1]))
           digits == Pad("0", d.prec - Len(s)) \o plain
           short == d.width - Len(sign \o digits)
<1>1. /\ d.width \in Nat /\ d.prec \in Int /\ d.prec >= -1 /\ NtoaSize \in Nat /\ Len(s) \in Nat
      /\ d.prec = NoPrecision <=> d.prec = -1
    BY PrintSizes DEF ReadDirectives, NoPrecision
<1>2. /\ Len(s) + 2 <= NtoaSize /\ d.prec < NtoaSize
      /\ "zero" \in d.flags => d.width <= NtoaSize
      /\ "left" \in d.flags => d.prec = NoPrecision
    BY DEF Sane
<1>3. /\ "left" \in f <=> "left" \in d.flags
      /\ "zero" \in f <=> "zero" \in d.flags /\ d.prec = NoPrecision
      /\ "hash" \notin d.flags \/ Base(d.conv) = 10 \/ value = 0
    BY FlagsAre
<1>4. /\ "left" \in f \/ "zero" \notin f => w = d.width
      /\ "left" \notin f /\ "zero" \in f =>
           w = IF d.width > 0 /\ sign # << >> THEN d.width - 1 ELSE d.width
    BY WidthIs DEF Sane
<1>5. sign = << >> \/ \E c \in Chars : sign = <<c>>
  <2>1. (value < 0) \in BOOLEAN
      OBVIOUS
  <2> QED
      BY <2>1, SignIs
<1>6. b = Zeroed(s, d, f, w)
    BY DEF NumberBuffer, Prefixed
<1>7. Number(d, value) = Justified(whole, f, lead)
    BY NumberIs, Zenon
<1>8. plain \in Seq(Chars) /\ Len(plain) = Len(s)
    BY ReversedIs
<1>9. CNumber(d, value) = Standard(d, sign, << >>, digits)
  <2>1. sign = IF d.conv \in Signed THEN Sign(d.flags, value < 0) ELSE << >>
      BY SameSign DEF Sane
  <2>2. CNumber(d, value) =
           Standard(d, IF d.conv \in Signed THEN Sign(d.flags, value < 0) ELSE << >>,
                    IF "hash" \notin d.flags \/ value = 0 \/ Base(d.conv) = 10 THEN << >>
                    ELSE IF d.conv = "o" THEN <<"0">> ELSE <<"0", d.conv>>,
                    Pad("0", d.prec - Len(plain)) \o plain)
      BY CNumberIs, Zenon
  <2> HIDE DEF sign, plain, f
  <2> QED
      BY <1>3, <1>8, <2>1, <2>2
<1> HIDE DEF f, sign, w, b, lead, whole
<1>10. lead = IF "left" \notin f /\ "zero" \in f THEN 0 ELSE w
    BY DEF lead
<1>11. w \in Int /\ w <= d.width /\ w >= 0
  <2>1. \/ w = d.width
        \/ d.width > 0 /\ w = d.width - 1
      BY <1>4
  <2> QED
      BY <1>1, <2>1
<1>12. sign \in Seq(Chars) /\ Len(sign) = IF sign = << >> THEN 0 ELSE 1
    BY <1>5, ShortIs
<1>13. digits \in Seq(Chars)
  <2>1. d.prec - Len(s) \in Int
      BY <1>1
  <2> QED
      BY <2>1, ReversedFilled, Zenon
<1> HIDE DEF digits
<1>14. CNumber(d, value) =
         IF "left" \in d.flags THEN sign \o digits \o Pad(" ", short)
         ELSE IF "zero" \in d.flags /\ d.prec = NoPrecision
                THEN sign \o (Pad("0", short) \o digits)
         ELSE Pad(" ", short) \o (sign \o digits)
  <2>1. Standard(d, sign, << >>, digits) =
         IF "left" \in d.flags THEN sign \o digits \o Pad(" ", d.width - Len(sign \o digits))
         ELSE IF "zero" \in d.flags /\ d.prec = NoPrecision
                THEN sign \o (Pad("0", d.width - Len(sign \o digits)) \o digits)
         ELSE Pad(" ", d.width - Len(sign \o digits)) \o (sign \o digits)
    <3>1. d.width \in Int
        BY <1>1
    <3> QED
        BY <1>12, <1>13, <3>1, StandardNoPrefix, Zenon
  <2> QED
      BY <1>9, <2>1, Zenon DEF short
<1>15. /\ "left" \in f => b = s
       /\ "left" \notin f /\ "zero" \in f => b = s \o Pad("0", w - Len(s))
       /\ "zero" \notin f => b = s \o Pad("0", d.prec - Len(s))
       /\ Len(b) = IF "left" \in f THEN Len(s)
                   ELSE IF "zero" \in f THEN Most(Len(s), w)
                   ELSE Most(Len(s), d.prec)
  <2>1. Fits(d, s, f, w)
      BY <1>1, <1>2, <1>3, <1>11 DEF Fits
  <2>2. ZeroesFill(d, s, f, w)
      BY <2>1, ZeroedIs
  <2> QED
      BY <1>6, <2>2, Zenon DEF ZeroesFill
<1>16. ASSUME b \in Seq(Chars), sign = << >> \/ Len(b) < NtoaSize
       PROVE  whole = sign \o Reversed(b)
    BY <1>5, <1>16, SignedNumber, Zenon DEF whole
<1>17. ASSUME d.prec = NoPrecision PROVE digits = plain
  <2>1. d.prec - Len(s) <= 0 /\ d.prec - Len(s) \in Int
      BY <1>1, <1>17
  <2>2. Pad("0", d.prec - Len(s)) = << >>
      BY <2>1, PadNone
  <2>3. << >> \o plain = plain
      BY <1>8, ConcatEmptySeq
  <2> QED
      BY <2>2, <2>3, Zenon DEF digits
<1>18. sign \o plain \in Seq(Chars) /\ Len(sign \o plain) = Len(sign) + Len(s)
  <2>1. sign \o plain \in Seq(Chars) /\ Len(sign \o plain) = Len(sign) + Len(plain)
      BY <1>8, <1>12, ConcatTyped, Zenon
  <2> QED
      BY <1>8, <2>1, Zenon
<1> HIDE DEF plain
<1>19. CASE "left" \in f
  <2>1. b = s /\ digits = plain /\ "left" \in d.flags
    <3>1. b = s
        BY <1>15, <1>19
    <3>2. "left" \in d.flags
        BY <1>3, <1>19
    <3>3. d.prec = NoPrecision
        BY <1>2, <3>2
    <3> QED
        BY <1>17, <3>1, <3>2, <3>3, Zenon
  <2>2. whole = sign \o plain
      BY <1>1, <1>2, <1>16, <2>1 DEF plain
  <2>3. lead = d.width
      BY <1>4, <1>10, <1>19
  <2>4. Justified(whole, f, lead) = whole \o Pad(" ", lead - Len(whole))
      BY <1>19, Zenon DEF Justified
  <2> QED
      BY <1>7, <1>14, <2>1, <2>2, <2>3, <2>4, Zenon DEF short
<1>20. CASE "left" \notin f /\ "zero" \in f
  <2>1. digits = plain /\ "left" \notin d.flags /\ "zero" \in d.flags /\ d.prec = NoPrecision
      BY <1>3, <1>17, <1>20
  <2>2. b = s \o Pad("0", w - Len(s)) /\ Len(b) = Most(Len(s), w)
      BY <1>15, <1>20
  <2>3. w - Len(s) \in Int
      BY <1>1, <1>11
  <2>4. /\ Reversed(b) = Pad("0", w - Len(s)) \o plain /\ b \in Seq(Chars)
        /\ Pad("0", w - Len(s)) \o plain \in Seq(Chars)
      BY <2>2, <2>3, ReversedFilled, Zenon DEF plain
  <2>5. sign = << >> \/ Len(b) < NtoaSize
    <3>1. sign # << >> => w < NtoaSize
        BY <1>1, <1>2, <1>4, <1>20, <2>1
    <3> QED
        BY <1>1, <1>2, <1>11, <2>2, <3>1 DEF Most
  <2>6. whole = sign \o (Pad("0", w - Len(s)) \o plain)
      BY <1>16, <2>4, <2>5
  <2>7. whole \in Seq(Chars)
      BY <1>12, <2>4, <2>6, ConcatTyped
  <2>8. Justified(whole, f, lead) = whole
    <3>1. lead = 0 /\ Len(whole) >= 0
        BY <1>10, <1>20, <2>7
    <3> QED
        BY <2>7, <3>1, JustifiedIs
  <2>9. Pad("0", w - Len(s)) = Pad("0", short)
    <3>1. short = d.width - (Len(sign) + Len(s))
        BY <1>18, <2>1 DEF short
    <3>2. \/ w - Len(s) = short
          \/ w - Len(s) <= 0 /\ short <= 0
        BY <1>1, <1>4, <1>12, <1>20, <3>1, SMTT(60)
    <3>3. short \in Int
        BY <1>1, <1>12, <3>1
    <3> QED
        BY <2>3, <3>2, <3>3, PadNone
  <2> QED
      BY <1>7, <1>14, <2>1, <2>6, <2>8, <2>9, Zenon
<1>21. CASE "left" \notin f /\ "zero" \notin f
  <2>1. "left" \notin d.flags /\ ~("zero" \in d.flags /\ d.prec = NoPrecision)
      BY <1>3, <1>21
  <2>2. b = s \o Pad("0", d.prec - Len(s)) /\ Len(b) = Most(Len(s), d.prec)
      BY <1>15, <1>21
  <2>3. d.prec - Len(s) \in Int
      BY <1>1
  <2>4. Reversed(b) = digits /\ b \in Seq(Chars)
      BY <2>2, <2>3, ReversedFilled, Zenon DEF plain, digits
  <2>5. Len(b) < NtoaSize
      BY <1>1, <1>2, <2>2 DEF Most
  <2>6. whole = sign \o digits
      BY <1>16, <2>4, <2>5
  <2>7. lead = d.width
      BY <1>4, <1>10, <1>21
  <2>8. Justified(whole, f, lead) = Pad(" ", lead - Len(whole)) \o whole
      BY <1>21, Zenon DEF Justified
  <2> QED
      BY <1>7, <1>14, <2>1, <2>6, <2>7, <2>8, Zenon DEF short
<1> QED
    BY <1>19, <1>20, <1>21

(* Printf's numbers are the standard's.                                     *)
LEMMA NumberLikeC ==
  ASSUME NEW d \in ReadDirectives, d.conv \in Integral, NEW value \in Int,
         Sane(d, value, Scratch(d, IF value < 0 THEN -value ELSE value))
  PROVE  Number(d, value) = CNumber(d, value)
<1> DEFINE m == IF value < 0 THEN -value ELSE value
           s == Scratch(d, m)
<1>1. m \in Nat
    OBVIOUS
<1>2. s \in Seq(Chars)
  <2> HIDE DEF m
  <2>1. s \in Seq(Numerals) /\ Numerals \subseteq Chars
      BY <1>1, ScratchIs, CharsAre
  <2> QED
      BY <2>1, SeqMonotonic
<1>3. s = Scratch(d, IF value < 0 THEN -value ELSE value) /\ Sane(d, value, s)
    OBVIOUS
<1> HIDE DEF s
<1> QED
    BY <1>2, <1>3, WithPrefix, WithoutPrefix

(* An argument taken as a type is one of its values.                        *)
LEMMA ValuesAre ==
  ASSUME NEW v \in Int, NEW range \in Nat \ {0}
  PROVE  AsUnsigned(v, range) \in Nat /\ AsSigned(v, range) \in Int
<1> DEFINE u == v % range
<1>1. u \in Nat
    OBVIOUS
<1> HIDE DEF u
<1>2. (IF 2 * u < range THEN u ELSE u - range) \in Int
    BY <1>1
<1> QED
    BY <1>1, <1>2 DEF AsUnsigned, AsSigned, u

(* A type has values.                                                       *)
LEMMA RangeIs ==
  ASSUME NEW d
  PROVE  ValuesIn(d) \in Nat \ {0}
  BY PrintSizes DEF ValuesIn

(* The start of a text is one.                                              *)
LEMMA CutTyped ==
  ASSUME NEW s \in Seq(Chars), NEW n \in Int
  PROVE  Cut(s, n) \in Seq(Chars)
<1> DEFINE l == Least(n, Len(s))
<1>1. Len(s) \in Nat
    OBVIOUS
<1>2. l \in Int /\ l <= Len(s)
    BY <1>1 DEF Least
<1> HIDE DEF l
<1>3. \A k \in 1..l : k \in 1..Len(s)
    BY <1>1, <1>2
<1>4. \A k \in 1..l : s[k] \in Chars
    BY <1>3, ElementOfSeq
<1>5. SubSeq(s, 1, l) \in Seq(Chars)
    BY <1>2, <1>4, SubSeqProperties
<1> QED
    BY <1>5 DEF Cut, l

(* What a directive prints is a text.                                       *)
LEMMA TextTyped ==
  ASSUME NEW d \in ReadDirectives, NEW value \in ValuesOf(d.conv)
  PROVE  Text(d, value) \in Seq(Chars)
<1>1. d.width \in Int /\ d.prec \in Int /\ d.conv \in Conversions
    BY DEF ReadDirectives, NoPrecision
<1>2. CASE d.conv \in Integral
  <2>1. value \in Int
      BY <1>2 DEF ValuesOf, Integral, Signed
  <2>2. AsSigned(value, ValuesIn(d)) \in Int /\ AsUnsigned(value, ValuesIn(d)) \in Int
    <3>1. ValuesIn(d) \in Nat \ {0}
        BY RangeIs
    <3> QED
        BY <2>1, <3>1, ValuesAre
  <2>3. d.conv \in Signed => Text(d, value) = Number(d, AsSigned(value, ValuesIn(d)))
      BY DEF Text, Integral, Signed
  <2>4. d.conv \notin Signed => Text(d, value) = Number(d, AsUnsigned(value, ValuesIn(d)))
      BY <1>2 DEF Text, Integral, Signed
  <2> QED
      BY <2>2, <2>3, <2>4, NumberTyped
<1>3. CASE d.conv = "p"
  <2> DEFINE e == [d EXCEPT !.width = PointerDigits]
  <2>1. e \in ReadDirectives
      BY PrintSizes DEF ReadDirectives
  <2>2. value \in Int
      BY <1>3 DEF ValuesOf, Integral, Signed
  <2>3. Text(d, value) = Number(e, value)
      BY <1>3 DEF Text, Integral, Signed
  <2> HIDE DEF e
  <2> QED
      BY <2>1, <2>2, <2>3, NumberTyped
<1>4. CASE d.conv = "c"
  <2>1. value \in Chars
      BY <1>4 DEF ValuesOf, Integral, Signed
  <2>2. <<value>> \in Seq(Chars)
      BY <2>1
  <2>3. Text(d, value) = Justified(<<value>>, d.flags, d.width)
      BY <1>4 DEF Text, Integral, Signed
  <2> QED
      BY <1>1, <2>2, <2>3, JustifiedIs
<1>5. CASE d.conv = "s"
  <2>1. value \in Seq(Chars)
      BY <1>5 DEF ValuesOf, Integral, Signed
  <2>2. Cut(value, d.prec) \in Seq(Chars)
      BY <1>1, <2>1, CutTyped
  <2>3. Text(d, value) = Justified(Cut(value, d.prec), d.flags, d.width)
      BY <1>5 DEF Text, Integral, Signed
  <2> QED
      BY <1>1, <2>2, <2>3, JustifiedIs
<1> QED
    BY <1>1, <1>2, <1>3, <1>4, <1>5 DEF Conversions

(* It is the standard's where the standard is followed.                     *)
LEMMA TextLikeC ==
  ASSUME NEW d \in ReadDirectives, NEW value \in ValuesOf(d.conv), Follows(d, value)
  PROVE  Text(d, value) = CText(d, value)
<1>1. CASE d.conv \notin Integral
    BY <1>1 DEF CText, Integral
<1>2. CASE d.conv \in Integral
  <2> DEFINE v == IF d.conv \in Signed THEN AsSigned(value, ValuesIn(d))
                  ELSE AsUnsigned(value, ValuesIn(d))
             m == IF v < 0 THEN -v ELSE v
  <2>1. value \in Int
      BY <1>2 DEF ValuesOf, Integral, Signed
  <2>2. v \in Int /\ (d.conv \notin Signed => v >= 0)
    <3>1. ValuesIn(d) \in Nat \ {0}
        BY RangeIs
    <3>2. AsSigned(value, ValuesIn(d)) \in Int /\ AsUnsigned(value, ValuesIn(d)) \in Nat
        BY <2>1, <3>1, ValuesAre
    <3> QED
        BY <3>2
  <2>3. Text(d, value) = Number(d, v)
      BY <1>2 DEF Text, Integral, Signed
  <2>4. CText(d, value) = CNumber(d, v)
      BY <1>2 DEF CText, Integral, Signed
  <2>5. v \in {AsSigned(value, ValuesIn(d)), AsUnsigned(value, ValuesIn(d))}
      OBVIOUS
  <2> HIDE DEF v
  <2>6. Most(v, -v) = m
      BY <2>2 DEF Most
  <2>7. Len(Scratch(d, Most(v, -v))) + 2 <= NtoaSize
      BY <1>2, <2>5, Zenon DEF Follows
  <2>8. /\ "zero" \in d.flags => d.width <= NtoaSize
        /\ d.prec < NtoaSize
        /\ "left" \in d.flags => d.prec = NoPrecision
        /\ "hash" \in d.flags => d.width = 0 /\ d.prec = NoPrecision
      BY <1>2, Zenon DEF Follows
  <2>9. Sane(d, v, Scratch(d, IF v < 0 THEN -v ELSE v))
      BY <2>2, <2>6, <2>7, <2>8 DEF Sane
  <2> QED
      BY <1>2, <2>2, <2>3, <2>4, <2>9, NumberLikeC
<1> QED
    BY <1>1, <1>2

-----------------------------------------------------------------------------
(* Directives of the format, and their arguments.                           *)
LEMMA ItemIs ==
  ASSUME NEW d \in Items
  PROVE  /\ d.conv = "literal" => d.char \in Chars
         /\ d.conv # "literal" =>
              d \in [conv : Conversions, len : Lengths, flags : SUBSET AnyFlag,
                     width : Nat \cup {Star}, prec : Nat \cup {NoPrecision, Star}]
<1>1. \/ d \in [conv : {"literal"}, char : Chars]
      \/ d \in [conv : Conversions, len : Lengths, flags : SUBSET AnyFlag,
                width : Nat \cup {Star}, prec : Nat \cup {NoPrecision, Star}]
    BY ItemsAssumption
<1>2. "literal" \notin Conversions
    BY DEF Conversions, Integral, Signed
<1> QED
    BY <1>1, <1>2

(* With its stars replaced a directive is one that is read.                 *)
LEMMA ResolvedIs ==
  ASSUME NEW d \in Items, d.conv # "literal",
         NEW args, \A k \in 1..Stars(d) : args[k] \in Int
  PROVE  Resolved(d, args) \in ReadDirectives /\ Resolved(d, args).conv = d.conv
         /\ Stars(d) \in 0..2
<1> DEFINE first == IF d.width = Star THEN args[1] ELSE d.width
           second == args[IF d.width = Star THEN 2 ELSE 1]
           flags == IF first < 0 THEN d.flags \cup {"left"} ELSE d.flags
           width == IF first < 0 THEN -first ELSE first
           prec == IF d.prec = Star THEN Most(second, 0) ELSE d.prec
<1>1. d \in [conv : Conversions, len : Lengths, flags : SUBSET AnyFlag,
             width : Nat \cup {Star}, prec : Nat \cup {NoPrecision, Star}]
    BY ItemIs
<1>2. /\ d.width \in Nat \/ d.width = Star
      /\ d.prec \in Nat \/ d.prec = NoPrecision \/ d.prec = Star
      /\ d.flags \subseteq AnyFlag
    BY <1>1
<1>3. Stars(d) \in 0..2 /\ (d.width = Star => Stars(d) >= 1)
      /\ (d.prec = Star => Stars(d) >= 1)
      /\ (d.prec = Star /\ d.width = Star => Stars(d) = 2)
    BY DEF Stars
<1>4. first \in Int
    BY <1>2, <1>3
<1>5. d.prec = Star => second \in Int
    BY <1>3
<1> HIDE DEF first, second
<1>6. width \in Nat /\ flags \subseteq AnyFlag
    BY <1>2, <1>4 DEF AnyFlag
<1>7. prec \in Nat \cup {NoPrecision}
    BY <1>2, <1>5 DEF Most
<1>8. Resolved(d, args) = [d EXCEPT !.flags = flags, !.width = width, !.prec = prec]
    BY DEF Resolved, first, second
<1> HIDE DEF flags, width, prec
<1>9. [d EXCEPT !.flags = flags, !.width = width, !.prec = prec] \in ReadDirectives
    BY <1>1, <1>6, <1>7 DEF ReadDirectives
<1>10. [d EXCEPT !.flags = flags, !.width = width, !.prec = prec].conv = d.conv
    BY <1>1
<1> QED
    BY <1>3, <1>8, <1>9, <1>10

(* What was printed so far is what the standard says.                       *)
Printed == \A k \in 0..Least(idx, maxlen) - 1 : buffer[k] = expected[k + 1]

PrintType ==
  /\ maxlen \in Sizes /\ idx \in Nat /\ returned \in BOOLEAN
  /\ va \in Seq(Int)
  /\ buffer \in [0..Far -> Chars \cup {Unset, Nul}]

PrintAgrees ==
  expected # Unknown =>
    /\ expected \in Seq(Chars) /\ idx = Len(expected) /\ va = << >>
    /\ IF returned THEN Result ELSE Printed

PrintInv == PrintType /\ InsideBuffer /\ PrintAgrees

(* The invariant holds at the start.                                        *)
LEMMA PrintStarts == PrintInit => PrintInv
<1> SUFFICES ASSUME PrintInit PROVE PrintInv
    OBVIOUS
<1>1. maxlen \in Nat /\ Far \in Nat
    BY PrintSizes DEF PrintInit
<1>2. idx = 0 /\ va = << >> /\ returned = FALSE /\ expected = << >>
      /\ buffer = [k \in 0..Far |-> Unset]
    BY DEF PrintInit
<1>3. PrintType
  <2>1. << >> \in Seq(Int)
      OBVIOUS
  <2>2. buffer \in [0..Far -> Chars \cup {Unset, Nul}]
      BY <1>2
  <2>3. maxlen \in Sizes
      BY DEF PrintInit
  <2> QED
      BY <1>2, <2>1, <2>2, <2>3 DEF PrintType
<1>4. Least(idx, maxlen) = 0
    BY <1>1, <1>2 DEF Least
<1>5. InsideBuffer
    BY <1>1, <1>2, <1>4 DEF InsideBuffer
<1>6. PrintAgrees
  <2>1. Printed
    <3>1. ~\E k \in 0..Least(idx, maxlen) - 1 : TRUE
        BY <1>4
    <3> QED
        BY <3>1, Zenon DEF Printed
  <2>2. << >> \in Seq(Chars) /\ Len(<< >>) = 0
      OBVIOUS
  <2> QED
      BY <1>2, <2>1, <2>2 DEF PrintAgrees
<1> QED
    BY <1>3, <1>5, <1>6 DEF PrintInv

(* A run of characters stays inside the buffer,                             *)
LEMMA EmitInside ==
  ASSUME PrintType, InsideBuffer, NEW s \in Seq(Chars), Emit(s), UNCHANGED maxlen
  PROVE  /\ idx' \in Nat /\ idx' = idx + Len(s)
         /\ buffer' \in [0..Far -> Chars \cup {Unset, Nul}]
         /\ InsideBuffer'
         /\ \A k \in 0..Least(idx', maxlen') - 1 :
              buffer'[k] = IF k < idx THEN buffer[k] ELSE s[k - idx + 1]
<1>1. idx \in Nat /\ maxlen \in Nat /\ Far \in Nat /\ maxlen <= Far /\ Len(s) \in Nat
    BY PrintSizes DEF PrintType
<1>2. idx' = idx + Len(s) /\ idx' \in Nat /\ maxlen' = maxlen
    BY <1>1 DEF Emit
<1>3. buffer' = [k \in 0..Far |-> IF k \in idx..idx + Len(s) - 1 /\ k < maxlen
                                  THEN s[k - idx + 1] ELSE buffer[k]]
    BY DEF Emit, _out_buffer
<1>4. ASSUME NEW k \in 0..Far PROVE buffer[k] \in Chars \cup {Unset, Nul}
    BY DEF PrintType
<1>5. ASSUME NEW k \in 0..Far, k \in idx..idx + Len(s) - 1
      PROVE  s[k - idx + 1] \in Chars
  <2>1. k - idx + 1 \in 1..Len(s)
      BY <1>1, <1>5
  <2> QED
      BY <2>1, ElementOfSeq
<1>6. buffer' \in [0..Far -> Chars \cup {Unset, Nul}]
    BY <1>3, <1>4, <1>5
<1>7. Unset \notin Chars
    BY CharsAre
<1>8. ASSUME NEW k \in 0..Far
      PROVE  IF k < Least(idx', maxlen') THEN buffer'[k] # Unset
             ELSE k >= maxlen' => buffer'[k] = Unset
  <2>1. IF k < Least(idx, maxlen) THEN buffer[k] # Unset
        ELSE k >= maxlen => buffer[k] = Unset
      BY DEF InsideBuffer
  <2>2. CASE k \in idx..idx + Len(s) - 1 /\ k < maxlen
    <3>1. buffer'[k] # Unset
        BY <1>3, <1>5, <1>7, <2>2
    <3>2. ~(k >= maxlen')
        BY <1>1, <1>2, <2>2
    <3> QED
        BY <3>1, <3>2, Zenon
  <2>3. CASE ~(k \in idx..idx + Len(s) - 1 /\ k < maxlen)
    <3>1. buffer'[k] = buffer[k]
        BY <1>3, <2>3
    <3>2. k < Least(idx', maxlen') => k < Least(idx, maxlen)
        BY <1>1, <1>2, <2>3 DEF Least
    <3>3. k >= maxlen => ~(k < Least(idx, maxlen))
        BY <1>1 DEF Least
    <3> QED
        BY <1>2, <2>1, <3>1, <3>2, <3>3
  <2> QED
      BY <2>2, <2>3
<1>9. InsideBuffer'
    BY <1>8 DEF InsideBuffer
<1>10. ASSUME NEW k \in 0..Least(idx', maxlen') - 1
       PROVE  buffer'[k] = IF k < idx THEN buffer[k] ELSE s[k - idx + 1]
  <2>1. k \in 0..Far /\ k < maxlen /\ k < idx + Len(s)
      BY <1>1, <1>2 DEF Least
  <2>2. k < idx \/ k \in idx..idx + Len(s) - 1
      BY <1>1, <2>1
  <2> QED
      BY <1>1, <1>3, <2>1, <2>2
<1> QED
    BY <1>2, <1>6, <1>9, <1>10

(* and agrees with the standard as far as the run does.                     *)
LEMMA EmitAgrees ==
  ASSUME PrintInv, ~returned, NEW s \in Seq(Chars), Emit(s), UNCHANGED <<maxlen, returned>>,
         expected # Unknown, expected' = expected \o s, va' = << >>
  PROVE  PrintAgrees'
<1>1. /\ expected \in Seq(Chars) /\ idx = Len(expected) /\ Printed
      /\ PrintType /\ InsideBuffer
    BY DEF PrintInv, PrintAgrees
<1>2. idx \in Nat /\ maxlen \in Nat /\ Len(s) \in Nat /\ maxlen' = maxlen
    BY <1>1, PrintSizes DEF PrintType
<1>3. /\ idx' = idx + Len(s)
      /\ \A k \in 0..Least(idx', maxlen') - 1 :
           buffer'[k] = IF k < idx THEN buffer[k] ELSE s[k - idx + 1]
    BY <1>1, EmitInside
<1>4. /\ expected' \in Seq(Chars) /\ Len(expected') = idx + Len(s)
      /\ \A k \in 1..idx + Len(s) :
           expected'[k] = IF k <= idx THEN expected[k] ELSE s[k - idx]
  <2>1. /\ expected \o s \in Seq(Chars) /\ Len(expected \o s) = Len(expected) + Len(s)
        /\ \A k \in 1..Len(expected) + Len(s) :
             (expected \o s)[k] = IF k <= Len(expected) THEN expected[k] ELSE s[k - Len(expected)]
      BY <1>1, ConcatProperties
  <2> QED
      BY <1>1, <2>1
<1>5. ASSUME NEW k \in 0..Least(idx', maxlen') - 1
      PROVE  buffer'[k] = expected'[k + 1]
  <2>1. k \in Nat /\ k < idx + Len(s) /\ k < maxlen
      BY <1>2, <1>3 DEF Least
  <2>2. k + 1 \in 1..idx + Len(s)
      BY <1>2, <2>1
  <2>3. CASE k < idx
    <3>1. k \in 0..Least(idx, maxlen) - 1
        BY <1>2, <2>1, <2>3 DEF Least
    <3>2. buffer[k] = expected[k + 1]
        BY <1>1, <3>1 DEF Printed
    <3>3. k + 1 <= idx
        BY <1>2, <2>1, <2>3
    <3> QED
        BY <1>3, <1>4, <2>2, <2>3, <3>2, <3>3
  <2>4. CASE ~(k < idx)
    <3>1. ~(k + 1 <= idx) /\ k - idx + 1 = (k + 1) - idx
        BY <1>2, <2>1, <2>4
    <3> QED
        BY <1>3, <1>4, <2>2, <2>4, <3>1
  <2> QED
      BY <2>3, <2>4
<1>6. Printed'
    BY <1>5 DEF Printed
<1> QED
    BY <1>3, <1>4, <1>6 DEF PrintAgrees

-----------------------------------------------------------------------------
(* A character outside a directive is printed as it is.                     *)
LEMMA LiteralPrints ==
  ASSUME PrintInv, NEW d \in Items, ~returned, Literal(d), UNCHANGED <<maxlen, returned>>
  PROVE  PrintInv'
<1>1. d.char \in Chars
    BY ItemIs DEF Literal
<1> DEFINE s == <<d.char>>
<1>2. s \in Seq(Chars) /\ Emit(s) /\ va' = va
    BY <1>1 DEF Literal
<1>3. expected' = IF expected = Unknown THEN Unknown ELSE expected \o s
    BY DEF Literal, Expect
<1> HIDE DEF s
<1>4. PrintType /\ InsideBuffer /\ PrintAgrees
    BY DEF PrintInv
<1>5. idx' \in Nat /\ buffer' \in [0..Far -> Chars \cup {Unset, Nul}] /\ InsideBuffer'
    BY <1>2, <1>4, EmitInside
<1>6. PrintType'
    BY <1>2, <1>4, <1>5 DEF PrintType
<1>7. PrintAgrees'
  <2>1. CASE expected = Unknown
      BY <1>3, <2>1 DEF PrintAgrees
  <2>2. CASE expected # Unknown
    <3>1. va' = << >> /\ expected' = expected \o s
        BY <1>2, <1>3, <1>4, <2>2 DEF PrintAgrees
    <3> QED
        BY <1>2, <2>2, <3>1, EmitAgrees
  <2> QED
      BY <2>1, <2>2
<1> QED
    BY <1>5, <1>6, <1>7 DEF PrintInv

(* The arguments of a directive: those left over, then its own.             *)
LEMMA ArgumentsAre ==
  ASSUME NEW d \in Items, d.conv # "literal", NEW passed \in Arguments(d), va \in Seq(Int),
         va = << >> \/ d.conv \in Integral
  PROVE  LET args == va \o passed
             n == Stars(d) + 1 IN
         /\ Stars(d) \in 0..2 /\ Len(args) = Len(va) + n
         /\ \A k \in 1..Stars(d) : args[k] \in Int
         /\ args[n] \in ValuesOf(d.conv)
         /\ d.conv \in Integral => args \in Seq(Int)
<1> DEFINE n == Stars(d) + 1
           V == Int \cup ValuesOf(d.conv)
<1>1. Stars(d) \in 0..2 /\ n \in Nat /\ Stars(d) \in Nat
    BY DEF Stars
<1>2. /\ passed = [k \in 1..n |-> passed[k]]
      /\ \A k \in 1..Stars(d) : passed[k] \in Int
      /\ passed[n] \in ValuesOf(d.conv)
    BY ArgumentsAssumption
<1>3. d.conv \in Integral => ValuesOf(d.conv) = Int
    BY DEF ValuesOf, Integral, Signed
<1> HIDE DEF n
<1>4. \A k \in 1..n : k \in 1..Stars(d) \/ k = n
    BY <1>1 DEF n
<1>5. \A k \in 1..n : passed[k] \in V
    BY <1>2, <1>4
<1> HIDE DEF V
<1>6. passed \in Seq(V) /\ Len(passed) = n
    BY <1>1, <1>2, <1>5
<1>7. CASE va = << >>
  <2>1. va \o passed = passed /\ Len(va) = 0
      BY <1>6, <1>7, ConcatEmptySeq
  <2>2. d.conv \in Integral => V = Int
      BY <1>3 DEF V
  <2> QED
      BY <1>1, <1>2, <1>6, <2>1, <2>2 DEF n
<1>8. CASE d.conv \in Integral
  <2>1. passed \in Seq(Int)
      BY <1>3, <1>6, <1>8 DEF V
  <2>2. va \o passed \in Seq(Int) /\ Len(va \o passed) = Len(va) + n
      BY <1>6, <2>1, ConcatTyped
  <2>3. Len(va) \in Nat
      OBVIOUS
  <2>4. \A k \in 1..n : k \in 1..Len(va \o passed)
      BY <1>1, <2>2, <2>3
  <2>5. \A k \in 1..n : (va \o passed)[k] \in Int
      BY <2>2, <2>4, ElementOfSeq
  <2>6. n \in 1..n /\ \A k \in 1..Stars(d) : k \in 1..n
      BY <1>1 DEF n
  <2> QED
      BY <1>1, <1>3, <1>8, <2>2, <2>5, <2>6 DEF n
<1> QED
    BY <1>7, <1>8

(* The end of a sequence.                                                   *)
LEMMA RestTyped ==
  ASSUME NEW S, NEW s \in Seq(S), NEW m \in Nat \ {0}
  PROVE  SubSeq(s, m, Len(s)) \in Seq(S)
<1> DEFINE n == Len(s)
<1>1. n \in Int
    OBVIOUS
<1>2. \A k \in m..n : k \in 1..n
    BY <1>1
<1>3. \A k \in m..n : s[k] \in S
    BY <1>2, ElementOfSeq
<1> HIDE DEF n
<1>4. SubSeq(s, m, n) \in Seq(S)
    BY <1>1, <1>3, SubSeqProperties
<1> QED
    BY <1>4 DEF n

(* A directive prints its text, the standard's if it follows, and takes its arguments. *)
LEMMA DirectivePrints ==
  ASSUME PrintInv, NEW d \in Items, ~returned, Directive(d), UNCHANGED <<maxlen, returned>>
  PROVE  PrintInv'
<1>1. d.conv # "literal" /\ (va = << >> \/ d.conv \in Integral)
    BY DEF Directive
<1>2. PrintType /\ InsideBuffer /\ PrintAgrees /\ va \in Seq(Int)
    BY DEF PrintInv, PrintType
<1> DEFINE n == Stars(d) + 1
<1>3. PICK passed \in Arguments(d) :
        LET args  == va \o passed
            r     == Resolved(d, args)
            taken == Stars(d) + (IF TakesValue(d) THEN 1 ELSE 0)
        IN  IF TakesValue(d)
              THEN LET value == args[taken]
                   IN  /\ Emit(Text(r, value))
                       /\ IF va = << >> /\ Follows(r, value) THEN Expect(CText(r, value))
                          ELSE expected' = Unknown
                       /\ va' = SubSeq(args, taken + 1, Len(args))
              ELSE /\ va' = SubSeq(args, taken + 1, Len(args))
                   /\ expected' = Unknown
                   /\ UNCHANGED <<buffer, idx>>
    BY DEF Directive
<1> DEFINE args == va \o passed
           r == Resolved(d, args)
           value == args[n]
<1>4. /\ Stars(d) \in 0..2 /\ Len(args) = Len(va) + n
      /\ \A k \in 1..Stars(d) : args[k] \in Int
      /\ args[n] \in ValuesOf(d.conv)
      /\ d.conv \in Integral => args \in Seq(Int)
    BY <1>1, <1>2, ArgumentsAre, Zenon
<1>5. r \in ReadDirectives /\ r.conv = d.conv
    BY <1>1, <1>4, ResolvedIs
<1>6. CASE TakesValue(d)
  <2>1. /\ Emit(Text(r, value))
        /\ IF va = << >> /\ Follows(r, value) THEN Expect(CText(r, value))
           ELSE expected' = Unknown
        /\ va' = SubSeq(args, n + 1, Len(args))
      BY <1>3, <1>6
  <2>2. value \in ValuesOf(r.conv)
      BY <1>4, <1>5
  <2> HIDE DEF r, value, args
  <2> DEFINE s == Text(r, value)
  <2>3. s \in Seq(Chars)
      BY <1>5, <2>2, TextTyped
  <2>4. va = << >> => va' = << >>
    <3>1. ASSUME va = << >> PROVE SubSeq(args, n + 1, Len(args)) = << >>
      <4>1. n + 1 \in Int /\ Len(args) \in Int /\ Len(args) < n + 1
          BY <1>4, <3>1
      <4> QED
          BY <4>1, SubSeqEmpty
    <3> QED
        BY <2>1, <3>1
  <2>5. va' \in Seq(Int)
    <3>1. CASE va = << >>
        BY <2>4, <3>1
    <3>2. CASE d.conv \in Integral
      <4>1. args \in Seq(Int) /\ n + 1 \in Nat \ {0}
          BY <1>4, <3>2
      <4>2. SubSeq(args, n + 1, Len(args)) \in Seq(Int)
          BY <4>1, RestTyped
      <4> QED
          BY <2>1, <4>2
    <3> QED
        BY <1>1, <3>1, <3>2
  <2>6. Emit(s)
      BY <2>1
  <2> HIDE DEF s
  <2>7. idx' \in Nat /\ buffer' \in [0..Far -> Chars \cup {Unset, Nul}] /\ InsideBuffer'
      BY <1>2, <2>3, <2>6, EmitInside
  <2>8. PrintType'
      BY <1>2, <2>5, <2>7 DEF PrintType
  <2>9. PrintAgrees'
    <3>1. CASE va = << >> /\ Follows(r, value)
      <4>1. s = CText(r, value)
          BY <1>5, <2>2, <3>1, TextLikeC DEF s
      <4>2. expected' = IF expected = Unknown THEN Unknown ELSE expected \o s
          BY <2>1, <3>1, <4>1 DEF Expect
      <4>3. CASE expected = Unknown
          BY <4>2, <4>3 DEF PrintAgrees
      <4>4. CASE expected # Unknown
          BY <2>3, <2>4, <2>6, <3>1, <4>2, <4>4, EmitAgrees
      <4> QED
          BY <4>3, <4>4
    <3>2. CASE ~(va = << >> /\ Follows(r, value))
        BY <2>1, <3>2 DEF PrintAgrees
    <3> QED
        BY <3>1, <3>2
  <2> QED
      BY <2>7, <2>8, <2>9 DEF PrintInv
<1>7. CASE ~TakesValue(d)
  <2>1. /\ va' = SubSeq(args, Stars(d) + 1, Len(args))
        /\ expected' = Unknown
        /\ UNCHANGED <<buffer, idx>>
    <3>1. Stars(d) + 0 + 1 = Stars(d) + 1
        BY <1>4
    <3> QED
        BY <1>3, <1>7, <3>1
  <2>2. d.conv \in Integral
      BY <1>7 DEF TakesValue
  <2>3. args \in Seq(Int) /\ Stars(d) + 1 \in Nat \ {0}
      BY <1>4, <2>2
  <2> HIDE DEF args
  <2>4. va' \in Seq(Int)
      BY <2>1, <2>3, RestTyped
  <2>5. PrintType' /\ InsideBuffer'
      BY <1>2, <2>1, <2>4 DEF PrintType, InsideBuffer
  <2>6. PrintAgrees'
      BY <2>1 DEF PrintAgrees
  <2> QED
      BY <2>5, <2>6 DEF PrintInv
<1> QED
    BY <1>6, <1>7

(* The closing NUL.                                                         *)
LEMMA ReturnPrints ==
  ASSUME PrintInv, Return
  PROVE  PrintInv'
<1>1. PrintType /\ InsideBuffer /\ PrintAgrees /\ ~returned
    BY DEF PrintInv, Return
<1>2. /\ returned' = TRUE
      /\ maxlen' = maxlen /\ idx' = idx /\ va' = va /\ expected' = expected
      /\ buffer' = IF maxlen = 0 \/ Closing(idx) >= maxlen THEN buffer
                   ELSE [buffer EXCEPT ![Closing(idx)] = Nul]
    BY DEF Return
<1> DEFINE c == Closing(idx)
<1>3. /\ idx \in Nat /\ maxlen \in Nat /\ Far \in Nat /\ maxlen <= Far
      /\ buffer \in [0..Far -> Chars \cup {Unset, Nul}]
    BY <1>1, PrintSizes DEF PrintType
<1>4. maxlen > 0 => c \in 0..maxlen - 1 /\ c = Least(idx, maxlen - 1)
    BY <1>3 DEF Closing, Least
<1> HIDE DEF c
<1>5. ASSUME NEW k \in 0..Far
      PROVE  buffer'[k] = IF maxlen > 0 /\ k = c THEN Nul ELSE buffer[k]
    BY <1>2, <1>3, <1>4 DEF c
<1>6. PrintType'
  <2>1. buffer' \in [0..Far -> Chars \cup {Unset, Nul}]
      BY <1>2, <1>3
  <2> QED
      BY <1>1, <1>2, <2>1 DEF PrintType
<1>7. InsideBuffer'
  <2>1. ASSUME NEW k \in 0..Far
        PROVE  IF k < Least(idx', maxlen') THEN buffer'[k] # Unset
               ELSE k >= maxlen' => buffer'[k] = Unset
    <3>1. IF k < Least(idx, maxlen) THEN buffer[k] # Unset
          ELSE k >= maxlen => buffer[k] = Unset
        BY <1>1 DEF InsideBuffer
    <3>2. CASE maxlen > 0 /\ k = c
      <4>1. buffer'[k] # Unset
          BY <1>5, <3>2 DEF Nul, Unset
      <4>2. ~(k >= maxlen')
          BY <1>2, <1>3, <1>4, <3>2
      <4> QED
          BY <4>1, <4>2, Zenon
    <3>3. CASE ~(maxlen > 0 /\ k = c)
      <4>1. buffer'[k] = buffer[k]
          BY <1>5, <3>3
      <4> QED
          BY <1>2, <3>1, <4>1
    <3> QED
        BY <3>2, <3>3
  <2> QED
      BY <2>1 DEF InsideBuffer
<1>8. PrintAgrees'
  <2> SUFFICES ASSUME expected # Unknown
               PROVE  /\ expected \in Seq(Chars) /\ idx = Len(expected) /\ va = << >>
                      /\ Result'
      BY <1>2 DEF PrintAgrees
  <2>1. expected \in Seq(Chars) /\ idx = Len(expected) /\ va = << >> /\ Printed
      BY <1>1 DEF PrintAgrees
  <2>2. ASSUME maxlen > 0
        PROVE  /\ \A k \in 0..Least(idx, maxlen - 1) - 1 : buffer'[k] = expected[k + 1]
               /\ buffer'[Least(idx, maxlen - 1)] = Nul
    <3>1. c \in 0..maxlen - 1 /\ c = Least(idx, maxlen - 1) /\ c \in 0..Far
        BY <1>3, <1>4, <2>2
    <3>2. ASSUME NEW k \in 0..c - 1 PROVE buffer'[k] = expected[k + 1]
      <4>1. k \in 0..Far /\ k # c /\ k \in 0..Least(idx, maxlen) - 1
          BY <1>3, <3>1 DEF Least
      <4>2. buffer'[k] = buffer[k]
          BY <1>5, <4>1
      <4>3. buffer[k] = expected[k + 1]
          BY <2>1, <4>1 DEF Printed
      <4> QED
          BY <4>2, <4>3
    <3>3. buffer'[c] = Nul
        BY <1>5, <2>2, <3>1
    <3> QED
        BY <3>1, <3>2, <3>3
  <2>3. Result'
    <3>1. maxlen \in Nat /\ (maxlen > 0 => maxlen' > 0)
        BY <1>2, <1>3
    <3> QED
        BY <1>2, <2>1, <2>2 DEF Result
  <2> QED
      BY <2>1, <2>3
<1> QED
    BY <1>6, <1>7, <1>8 DEF PrintInv

(* For every format, arguments, sizes of the types and of the buffers:      *)
(* nothing is written outside the buffer, the result counts the whole       *)
(* output, and what the buffer holds is the start of what the C standard    *)
(* says, closed by a NUL, as long as the directives are among those that    *)
(* follow it (stdio.c:46-51, 79-171, 193-396).                              *)
THEOREM PrintsLikeCHolds == PrintSpec => []PrintsLikeC
<1>1. PrintInit => PrintInv
    BY PrintStarts
<1>2. PrintInv /\ [PrintNext]_print => PrintInv'
  <2> SUFFICES ASSUME PrintInv, [PrintNext]_print PROVE PrintInv'
      OBVIOUS
  <2>1. CASE Return
      BY <2>1, ReturnPrints
  <2>2. ASSUME NEW d \in Items, Work(d) PROVE PrintInv'
    <3>1. ~returned /\ UNCHANGED <<maxlen, returned>> /\ (Literal(d) \/ Directive(d))
        BY <2>2 DEF Work
    <3> QED
        BY <3>1, LiteralPrints, DirectivePrints
  <2>3. CASE UNCHANGED print
      BY <2>3 DEF print, PrintInv, PrintType, InsideBuffer, PrintAgrees, Printed, Result
  <2> QED
      BY <2>1, <2>2, <2>3 DEF PrintNext
<1>3. PrintInv => PrintsLikeC
    BY DEF PrintInv, PrintAgrees, PrintsLikeC
<1> QED
    BY <1>1, <1>2, <1>3, PTL DEF PrintSpec
=============================================================================
