----------------------------- MODULE Allocator ------------------------------
(***************************************************************************)
(* The choice of the heap by pmm_init of cpu.c, and the bump allocator of   *)
(* stdlib.c over it.  Nothing is freed, and allocator_init drops the size   *)
(* of the heap: only the properties know where it ends.                     *)
(***************************************************************************)
EXTENDS Integers, Sequences

CONSTANTS
  Maps,        \* memory maps the boot loader may pass
  Requests,    \* pairs <<size, align>> callers ask for
  MaxRequests  \* bound: calls of malloc and malloc_align

Entry == [type : STRING, base : Nat, length : Nat]
ASSUME MapsAssumption == \A m \in Maps : m \in Seq(Entry)
(* Alignments are powers of two, as all callers pass them: malloc passes 8. *)
ASSUME RequestsAssumption ==
  /\ Requests \subseteq Nat \X (Nat \ {0})
  /\ \A r \in Requests : \E k \in 0..r[2] : r[2] = 2^k

VARIABLES
  map,             \* the memory map
  i,               \* the entry pmm_init looks at next, or 0 once it is done
  start, largest,  \* the longest usable entry so far
  p,               \* stdlib.c: the next free byte
  blocks,          \* history: what was handed out, in order
  asked            \* history: the bytes asked for, and align - 1 for each block

scan == <<map, i, start, largest>>
vars == <<scan, p, blocks, asked>>

(* The loop of pmm_init.                                                    *)
Better_AnyType(e) == e.length > largest
Better(e) == e.type = "usable" /\ e.length > largest

ScanEntry ==
  /\ i \in DOMAIN map
  /\ i' = i + 1
  /\ IF Better(map[i]) THEN largest' = map[i].length /\ start' = map[i].base
     ELSE UNCHANGED <<largest, start>>
  /\ UNCHANGED <<map, p, blocks, asked>>

(* Its end, with allocator_init: an entry at address 0 counts as none, and  *)
(* then p keeps the 0 it has like every static.                             *)
StartAllocator ==
  /\ i = Len(map) + 1
  /\ i' = 0
  /\ p' = start
  /\ UNCHANGED <<map, start, largest, blocks, asked>>

(* malloc_align; of a power of two, n & (align - 1) is the remainder.       *)
Aligned_Down(n, align) == n - (n % align)
Aligned_Not(n, align) == n
Aligned_AlwaysPads(n, align) == n + align - (n % align)
Aligned(n, align) == IF n % align = 0 THEN n ELSE n + align - (n % align)

malloc_align(size, align) ==
  /\ i = 0 /\ Len(blocks) < MaxRequests
  /\ p' = Aligned(p, align) + size
  /\ blocks' = Append(blocks, [at |-> Aligned(p, align), size |-> size, align |-> align])
  /\ asked' = asked + size + align - 1
  /\ UNCHANGED scan

Init ==
  /\ map \in Maps /\ i = 1 /\ start = 0 /\ largest = 0
  /\ p = 0 /\ blocks = <<>> /\ asked = 0

Next == \/ ScanEntry \/ StartAllocator
        \/ \E r \in Requests : malloc_align(r[1], r[2])

Spec == Init /\ [][Next]_vars

-----------------------------------------------------------------------------
(* Properties *)

Block == [at : Nat, size : Nat, align : Nat \ {0}]

(* The allocator's pointer is past every block it has handed out.           *)
TypeOK ==
  /\ map \in Maps /\ i \in 0..Len(map) + 1
  /\ start \in Nat /\ largest \in Nat /\ p \in Nat /\ asked \in Nat
  /\ blocks \in Seq(Block)
  /\ \A k \in DOMAIN blocks : blocks[k].at + blocks[k].size <= p

(* The heap is a usable entry of the map, and no usable one is longer       *)
(* (cpu.c:393-414); without any it stays 0, and is handed out all the same. *)
Usable(e) == e.type = "usable" /\ e.length > 0
HeapIsLargest ==
  i = 0 =>
    /\ \A k \in DOMAIN map : Usable(map[k]) => map[k].length <= largest
    /\ largest > 0 => \E k \in DOMAIN map :
                        Usable(map[k]) /\ map[k].base = start /\ map[k].length = largest

(* Blocks do not overlap (stdlib.c:16-31).                                  *)
Disjoint == \A j, k \in DOMAIN blocks : j < k => blocks[j].at + blocks[j].size <= blocks[k].at

(* A block has the alignment it was asked with (stdlib.c:18-28).            *)
AlignedBlocks == \A k \in DOMAIN blocks : blocks[k].at % blocks[k].align = 0

(* There is no guard against running out of memory.  As long as the sizes   *)
(* asked for, and at most align - 1 bytes of padding for each block, fit    *)
(* the heap, every block lies in it (stdlib.c:5-31).                        *)
InsideHeap ==
  asked <= largest =>
    \A k \in DOMAIN blocks :
      start <= blocks[k].at /\ blocks[k].at + blocks[k].size <= start + largest
=============================================================================
