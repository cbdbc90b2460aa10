------------------------------ MODULE MemMove -------------------------------
(***************************************************************************)
(* memmove of string.c, of which Tetris has a copy of its own: the terminal *)
(* scrolls with it, over regions that overlap.  One byte is one step.       *)
(***************************************************************************)
EXTENDS Integers

CONSTANTS
  Size,   \* bytes of memory
  Values  \* what a byte may hold

ASSUME SizeAssumption == Size \in Nat

VARIABLES
  memory,
  dest, src, len,  \* the arguments
  left,            \* bytes still to copy: len as the loop counts it down
  original         \* history: the memory when memmove was called

arguments == <<dest, src, len, original>>
move == <<memory, arguments, left>>

Places == 0..Size - 1

MoveInit ==
  /\ memory \in [Places -> Values]
  /\ original = memory
  /\ dest \in 0..Size /\ src \in 0..Size /\ len \in 0..Size
  /\ dest + len <= Size /\ src + len <= Size
  /\ left = len

(* Upwards if the destination is below the source, else downwards from the  *)
(* last byte, so that no byte is overwritten before it is read.             *)
Offset_Upwards == len - left
Offset == IF dest < src THEN len - left ELSE left - 1

CopyByte ==
  /\ left > 0
  /\ left' = left - 1
  /\ memory' = [memory EXCEPT ![dest + Offset] = memory[src + Offset]]
  /\ UNCHANGED arguments

MoveNext == CopyByte

MoveSpec == MoveInit /\ [][MoveNext]_move

-----------------------------------------------------------------------------
(* Properties *)

(* The destination gets what the source held at the call, also where the    *)
(* two overlap, and nothing else changes (string.c:49-71).                  *)
Moved ==
  left = 0 =>
    /\ \A k \in 0..len - 1 : memory[dest + k] = original[src + k]
    /\ \A a \in Places \ (dest..dest + len - 1) : memory[a] = original[a]

(* The loop invariant: the bytes copied are the source's, and no other byte *)
(* of the memory has changed, so none that is still to be read.             *)
Copied == IF dest < src THEN 0..len - left - 1 ELSE left..len - 1
MoveTypeOK ==
  /\ memory \in [Places -> Values] /\ original \in [Places -> Values]
  /\ dest \in 0..Size /\ src \in 0..Size /\ len \in 0..Size /\ left \in 0..len
  /\ dest + len <= Size /\ src + len <= Size
PartlyMoved ==
  /\ \A k \in Copied : memory[dest + k] = original[src + k]
  /\ \A a \in Places : (\A k \in Copied : a # dest + k) => memory[a] = original[a]
=============================================================================
