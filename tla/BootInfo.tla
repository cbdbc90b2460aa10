------------------------------ MODULE BootInfo ------------------------------
(***************************************************************************)
(* What the boot loader hands to the kernel, as the kernel reads it: a list *)
(* of tags, one of which may be the memory map.                             *)
(***************************************************************************)
EXTENDS Integers, Sequences

CONSTANT NULL  \* a pointer to nothing

(* stivale2_get_tag: the first tag of the list with the identifier.         *)
stivale2_get_tag(tags, id) ==
  LET found == {k \in DOMAIN tags : tags[k].identifier = id}
  IN  IF found = {} THEN NULL
      ELSE tags[CHOOSE k \in found : \A j \in found : k <= j]
=============================================================================
