----------------------------- MODULE MCIsrFrame -----------------------------
(* Every vector with a stub of its own, up to three times in a row, from    *)
(* code all of whose registers differ from each other and from what the     *)
(* handler leaves.                                                          *)
EXTENDS IsrFrame

MCVectors == 0..47
MCProgram == [r \in Registers |-> 100 + CHOOSE i \in DOMAIN pusha64 : pusha64[i] = r]
MCControl == [rip |-> 201, cs |-> 8, rflags |-> 202, rsp |-> 203, ss |-> 16]
=============================================================================
