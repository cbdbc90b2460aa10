---------------------------- MODULE MCTetrisBag -----------------------------
(* The generator has one seed, so that one behaviour is all there is; 600   *)
(* pieces are 100 bags.  The layout is what gcc 12 makes of the module's    *)
(* Makefile and linker script.                                              *)
EXTENDS TetrisBag

MCNextAt == -2
=============================================================================
