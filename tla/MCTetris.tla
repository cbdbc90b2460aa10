------------------------------ MODULE MCTetris ------------------------------
(***************************************************************************)
(* A field four columns wide, where one I lying flat or two Os fill a row,  *)
(* and where T leaves overhangs and rows that fill in any order.            *)
(***************************************************************************)
EXTENDS TetrisView

(* The third word dealt is -1, the upper half of a pointer to the kernel:   *)
(* it stands for whatever its place beside Pieces holds, here a piece of    *)
(* one or two blocks that are 0 in the field when it lands.                 *)
MCTypes == {-1, 0, 5}
MCBeyond == [t \in {-1} |-> [r \in 0..3 |-> IF r % 2 = 0 THEN {<<0, 0>>} ELSE {<<0, 3>>, <<3, 0>>}]]
=============================================================================
