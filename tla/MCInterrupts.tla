--------------------------- MODULE MCInterrupts ---------------------------
(* Instances of Interrupts for TLC.  The bytes are the make and break codes *)
(* of Enter (0x1C, 0x9C), the make code of A (0x1E) and the prefix 0xE0;    *)
(* line 8 is on the slave PIC, line 7 has the lowest priority.              *)
EXTENDS Interrupts

MCLines      == {0, 1, 7, 8}
MCScancodes  == {28, 156, 30, 224}
MCPressLines == {0, 1}
MCPressCodes == {28, 30}
=============================================================================
