----------------------------- MODULE MCKeyboard -----------------------------
(* Every kind of key the decoder treats differently: a character, both      *)
(* shifts, both controls, both Alt keys, an arrow and Pause; and all other  *)
(* scan codes after whatever these did to the modifiers.                    *)
EXTENDS Keyboard

MCKeys == {"A", "LShift", "RShift", "LCtrl", "RCtrl", "LAlt", "AltGr", "Up", "Pause"}
MCOthers == 1..127 \ {29, 42, 54, 56, 91}
=============================================================================
