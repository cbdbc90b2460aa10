----------------------------- MODULE MCConsole ------------------------------
(* A screen of five by three cells and a prompt of one character: a line of *)
(* one or two letters fits, one of three reaches the edge and can be erased *)
(* across it.  The letter is B, which without its two left columns looks    *)
(* like 8.                                                                  *)
EXTENDS Console

MCGlyphs  == {32, 35, 62, 66} \cup 48..57
MCMessages == {10, 66}
MCPrompt  == <<62>>
MCBanner  == <<10, 35, 35, 10, 10>>
MCLetters == {66}
MCFirmware == {0, 131}   \* 131: 8 bits with DLAB still set
=============================================================================
