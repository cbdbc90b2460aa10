------------------------------ MODULE MCShell -------------------------------
(* A buffer of six bytes, two arguments and one letter: lines one character *)
(* longer than the buffer, lines of three and four words, and shorter lines *)
(* over the remains of longer ones all occur.                               *)
EXTENDS Shell

MCLetters == {97}
=============================================================================
