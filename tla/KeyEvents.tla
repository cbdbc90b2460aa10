------------------------------ MODULE KeyEvents ------------------------------
(***************************************************************************)
(* What the keyboard driver promises: the transitions of the keys arrive   *)
(* one by one in the order they happened, each reported once, with the     *)
(* modifiers in force at that point of the order.                          *)
(***************************************************************************)
EXTENDS Sequences, Integers

CONSTANTS
  ModOf(_),      \* the modifier a key stands for, or "none"
  CharOf(_, _)   \* the character of a key with a set of modifiers

VARIABLES
  pending,  \* transitions not yet reported: [key, released]
  mods,     \* modifiers in force
  events    \* the reports, in order

vars == <<pending, mods, events>>

Init == pending = << >> /\ mods = {} /\ events = << >>

(* Key transitions happen.                                                 *)
Happen ==
  /\ Len(pending') > Len(pending)
  /\ SubSeq(pending', 1, Len(pending)) = pending
  /\ UNCHANGED <<mods, events>>

ModsAfter(t) ==
  IF ModOf(t.key) = "none" THEN mods
  ELSE IF t.released THEN mods \ {ModOf(t.key)} ELSE mods \cup {ModOf(t.key)}

(* The oldest transition is reported.                                       *)
Report ==
  /\ pending # << >>
  /\ LET t == Head(pending)
     IN  /\ mods' = ModsAfter(t)
         /\ events' = Append(events, [key |-> t.key, released |-> t.released, mods |-> mods',
                                      codepoint |-> CharOf(t.key, mods')])
  /\ pending' = Tail(pending)

Next == Happen \/ Report

Spec == Init /\ [][Next]_vars
=============================================================================
