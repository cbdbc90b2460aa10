------------------------------ MODULE Keyboard ------------------------------
(***************************************************************************)
(* The keyboard driver of ps2.c over a scan-code-set-1 keyboard: how key    *)
(* presses become bytes, and how keyboard_irq_handler, one byte per        *)
(* interrupt, turns the bytes back into key events with modifiers.         *)
(***************************************************************************)
EXTENDS Keymap

CONSTANTS
  Keys,     \* the keys of the instance that go down and up
  Others,   \* scan codes of further keys, none a modifier
  MaxHits   \* bound: key transitions

VARIABLES
  held,    \* keys that are down
  hits,    \* transitions so far
  wire,    \* bytes sent and not yet read, in order
  esc,     \* handler: an 0xE0 prefix has been read
  mods,    \* handler: modifiers in force
  events   \* history: the calls of key_event

vars == <<held, hits, wire, esc, mods, events>>

-----------------------------------------------------------------------------
(* The keyboard *)

MakeCode ==
  [A |-> <<30>>, LShift |-> <<42>>, RShift |-> <<54>>, LCtrl |-> <<29>>,
   RCtrl |-> <<224, 29>>, LAlt |-> <<56>>, AltGr |-> <<224, 56>>,
   Up |-> <<224, 72>>, Pause |-> <<225, 29, 69, 225, 157, 197>>]

ASSUME KeysAssumption == Keys \subseteq DOMAIN MakeCode

Break(code) == [code EXCEPT ![Len(code)] = @ + 128]

(* With a left shift down, the keyboard wraps the codes of an arrow key in  *)
(* a false release and press of that shift, marked with a prefix.           *)
Shifted == "LShift" \in held
PressCode(k)   == IF k = "Up" /\ Shifted THEN <<224, 170>> \o MakeCode[k] ELSE MakeCode[k]
ReleaseCode(k) ==
  CASE k = "Pause" -> << >>
    [] k = "Up" /\ Shifted -> Break(MakeCode[k]) \o <<224, 42>>
    [] OTHER -> Break(MakeCode[k])

Hit(code) == hits < MaxHits /\ hits' = hits + 1 /\ wire' = wire \o code

(* A press, or the repetition of a key that stays down.                     *)
Press(k) ==
  /\ Hit(PressCode(k))
  /\ held' = held \cup {k}
  /\ UNCHANGED <<esc, mods, events>>

Release(k) ==
  /\ k \in held
  /\ Hit(ReleaseCode(k))
  /\ held' = held \ {k}
  /\ UNCHANGED <<esc, mods, events>>

(* Any other key.  Bound: it ends the behaviour, after all before is read.   *)
PressOther ==
  /\ wire = << >> /\ hits = MaxHits - 1
  /\ \E code \in Others : Hit(<<code>>)
  /\ UNCHANGED <<held, esc, mods, events>>

-----------------------------------------------------------------------------
(* The driver *)

EscapePrefix == 224

ModOf(key) ==
  CASE key = KEY_L_ALT                   -> "ALT"
    [] key = KEY_R_ALT                   -> "ALT_GR"
    [] key \in {KEY_L_SHIFT, KEY_R_SHIFT} -> "SHIFT"
    [] key \in {KEY_L_CTRL, KEY_R_CTRL}   -> "CTRL"
    [] key \in {KEY_L_GUI, KEY_R_GUI}     -> "OS"
    [] OTHER                              -> "none"

ASSUME OthersAssumption ==
  Others \subseteq {c \in 1..127 : ModOf(scancode_to_key(c, FALSE)) = "none"}

ModsAfter(key, released) ==
  IF ModOf(key) = "none" THEN mods
  ELSE IF released THEN mods \ {ModOf(key)} ELSE mods \cup {ModOf(key)}

(* The flag left set by the byte after a prefix.                            *)
EscAfter_Sticky(byte) == esc \/ byte = EscapePrefix
EscAfter(byte) == byte = EscapePrefix

KeyboardIrqHandler ==
  /\ wire # << >>
  /\ wire' = Tail(wire)
  /\ LET byte == Head(wire)
         key  == scancode_to_key(byte % 128, esc)
     IN  /\ esc' = EscAfter(byte)
         /\ IF byte = EscapePrefix THEN UNCHANGED <<mods, events>>
            ELSE /\ mods' = ModsAfter(key, byte >= 128)
                 /\ events' = Append(events,
                      [key |-> key, released |-> byte >= 128, mods |-> mods',
                       codepoint |-> key_to_codepoint(key, mods')])
  /\ UNCHANGED <<held, hits>>

Init == /\ held = {} /\ hits = 0 /\ wire = << >>
        /\ esc = FALSE /\ mods = {} /\ events = << >>

Next == \/ \E k \in Keys : Press(k) \/ Release(k)
        \/ PressOther
        \/ KeyboardIrqHandler

Spec == Init /\ [][Next]_vars

-----------------------------------------------------------------------------
(* Properties *)

(* All keys with the characters they can give, and the keys decoded.        *)
Typed == {<<k, key_to_codepoint(k, m)>> : k \in Key, m \in SUBSET Modifiers}
Known == {scancode_to_key(c, FALSE) : c \in 1..127} \cup {scancode_to_key(c, TRUE) : c \in 1..127}

(* When every byte has been read no modifier is in force without a key of   *)
(* it being down, and the two Alt keys, which differ only by the prefix, are *)
(* never taken for each other (ps2.c:172-210).                              *)
ModifiersMatchKeys ==
  wire = << >> =>
    /\ "ALT" \in mods <=> "LAlt" \in held
    /\ "ALT_GR" \in mods <=> "AltGr" \in held
    /\ "SHIFT" \in mods => held \cap {"LShift", "RShift"} # {}
    /\ "CTRL" \in mods => "LCtrl" \in held
    /\ "OS" \notin mods

(* From power on, every printable ASCII character can be typed, with Shift  *)
(* or AltGr or neither, from a scan code the decoder knows; and the         *)
(* character of a key press comes from its key only: no other key has it    *)
(* with any of the 32 sets of modifiers (ps2.c:8-157).                      *)
Levels   == {{}, {"SHIFT"}, {"ALT_GR"}}
Typeable == {key_to_codepoint(k, m) : k \in Known, m \in Levels}
EveryCharTyped == hits = 0 => 32..126 \subseteq Typeable
OneKeyPerChar ==
  wire = << >> /\ events # << >> =>
    LET last == events[Len(events)]
    IN  last.codepoint # 0 /\ ~last.released => \A t \in Typed : t[2] = last.codepoint => t[1] = last.key
CharsHaveOneKey == EveryCharTyped /\ OneKeyPerChar

(* What the driver has still to read, as transitions of keys: each byte that *)
(* is not a prefix, with whether a prefix stands before it.                 *)
Prefixed(flag, bytes, i) == IF i = 1 THEN flag ELSE bytes[i - 1] = EscapePrefix
KeyAt(flag, bytes, i) == scancode_to_key(bytes[i] % 128, Prefixed(flag, bytes, i))
Transition(flag, bytes, i) ==
  [key |-> KeyAt(flag, bytes, i), released |-> bytes[i] >= 128]

(* Of the first n bytes.                                                    *)
Decoded(flag, bytes) ==
  LET first[n \in 0..Len(bytes)] ==
        IF n = 0 THEN << >>
        ELSE IF bytes[n] = EscapePrefix THEN first[n - 1]
        ELSE Append(first[n - 1], Transition(flag, bytes, n))
  IN  first
Decode(flag, bytes) == Decoded(flag, bytes)[Len(bytes)]

(* The driver implements the promise of KeyEvents: the prefix, read in an   *)
(* interrupt of its own, never changes which key an event is about, loses   *)
(* an event or makes one.                                                   *)
Abstract == INSTANCE KeyEvents WITH pending <- Decode(esc, wire),
                                    CharOf <- key_to_codepoint
ReportsTransitions == Abstract!Spec
=============================================================================
