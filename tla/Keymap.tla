------------------------------- MODULE Keymap -------------------------------
(***************************************************************************)
(* The two tables of ps2.c: scan code set 1 to key numbers (keys.h), and a *)
(* key with its modifiers to the character of the German layout.           *)
(***************************************************************************)
EXTENDS Integers, Sequences

(* The numbers of enum Key.                                                *)
Key == {0} \cup 4..49 \cup 51..70 \cup 73..82 \cup 84..100 \cup {103} \cup 224..231

KEY_UNKNOWN == 0
KEY_L_CTRL  == 224
KEY_L_SHIFT == 225
KEY_L_ALT   == 226
KEY_L_GUI   == 227
KEY_R_CTRL  == 228
KEY_R_SHIFT == 229
KEY_R_ALT   == 230
KEY_R_GUI   == 231

Modifiers == {"SHIFT", "CTRL", "OS", "ALT", "ALT_GR"}

(* Scan codes 0x01 to 0x39, in order; 0x28 (apostrophe) and 0x37 are not    *)
(* in the switch.                                                           *)
MainKeys ==
  <<41, 30, 31, 32, 33, 34, 35, 36, 37, 38, 39, 45, 46, 42, 43,      \* ESC 1..0 - = BS TAB
    20, 26, 8, 21, 23, 28, 24, 12, 18, 19, 47, 48, 40, KEY_L_CTRL,   \* Q..P [ ] RETURN
    4, 22, 7, 9, 10, 11, 13, 14, 15, 51, KEY_UNKNOWN, 53,            \* A..L ; ' `
    KEY_L_SHIFT, 49, 29, 27, 6, 25, 5, 17, 16, 54, 55, 56,           \* \ Z..M , . /
    KEY_R_SHIFT, KEY_UNKNOWN, KEY_L_ALT, 44>>

(* A decoder that forgets the prefix.                                       *)
scancode_to_key_NoPrefix(scancode, prefix) ==
  CASE scancode \in DOMAIN MainKeys -> MainKeys[scancode]
    [] scancode = 86 -> 100
    [] scancode = 91 -> KEY_L_GUI
    [] OTHER -> KEY_UNKNOWN

(* After a prefix only 0x38 is known: right control, the GUI keys and the   *)
(* arrows are all KEY_UNKNOWN.                                              *)
scancode_to_key(scancode, prefix) ==
  CASE prefix /\ scancode = 56                  -> KEY_R_ALT
    [] ~prefix /\ scancode \in DOMAIN MainKeys  -> MainKeys[scancode]
    [] ~prefix /\ scancode = 86                 -> 100
    [] ~prefix /\ scancode = 91                 -> KEY_L_GUI
    [] OTHER                                 -> KEY_UNKNOWN

(* Keys whose character does not depend on the modifiers: tab, backspace,   *)
(* return and space.                                                        *)
PlainChars == {<<43, 9>>, <<42, 8>>, <<40, 10>>, <<44, 32>>}

(* Keys compared with their exact set of modifiers.                         *)
ExactChars ==
  {<<54, {"SHIFT"}, 59>>,  <<54, {}, 44>>,         \* ; ,
   <<55, {"SHIFT"}, 58>>,  <<55, {}, 46>>,         \* : .
   <<56, {"SHIFT"}, 95>>,  <<56, {}, 45>>,         \* _ -
   <<49, {"SHIFT"}, 39>>,  <<49, {}, 35>>,         \* ' #
   <<48, {"SHIFT"}, 42>>,  <<48, {"ALT_GR"}, 126>>,  <<48, {}, 43>>,    \* * ~ +
   <<100, {"SHIFT"}, 62>>, <<100, {"ALT_GR"}, 124>>, <<100, {}, 60>>,   \* > | <
   <<45, {"SHIFT"}, 63>>,  <<45, {"ALT_GR"}, 92>>,   \* ? \
   <<46, {"SHIFT"}, 96>>,  <<53, {}, 94>>}           \* ` ^

(* A wrong row: the comma key's character given to 1 as well.               *)
NumbersShift_Duplicate == <<59, 34, 0, 36, 37, 38, 47, 40, 41, 61>>

Numbers      == <<49, 50, 51, 52, 53, 54, 55, 56, 57, 48>>
NumbersShift == <<33, 34, 0, 36, 37, 38, 47, 40, 41, 61>>     \* !" $%&/()=
NumbersAltGr == <<0, 0, 0, 0, 0, 0, 123, 91, 93, 125>>        \* {[]}

(* The German layout swaps Y and Z.                                         *)
Letter(key) == LET c == key - 4 + 97
               IN  CASE c = 122 -> 121 [] c = 121 -> 122 [] OTHER -> c

LetterChar(key, m) ==
  IF "ALT_GR" \in m /\ Letter(key) = 113 THEN 64       \* @
  ELSE IF "SHIFT" \in m THEN Letter(key) - 32 ELSE Letter(key)

DigitChar(key, m) ==
  LET row == IF "SHIFT" \in m THEN NumbersShift
             ELSE IF "ALT_GR" \in m THEN NumbersAltGr ELSE Numbers
  IN  row[key - 29]

PlainChar(key) == (CHOOSE e \in PlainChars : e[1] = key)[2]
ExactChar(key, m) == (CHOOSE e \in ExactChars : e[1] = key /\ e[2] = m)[3]

key_to_codepoint(key, m) ==
  CASE \E e \in PlainChars : e[1] = key -> PlainChar(key)
    [] \E e \in ExactChars : e[1] = key /\ e[2] = m -> ExactChar(key, m)
    [] key \in 4..29  -> LetterChar(key, m)
    [] key \in 30..39 -> DigitChar(key, m)
    [] OTHER -> 0
=============================================================================
