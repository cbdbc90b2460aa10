------------------------------- MODULE Printf -------------------------------
(***************************************************************************)
(* _vsnprintf of stdio.c: a format is worked off item by item, a literal    *)
(* character or a conversion, into a buffer that may be too short.  An item *)
(* is chosen as it is reached and comes with its arguments; those a         *)
(* conversion does not take stay for the next one.                          *)
(***************************************************************************)
EXTENDS Integers, Sequences

CONSTANTS
  NtoaSize,                            \* PRINTF_NTOA_BUFFER_SIZE
  CharValues, ShortValues, IntValues, LongValues,  \* how many values an integer type has
  PointerDigits,                       \* sizeof(void*) * 2
  Letters,                             \* the characters besides those of numbers
  Items,                               \* the items formats are made of
  Arguments(_),                        \* the argument lists an item may come with
  Sizes,                               \* the values of maxlen
  Far,                                 \* bound: the bytes watched, more than any output
  MaxItems                             \* bound: the items of a format

VARIABLES
  maxlen, buffer, idx,
  va,        \* arguments passed and not yet taken
  returned,  \* whether the closing NUL is written
  items,     \* how many were worked off
  expected   \* history: what the C standard says the format prints, or Unknown

print == <<maxlen, buffer, idx, va, returned, items, expected>>

Unset == "unset"
Nul   == "NUL"
NoPrecision == -1
Star == -2            \* width or precision taken from an argument
Signed   == {"d", "i"}
Integral == Signed \cup {"u", "x", "X", "o", "b"}

Least(a, b) == IF a < b THEN a ELSE b
Most(a, b)  == IF a > b THEN a ELSE b
Pad(c, n) == [k \in 1..Most(n, 0) |-> c]
Reversed(s) == [k \in DOMAIN s |-> s[Len(s) + 1 - k]]

Lower == <<"0","1","2","3","4","5","6","7","8","9","a","b","c","d","e","f">>
Upper == <<"0","1","2","3","4","5","6","7","8","9","A","B","C","D","E","F">>

Base(conv) == CASE conv \in {"x", "X", "p"} -> 16 [] conv = "o" -> 8
                [] conv = "b" -> 2 [] OTHER -> 10

Conversions == Integral \cup {"c", "s", "p"}
AnyFlag     == {"zero", "left", "plus", "space", "hash"}
Lengths     == {"", "hh", "h", "l", "ll"}
Chars == {"0", "1", "2", "3", "4", "5", "6", "7", "8", "9", "a", "b", "c", "d", "e", "f",
          "A", "B", "C", "D", "E", "F", "x", "X", "+", "-", " "} \cup Letters

(* The arguments a directive takes: width and precision where they are "*", *)
(* then the value.                                                          *)
Stars(d) == (IF d.width = Star THEN 1 ELSE 0) + (IF d.prec = Star THEN 1 ELSE 0)
ValuesOf(conv) == CASE conv \in Integral -> Int [] conv = "p" -> Nat
                    [] conv = "c" -> Chars [] conv = "s" -> Seq(Chars)

ASSUME PrintSizes ==
  /\ NtoaSize \in Nat \ {0} /\ PointerDigits \in Nat
  /\ {CharValues, ShortValues, IntValues, LongValues} \subseteq Nat \ {0}
  /\ Far \in Nat /\ Sizes \subseteq 0..Far /\ Unset \notin Letters

ASSUME ItemsAssumption ==
  Items \subseteq [conv : {"literal"}, char : Chars]
           \cup [conv : Conversions, len : Lengths, flags : SUBSET AnyFlag,
                 width : Nat \cup {Star}, prec : Nat \cup {NoPrecision, Star}]

ASSUME ArgumentsAssumption ==
  \A d \in Items : d.conv # "literal" => \A a \in Arguments(d) :
    /\ a = [k \in 1..Stars(d) + 1 |-> a[k]]
    /\ \A k \in 1..Stars(d) : a[k] \in Int
    /\ a[Stars(d) + 1] \in ValuesOf(d.conv)

-----------------------------------------------------------------------------
(* The loop of _ntoa_long, least significant digit first: value as its      *)
(* rounds find it, and the rounds it runs until value is 0 or buf is full.  *)
Quotients(v, base) ==
  LET value[k \in 0..NtoaSize] == IF k = 0 THEN v ELSE value[k - 1] \div base IN value
Rounds(v, base) == {k \in 1..NtoaSize : k = 1 \/ Quotients(v, base)[k - 1] > 0}
Digit(v, base, k, upper) ==
  (IF upper THEN Upper ELSE Lower)[1 + (Quotients(v, base)[k - 1] % base)]

-----------------------------------------------------------------------------
(* The value of an argument once taken as the directive's type.             *)
ValuesIn(d) == CASE d.len = "hh" -> CharValues [] d.len = "h" -> ShortValues
               [] d.len = "l" -> LongValues [] OTHER -> IntValues
AsUnsigned(v, range) == v % range
AsSigned(v, range) == LET u == v % range IN IF 2 * u < range THEN u ELSE u - range

(* The scratch buffer of a number, least significant digit first: filled    *)
(* with a character up to a length, and given one more.                     *)
FillTo(b, c, n) == b \o Pad(c, Least(n, NtoaSize) - Len(b))
Add(b, c) == IF Len(b) < NtoaSize THEN Append(b, c) ELSE b
AddIf(test, b, c) == IF test THEN Add(b, c) ELSE b

(* A directive with its flags, width, precision and length modifier read.   *)
(* Flags in force after those that do not go with the conversion are        *)
(* dropped (_vsnprintf, case 'd' to 'b', case 'p', and _ntoa_long).         *)
Flags(d, value) ==
  LET dropped ==
        CASE d.conv = "p" -> {}
          [] d.conv \in Integral -> (IF d.conv \notin Signed THEN {"plus", "space"} ELSE {})
                              \cup (IF d.prec # NoPrecision THEN {"zero"} ELSE {})
                              \cup (IF Base(d.conv) = 10 THEN {"hash"} ELSE {})
  IN  (d.flags \cup (IF d.conv = "p" THEN {"zero"} ELSE {}))
        \ (dropped \cup (IF value = 0 THEN {"hash"} ELSE {}))

Scratch(d, value) ==
  IF value = 0 /\ d.prec # NoPrecision THEN <<>>
  ELSE [k \in Rounds(value, Base(d.conv)) |->
          Digit(value, Base(d.conv), k, d.conv \in {"X", "p"})]

(* _ntoa_format: zeroes, then the prefix of the base, for which digits give *)
(* way if they fill the width exactly, then the sign.                       *)
Zeroed(b, d, f, width) ==
  IF "left" \in f THEN b
  ELSE FillTo(FillTo(b, "0", d.prec), "0", IF "zero" \in f THEN width ELSE 0)

GiveWay(b, d, width) ==
  IF d.prec # NoPrecision \/ b = <<>> \/ Len(b) # width THEN b
  ELSE SubSeq(b, 1, Len(b) - (IF Base(d.conv) = 16 /\ Len(b) > 1 THEN 2 ELSE 1))

Prefixed(b, d, f, width) ==
  IF "hash" \notin f THEN b
  ELSE LET kept == GiveWay(b, d, width)
           mark == CASE d.conv = "x" -> "x" [] d.conv \in {"X", "p"} -> "X" [] OTHER -> "b"
       IN  Add(AddIf(Base(d.conv) \in {2, 16}, kept, mark), "0")

Sign(f, negative) ==
  CASE negative -> <<"-">>
    [] ~negative /\ "plus" \in f -> <<"+">>
    [] ~negative /\ "plus" \notin f /\ "space" \in f -> <<" ">>
    [] OTHER -> <<>>

(* _out_rev: the number the right way round, and spaces to the width.       *)
Justified(s, f, width) ==
  IF "left" \in f THEN s \o Pad(" ", width - Len(s)) ELSE Pad(" ", width - Len(s)) \o s

Number(d, value) ==
  LET magnitude == IF value < 0 THEN -value ELSE value
      f     == Flags(d, value)
      width == IF /\ {"left", "zero"} \cap f = {"zero"} /\ d.width > 0
                  /\ value < 0 \/ f \cap {"plus", "space"} # {}
                 THEN d.width - 1 ELSE d.width
      b     == Prefixed(Zeroed(Scratch(d, magnitude), d, f, width), d, f, width)
      sign  == Sign(f, value < 0)
      whole == IF sign = <<>> THEN b ELSE Add(b, sign[1])
  IN  Justified(Reversed(whole), f, IF {"left", "zero"} \cap f = {"zero"} THEN 0 ELSE width)

Cut(str, prec) == IF prec = NoPrecision THEN str ELSE SubSeq(str, 1, Least(prec, Len(str)))

(* What a directive prints for its value.                                   *)
Text(d, value) ==
  CASE d.conv \in Signed -> Number(d, AsSigned(value, ValuesIn(d)))
    [] d.conv \in Integral \ Signed -> Number(d, AsUnsigned(value, ValuesIn(d)))
    [] d.conv = "p" -> Number([d EXCEPT !.width = PointerDigits], value)
    [] d.conv = "c" -> Justified(<<value>>, d.flags, d.width)
    [] d.conv = "s" -> Justified(Cut(value, d.prec), d.flags, d.width)

(* Width and precision taken from arguments, in that order.                 *)
Resolved(d, args) ==
  LET first  == IF d.width = Star THEN args[1] ELSE d.width
      second == args[IF d.width = Star THEN 2 ELSE 1]
  IN  [d EXCEPT !.flags = IF first < 0 THEN @ \cup {"left"} ELSE @,
                !.width = IF first < 0 THEN -first ELSE first,
                !.prec  = IF @ = Star THEN Most(second, 0) ELSE @]

TakesValue(d) == ~(d.len = "ll" /\ d.conv \in Integral)

-----------------------------------------------------------------------------
(* What the C standard says of a directive (with %b, which it leaves free,  *)
(* like %x), for those on which this printf follows it.                     *)
CNumber(d, value) ==
  LET magnitude == IF value < 0 THEN -value ELSE value
      plain  == Reversed(Scratch(d, magnitude))
      digits == Pad("0", d.prec - Len(plain)) \o plain
      sign   == IF d.conv \in Signed THEN Sign(d.flags, value < 0) ELSE <<>>
      prefix == IF "hash" \notin d.flags \/ value = 0 \/ Base(d.conv) = 10 THEN <<>>
                ELSE IF d.conv = "o" THEN <<"0">> ELSE <<"0", d.conv>>
      short  == d.width - Len(sign \o prefix \o digits)
  IN  CASE "left" \in d.flags -> sign \o prefix \o digits \o Pad(" ", short)
        [] "left" \notin d.flags /\ "zero" \in d.flags /\ d.prec = NoPrecision ->
             sign \o prefix \o Pad("0", short) \o digits
        [] OTHER -> Pad(" ", short) \o sign \o prefix \o digits

CText(d, value) ==
  CASE d.conv \in Signed -> CNumber(d, AsSigned(value, ValuesIn(d)))
    [] d.conv \in Integral \ Signed -> CNumber(d, AsUnsigned(value, ValuesIn(d)))
    [] OTHER -> Text(d, value)

(* The directives it follows the standard on: no digits lost to the scratch *)
(* buffer, no precision together with "-", no "#" together with a width or  *)
(* a precision, no "ll".  Every format of the kernel is among them.         *)
Follows(d, value) ==
  d.conv \in Integral =>
    /\ d.len # "ll"
    /\ \A limit \in {AsSigned(value, ValuesIn(d)), AsUnsigned(value, ValuesIn(d))} :
         Len(Scratch(d, Most(limit, -limit))) + 2 <= NtoaSize
    /\ "zero" \in d.flags => d.width <= NtoaSize
    /\ d.prec < NtoaSize
    /\ "left" \in d.flags => d.prec = NoPrecision
    /\ "hash" \in d.flags => d.width = 0 /\ d.prec = NoPrecision

-----------------------------------------------------------------------------
Unknown == <<"unknown">>

(* out(...) for a run of characters.                                        *)
_out_buffer(s) ==
  [k \in 0..Far |-> IF k \in idx..idx + Len(s) - 1 /\ k < maxlen THEN s[k - idx + 1] ELSE buffer[k]]

Emit(s) == buffer' = _out_buffer(s) /\ idx' = idx + Len(s)

Expect(s) == expected' = IF expected = Unknown THEN Unknown ELSE expected \o s

(* A character outside a directive, "%%", or a letter that is no conversion. *)
Literal(d) ==
  /\ d.conv = "literal"
  /\ Emit(<<d.char>>) /\ Expect(<<d.char>>)
  /\ UNCHANGED va

Directive(d) ==
  /\ d.conv # "literal"
  /\ va = <<>> \/ d.conv \in Integral
  /\ \E passed \in Arguments(d) :
       LET args  == va \o passed
           r     == Resolved(d, args)
           taken == Stars(d) + (IF TakesValue(d) THEN 1 ELSE 0)
       IN  IF TakesValue(d)
             THEN LET value == args[taken]
                  IN  /\ Emit(Text(r, value))
                      /\ IF va = <<>> /\ Follows(r, value) THEN Expect(CText(r, value))
                         ELSE expected' = Unknown
                      /\ va' = SubSeq(args, taken + 1, Len(args))
             ELSE /\ va' = SubSeq(args, taken + 1, Len(args))
                  /\ expected' = Unknown
                  /\ UNCHANGED <<buffer, idx>>

Work(d) ==
  /\ ~returned /\ items < MaxItems
  /\ items' = items + 1
  /\ Literal(d) \/ Directive(d)
  /\ UNCHANGED <<maxlen, returned>>

(* out(0, buffer, idx < maxlen ? idx : maxlen - 1, maxlen); with a maxlen   *)
(* of 0 the index wraps around and nothing is written.                      *)
Closing_AtEnd(n) == n
Closing(n) == IF n < maxlen THEN n ELSE maxlen - 1

Return ==
  /\ ~returned
  /\ returned' = TRUE
  /\ buffer' = IF maxlen = 0 \/ Closing(idx) >= maxlen THEN buffer
               ELSE [buffer EXCEPT ![Closing(idx)] = Nul]
  /\ UNCHANGED <<maxlen, idx, va, items, expected>>

PrintInit ==
  /\ maxlen \in Sizes /\ buffer = [k \in 0..Far |-> Unset]
  /\ idx = 0 /\ va = <<>> /\ returned = FALSE /\ items = 0 /\ expected = <<>>

(* snprintf and vsnprintf: any directives, then the end of the format.      *)
PrintNext == Return \/ \E d \in Items : Work(d)

PrintSpec == PrintInit /\ [][PrintNext]_print

-----------------------------------------------------------------------------
(* Properties *)

(* Nothing is written at or past maxlen, however long the output is         *)
(* (stdio.c:46-51, 394), and everything before idx and maxlen is.  What the *)
(* buffer holds in the end is the output cut to its length and closed by a  *)
(* NUL, and the result is the length of the whole output; the output is the *)
(* C standard's for the directives of Follows, whatever the flags, and the  *)
(* arguments are taken up (stdio.c:79-171, 193-396).                        *)
InsideBuffer ==
  \A k \in 0..Far : IF k < Least(idx, maxlen) THEN buffer[k] # Unset
                    ELSE k >= maxlen => buffer[k] = Unset
Result ==
  /\ idx = Len(expected) /\ va = <<>>
  /\ maxlen > 0 =>
       /\ \A k \in 0..Least(idx, maxlen - 1) - 1 : buffer[k] = expected[k + 1]
       /\ buffer[Least(idx, maxlen - 1)] = Nul
PrintsLikeC == InsideBuffer /\ (returned /\ expected # Unknown => Result)
=============================================================================
