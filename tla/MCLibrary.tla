----------------------------- MODULE MCLibrary ------------------------------
(* The functions of the kernel that only compute, side by side: one of them *)
(* runs in a behaviour, the others stay where they begin.                   *)
(* - The allocator, over maps of up to three entries, with the longest      *)
(*   usable entry first, last, twice, at address 0 and nowhere; bases that  *)
(*   are no multiple of the alignments; and three requests, enough to use   *)
(*   up the small heaps.                                                    *)
(* - memmove, over every pair of regions of five bytes, of every overlap.   *)
(* - printf, with two items of every conversion, the first with all flags,  *)
(*   one by one and in pairs; a scratch buffer of 6 bytes and integers of 3 *)
(*   to 6 bits, so that numbers, precisions and widths reach their ends;    *)
(*   and buffers of 0 and 1 byte, one too short for most outputs and one    *)
(*   longer than all.                                                       *)
(* - Rectangles of every size, nothing included, and characters of two by   *)
(*   two pixels, on five by three pixels with a word between the rows.      *)
EXTENDS Allocator, MemMove, Graphics, Printf, FiniteSets

VARIABLE part

Region(type, base, length) == [type |-> type, base |-> base, length |-> length]
MCMaps ==
  {<<Region("reserved", 1, 30), Region("usable", 33, a), Region("usable", 65, b)>> :
     a \in {3, 12}, b \in {3, 12, 20}}
  \cup {<<Region("usable", 0, 16)>>, <<Region("reserved", 5, 16)>>, <<>>}
MCRequests == {<<s, a>> : s \in {0, 1, 3, 8}, a \in {1, 2, 4}}

MCValues == {0, 1, 2}

MCFont == [c \in {33, 65} |-> IF c = 33 THEN <<2, 2>> ELSE <<1, 3>>]

Conversion(conv, lens, flags, widths, precs) ==
  [conv : {conv}, len : lens, flags : flags, width : widths, prec : precs]
AllFlags == {f \in SUBSET {"zero", "left", "plus", "space", "hash"} : Cardinality(f) <= 2}
Few == {{}, {"zero"}, {"left"}}

MCItems ==
  {[conv |-> "literal", char |-> "%"]}
  \cup UNION {Conversion(c, {""}, AllFlags, {0, 2, 4}, {NoPrecision, 0, 3}) : c \in {"d", "x"}}
  \cup UNION {Conversion(c, {"", "l", "hh"}, Few \cup {{"hash"}}, {0, 3}, {NoPrecision}) :
                c \in {"i", "u", "X", "o", "b"}}
  \cup UNION {Conversion(c, {"h", "l", "ll"}, {{}}, {0, Star}, {NoPrecision, Star}) :
                c \in {"d", "u"}}
  \cup Conversion("c", {""}, Few, {0, 3}, {NoPrecision})
  \cup Conversion("s", {""}, Few, {0, 3, Star}, {NoPrecision, 0, 2, Star})
  \cup Conversion("p", {""}, {{}, {"hash"}}, {0}, {NoPrecision})
PlainItems == {d \in MCItems : d.conv = "literal" \/ d.flags = {}}

PrintValues(d) == CASE d.conv = "p" -> {0, 10}
                    [] d.conv = "c" -> {"a"}
                    [] d.conv = "s" -> {<<>>, <<"a", "b", "c">>}
                    [] OTHER -> {-1, 0, 5, 18}
MCArguments(d) ==
  {w \o q \o <<v>> : w \in IF d.width = Star THEN {<<3>>, <<-3>>} ELSE {<<>>},
                     q \in IF d.prec = Star THEN {<<2>>, <<-2>>} ELSE {<<>>},
                     v \in PrintValues(d)}

MCInit ==
  /\ part \in {"malloc", "memmove", "printf", "graphics"}
  /\ part # "malloc"  => map = <<>>
  /\ part # "memmove" => dest = 0 /\ src = 0 /\ len = 0 /\ memory = [a \in Places |-> 0]
  /\ part # "printf"  => maxlen = 0
  /\ part # "graphics" => Pixels = [o \in Offsets |-> IF o % Pitch < GraphicsWidth
                                                     THEN "black" ELSE Stale]
  /\ Init /\ MoveInit /\ PrintInit /\ GraphicsInit

(* The second item is one without flags.                                    *)
FormatNext ==
  \/ Return
  \/ \E d \in IF items = 0 THEN MCItems ELSE PlainItems : Work(d)

MCNext ==
  /\ UNCHANGED part
  /\ \/ part = "malloc"   /\ Next         /\ UNCHANGED <<move, print, graphics>>
     \/ part = "memmove"  /\ MoveNext     /\ UNCHANGED <<vars, print, graphics>>
     \/ part = "printf"   /\ FormatNext   /\ UNCHANGED <<vars, move, graphics>>
     \/ part = "graphics" /\ GraphicsNext /\ UNCHANGED <<vars, move, print>>

MCSpec == MCInit /\ [][MCNext]_<<part, vars, move, print, graphics>>
=============================================================================
