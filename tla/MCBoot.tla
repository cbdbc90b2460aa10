------------------------------- MODULE MCBoot -------------------------------
(* One of three inputs varies in a behaviour, the others stay plain:        *)
(* - the clock: one or two seconds before every kind of carry, at both      *)
(*   noons, in a leap year, before and after 2000, in all four settings of  *)
(*   register B, with updates at any point of the read;                     *)
(* - the addresses: one all of whose bytes differ, and one of the upper     *)
(*   half of the address space, where the kernel is linked;                 *)
(* - the modules: maps of two entries, after the framebuffer, before it,    *)
(*   without it or none at all; modules of two types, complete or without   *)
(*   one of the sections, with the shell's name, another, a part of it, one *)
(*   that goes on, and none; and the repository's three in any order.       *)
EXTENDS Boot, ModuleHeader

At(y, mo, d, h, mi, s) ==
  [Year |-> y, Month |-> mo, Day |-> d, Hour |-> h, Minute |-> mi, Second |-> s]

MCStarts == {
  At(2021, 12, 31, 23, 59, 58), At(2024, 2, 28, 23, 59, 59), At(2021, 4, 30, 22, 59, 59),
  At(1999, 12, 31, 23, 59, 59), At(2000, 3, 1, 0, 0, 0),     At(2001, 1, 9, 9, 19, 59),
  At(2021, 8, 15, 11, 59, 59),  At(2021, 8, 15, 0, 30, 10),  At(2069, 6, 7, 13, 45, 59)}
MCModes == [binary : BOOLEAN, hours24 : BOOLEAN]

MCAddresses == {<<1, 2, 3, 4, 5, 6, 7, 8>>, <<16, 32, 48, 128, 255, 255, 255, 255>>}
(* One address for even and one for odd entries.                            *)
MCNameTables ==
  {[v \in 0..Stubs - 1 |-> IF v % 2 = 0 THEN a ELSE b] : a \in MCAddresses, b \in MCAddresses}

MCShell == <<"S", "h">>
Names == {MCShell, <<"S">>, <<"S", "h", "2">>, <<"T">>, <<>>}

Without(s, n) == [k \in 1..Len(s) - 1 |-> IF k < n THEN s[k] ELSE s[k + 1]]

Complete == module_header(MCShell)
Images ==
  {[module_header(name) EXCEPT !.Type = kind] :
     kind \in {"raw", "executable"}, name \in Names}
  \cup {[Complete EXCEPT !.Type = kind, !.Sections = Without(@, n)] :
          kind \in {"raw", "executable"}, n \in 1..4}
  \cup {[Complete EXCEPT !.type = "usable", !.magic = magic] : magic \in BOOLEAN}
  \cup {[Complete EXCEPT !.magic = FALSE]}

(* The modules of the repository, in any order.                             *)
Shipped == {p \in [1..3 -> {Complete, tetris_header, template_header}] :
              \A j, k \in 1..3 : p[j] = p[k] => j = k}

Screen == [identifier |-> "framebuffer", entries |-> <<>>]
Map(e) == [identifier |-> "memmap", entries |-> e]
PlainTags == <<Screen, Map(<<>>)>>
MCTagLists ==
  {<<>>, <<Screen>>, <<Map(<<>>)>>, PlainTags}
  \cup {<<Screen, Map(<<a, b>>)>> : a \in Images, b \in Images}
  \cup {<<Map(<<a>>), Screen>> : a \in Images}
  \cup {<<Screen, Map(p)>> : p \in Shipped}

PlainTime == time = At(2000, 3, 1, 0, 0, 0) /\ mode = [binary |-> TRUE, hours24 |-> TRUE]
PlainAddresses == \A v \in DOMAIN names : names[v] = tss

MCInit ==
  /\ BootInit
  /\ \/ tags = PlainTags /\ PlainAddresses
     \/ tags = PlainTags /\ PlainTime /\ ~updating
     \/ PlainAddresses /\ PlainTime /\ ~updating

(* The clock's updates belong to its input.                                 *)
MCNext == BootNext /\ (updating' => tags = PlainTags /\ PlainAddresses)

MCSpec == MCInit /\ [][MCNext]_boot
=============================================================================
