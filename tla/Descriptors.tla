---------------------------- MODULE Descriptors -----------------------------
(***************************************************************************)
(* The tables gdt_init and idt_init of cpu.c fill for the CPU, and what the *)
(* CPU makes of them.  Addresses are taken apart into fields by the code    *)
(* and put together by the CPU: here an address is the sequence of its      *)
(* eight bytes, lowest first.                                               *)
(***************************************************************************)
EXTENDS Integers, Sequences

CONSTANTS
  Addresses,  \* addresses the linker may give the TSS and the stubs
  Stubs,      \* the number of entries of _isr_names_asm
  NameTables  \* what these entries may be

ASSUME AddressesAssumption == Addresses \subseteq [1..8 -> 0..255]
ASSUME StubsAssumption == Stubs \in Nat /\ Stubs >= 48
ASSUME NameTablesAssumption == NameTables \subseteq [0..Stubs - 1 -> Addresses]

VARIABLES
  tss, names,  \* where the TSS and the stub of each interrupt lie
  gdt,         \* descriptors by selector
  idt,         \* gates by vector
  i,           \* the vector idt_init writes next
  selectors,   \* the registers loaded from the GDT
  interrupts   \* the CPU's interrupt flag

vars == <<tss, names, gdt, idt, i, selectors, interrupts>>

Absent == [type |-> 0]

(* struct GDT: a selector is the descriptor's place times 8.  The fields    *)
(* that vary are the type and, for the TSS, the parts of its address; two   *)
(* descriptors hold the 16 bytes of the TSS, whose upper half is stored in  *)
(* the fields for a limit and the low base.                                 *)
Selector(n) == 8 * n
Code == [type |-> 154, long |-> TRUE]    \* 0x9A, flags 0xA0
Data == [type |-> 146, long |-> TRUE]    \* 0x92
TssLow_NoTop(a) ==
  [type |-> 137, base_15_0 |-> SubSeq(a, 1, 2), base_23_16 |-> <<a[3]>>, base_31_24 |-> <<0>>]
TssLow(a) ==
  [type |-> 137, base_15_0 |-> SubSeq(a, 1, 2), base_23_16 |-> <<a[3]>>, base_31_24 |-> <<a[4]>>]
TssHigh(a) ==
  [type |-> 0, limit_15_0 |-> SubSeq(a, 5, 6), base_15_0 |-> SubSeq(a, 7, 8)]

Gdt == <<Absent, Code, Data, Absent, Data, Code, Data, Code, TssLow(tss), TssHigh(tss)>>

(* gdt_init and _load_gdt_and_tss_asm.                                      *)
gdt_init ==
  /\ gdt = <<>>
  /\ gdt' = Gdt
  /\ selectors' = [tr |-> 64, data |-> 16, cs |-> 8]
  /\ UNCHANGED <<tss, names, idt, i, interrupts>>

(* create_descriptor: a present interrupt gate into the kernel's code.  The *)
(* entry of the table of stubs it reads need not be one: what lies behind   *)
(* the table is code, taken for an address.                                 *)
StubOf(v) == IF v < Stubs THEN {names[v]} ELSE Addresses
Gate_SwapsParts(a) ==
  [type |-> 142, selector |-> 8, offset_15_0 |-> SubSeq(a, 1, 2),
   offset_31_16 |-> SubSeq(a, 5, 6), offset_63_32 |-> SubSeq(a, 3, 4) \o SubSeq(a, 7, 8)]
Gate(a) ==
  [type |-> 142, selector |-> 8, offset_15_0 |-> SubSeq(a, 1, 2),
   offset_31_16 |-> SubSeq(a, 3, 4), offset_63_32 |-> SubSeq(a, 5, 8)]

(* idt_init: vectors 0 to 47 in order, with the controllers in between, and *)
(* 255; then the table is loaded and interrupts are enabled.                *)
LastIrqVector == 47
AfterVector(v) == IF v = LastIrqVector THEN 255 ELSE v + 1

create_descriptor ==
  /\ gdt # <<>> /\ i \in 0..255
  /\ \E a \in StubOf(i) : idt' = [idt EXCEPT ![i] = Gate(a)]
  /\ i' = AfterVector(i)
  /\ UNCHANGED <<tss, names, gdt, selectors, interrupts>>

_load_idt_asm ==
  /\ i = 256 /\ ~interrupts
  /\ interrupts' = TRUE
  /\ UNCHANGED <<tss, names, gdt, idt, i, selectors>>

Init ==
  /\ tss \in Addresses /\ names \in NameTables
  /\ gdt = <<>> /\ idt = [v \in 0..255 |-> Absent] /\ i = 0
  /\ selectors = <<>> /\ interrupts = FALSE

Next == gdt_init \/ create_descriptor \/ _load_idt_asm

Spec == Init /\ [][Next]_vars

-----------------------------------------------------------------------------
(* Properties *)

Present(d) == d.type >= 128

(* How the CPU reads a gate and a task descriptor: the fields in the order  *)
(* of their weight.                                                         *)
Target(g) == g.offset_15_0 \o g.offset_31_16 \o g.offset_63_32
TaskAt(n) == gdt[n].base_15_0 \o gdt[n].base_23_16 \o gdt[n].base_31_24
               \o gdt[n + 1].limit_15_0 \o gdt[n + 1].base_15_0

(* What the CPU finds through the selectors it is given: the task register  *)
(* finds the TSS where it lies, and code and data selectors find            *)
(* descriptors of their kind (cpu.c:158-244, platform.s:180-193).           *)
SelectorsFind ==
  gdt # <<>> =>
    /\ selectors.tr = Selector(8) /\ TaskAt(9) = tss
    /\ gdt[selectors.cs \div 8 + 1] = Code /\ gdt[selectors.data \div 8 + 1] = Data

(* Once interrupts are enabled every exception and every interrupt of the   *)
(* controllers has a present gate, which leads through a loaded code        *)
(* segment to its own stub; before, none is delivered (cpu.c:248-305).  The *)
(* 256th gate is left out: create_descriptor(255) reads behind the table.   *)
InterruptsReachStubs ==
  interrupts =>
    \A v \in 0..47 : /\ Present(idt[v]) /\ gdt[idt[v].selector \div 8 + 1] = Code
                     /\ Target(idt[v]) = names[v]
=============================================================================
