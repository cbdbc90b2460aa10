------------------------------ MODULE IsrFrame ------------------------------
(***************************************************************************)
(* The path of one interrupt through platform.s and isr_handler, as the     *)
(* registers and the stack see it: the frame the CPU pushes, the stub of    *)
(* the vector, pusha64, the C handler with its view of the stack as an      *)
(* interrupt_cpu_state_t, popa64 and iretq.  Interrupts are disabled from   *)
(* the first step to the last, so the path is never entered twice.          *)
(***************************************************************************)
EXTENDS Integers, SequencesExt

CONSTANTS
  Vectors,        \* the interrupts and exceptions taken
  Program,        \* the general registers of the interrupted code
  ProgramControl, \* its rip, cs, rflags, rsp and ss
  ErrorCode,      \* what the CPU pushes for an exception that has one
  Junk,           \* what a C function leaves in a register it may change
  MaxInterrupts   \* bound: interrupts taken

ASSUME VectorsAssumption == Vectors \subseteq 0..47
ASSUME ControlAssumption ==
  ProgramControl \in [rip : Int, cs : Int, rflags : Int, rsp : Int, ss : Int]
ASSUME WordsAssumption == ErrorCode \in Int /\ Junk \in Int
ASSUME InterruptsAssumption == MaxInterrupts \in Nat

VARIABLES
  at,        \* how far the interrupt is
  vector,    \* the interrupt being handled
  regs,      \* the general registers
  control,   \* rip, cs, rflags, rsp and ss of the interrupted code
  stack,     \* what has been pushed since the interrupt, top first
  taken      \* interrupts taken so far

vars == <<at, vector, regs, control, stack, taken>>

-----------------------------------------------------------------------------
(* The operands of the macros, in the order they are written.               *)
pusha64 == <<"rax", "rbx", "rcx", "rdx", "rbp", "rdi", "rsi", "r8", "r9",
             "r10", "r11", "r12", "r13", "r14", "r15">>

popa64_NoR15 == <<"rax", "rbx", "rcx", "rdx", "rbp", "rdi", "rsi", "r8", "r9",
                  "r10", "r11", "r12", "r13", "r14", "r14">>
popa64 == <<"rax", "rbx", "rcx", "rdx", "rbp", "rdi", "rsi", "r8", "r9",
            "r10", "r11", "r12", "r13", "r14", "r15">>

Registers == {pusha64[i] : i \in DOMAIN pusha64}

ASSUME ProgramAssumption == Program \in [Registers -> Int]

(* The fields of interrupt_cpu_state_t, from the lowest address up.         *)
interrupt_cpu_state_t ==
  <<"r15", "r14", "r13", "r12", "r11", "r10", "r9", "r8", "rbp", "rdi", "rsi",
    "rdx", "rcx", "rbx", "rax", "isr_number", "error_code",
    "rip", "cs", "rflags", "rsp", "ss">>

FieldIndex == [f \in {interrupt_cpu_state_t[i] : i \in DOMAIN interrupt_cpu_state_t} |->
                 CHOOSE i \in DOMAIN interrupt_cpu_state_t : interrupt_cpu_state_t[i] = f]
Field(f) == stack[FieldIndex[f]]

-----------------------------------------------------------------------------
(* The exceptions for which the CPU pushes an error code.                   *)
CpuPushesError == {8, 10, 11, 12, 13, 14, 17, 21}

(* The stubs that leave the place of the error code to the CPU.             *)
ISR_STUB_ERR_NoAlignment == {8, 10, 11, 12, 13, 14, 21}
ISR_STUB_ERR == {8, 10, 11, 12, 13, 14, 17, 21}

(* The CPU takes an interrupt.                                              *)
Interrupt(v) ==
  /\ at = "running" /\ taken < MaxInterrupts
  /\ at' = "stub" /\ vector' = v /\ taken' = taken + 1
  /\ stack' = (IF v \in CpuPushesError THEN <<ErrorCode>> ELSE << >>)
                \o <<control.rip, control.cs, control.rflags, control.rsp, control.ss>>
  /\ UNCHANGED <<regs, control>>

(* The stub of the vector.                                                  *)
Stub ==
  /\ at = "stub" /\ at' = "save"
  /\ stack' = <<vector>> \o (IF vector \in ISR_STUB_ERR THEN << >> ELSE <<0>>) \o stack
  /\ UNCHANGED <<vector, regs, control, taken>>

SaveRegisters ==
  /\ at = "save" /\ at' = "handler"
  /\ stack' = Reverse([i \in DOMAIN pusha64 |-> regs[pusha64[i]]]) \o stack
  /\ UNCHANGED <<vector, regs, control, taken>>

(* What a C function may leave in the registers.                            *)
CalleeSaved == {"rbx", "rbp", "r12", "r13", "r14", "r15"}
Called == [r \in Registers |-> IF r \in CalleeSaved THEN regs[r] ELSE Junk]

(* isr_handler: an exception is dumped and stops the machine; an IRQ is     *)
(* handled (module Interrupts) and the stack pointer comes back unchanged.  *)
IsrHandler ==
  /\ at = "handler"
  /\ at' = IF Field("isr_number") <= 31 THEN "halted" ELSE "restore"
  /\ regs' = Called
  /\ UNCHANGED <<vector, control, stack, taken>>

RestoreRegisters ==
  /\ at = "restore" /\ at' = "return"
  /\ regs' = [r \in Registers |->
                IF r \in {popa64[i] : i \in DOMAIN popa64}
                THEN stack[CHOOSE i \in DOMAIN popa64 : popa64[i] = r] ELSE regs[r]]
  /\ stack' = SubSeq(stack, Len(popa64) + 1, Len(stack))
  /\ UNCHANGED <<vector, control, taken>>

(* add rsp, 16: the vector and the error code.                              *)
Skipped_VectorOnly == SubSeq(stack, 2, Len(stack))
Skipped == SubSeq(stack, 3, Len(stack))

InterruptReturn ==
  /\ at = "return" /\ at' = "running"
  /\ control' = [rip |-> Skipped[1], cs |-> Skipped[2], rflags |-> Skipped[3],
                 rsp |-> Skipped[4], ss |-> Skipped[5]]
  /\ stack' = SubSeq(Skipped, 6, Len(Skipped))
  /\ UNCHANGED <<vector, regs, taken>>

Init ==
  /\ at = "running" /\ vector = 0 /\ taken = 0
  /\ regs = Program /\ control = ProgramControl
  /\ stack = << >>

Next == \/ \E v \in Vectors : Interrupt(v)
        \/ Stub \/ SaveRegisters \/ IsrHandler \/ RestoreRegisters \/ InterruptReturn

Spec == Init /\ [][Next]_vars

-----------------------------------------------------------------------------
(* Properties *)

(* The C handler finds everything under its name, whichever vector it is:   *)
(* the vector, the error code, rip, cs, rflags, rsp and ss (the stubs and   *)
(* the struct agree with the CPU about which vectors have an error code,    *)
(* platform.s:56-117, cpu.c:28-35) and the general registers as they were   *)
(* when the interrupt came (platform.s:1-17, cpu.c:12-26), but for rbp   *)
(* and rsi: the struct has rbp, rdi, rsi upwards where pusha64 pushes them  *)
(* in this order, downwards.                                                *)
FrameMatches ==
  at = "handler" =>
    /\ Field("isr_number") = vector
    /\ Field("error_code") = IF vector \in CpuPushesError THEN ErrorCode ELSE 0
    /\ \A c \in DOMAIN ProgramControl : Field(c) = ProgramControl[c]
    /\ \A r \in Registers \ {"rbp", "rsi"} : Field(r) = regs[r]

(* The interrupted code goes on at its instruction, on its stack and with   *)
(* its flags, however many interrupts it has taken (platform.s:42-50).      *)
ControlRestored ==
  at = "running" => control = ProgramControl /\ stack = << >>

(* No value of the handler or of the frame reaches the interrupted code: it *)
(* gets its own values back, in some order (platform.s:1-35).               *)
OwnValuesReturn ==
  at = "running" => {regs[r] : r \in Registers} = {Program[r] : r \in Registers}

(* After popa64 every register holds what pusha64 saved of it.              *)
RegistersRestored == at = "running" => regs = Program
=============================================================================
