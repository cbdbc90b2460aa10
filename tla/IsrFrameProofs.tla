--------------------------- MODULE IsrFrameProofs ---------------------------
(***************************************************************************)
(* The interrupt path of platform.s for every set of vectors, any number of *)
(* interrupts and every contents of the registers: what the stack holds at  *)
(* each step of it, by which names the handler reads it, and that the       *)
(* interrupted code gets its own values back.                               *)
(***************************************************************************)
EXTENDS IsrFrame, TLAPS

(* What the CPU pushed last, and what the stub left on top of it.           *)
ErrorOf(v) == IF v \in CpuPushesError THEN ErrorCode ELSE 0

OnStack(n, f) == stack[n] = ProgramControl[f]

(* The five words the CPU pushes, below n others.                           *)
ControlBelow(n) ==
  /\ stack \in Seq(Int) /\ Len(stack) = n + 5
  /\ OnStack(n + 1, "rip") /\ OnStack(n + 2, "cs") /\ OnStack(n + 3, "rflags")
  /\ OnStack(n + 4, "rsp") /\ OnStack(n + 5, "ss")

VectorBelow(n) == stack[n + 1] = vector /\ stack[n + 2] = ErrorOf(vector)

(* A register file that holds the values of the interrupted code.           *)
Files == [Registers -> Int]
OwnValues(f) == {f[r] : r \in Registers} = {Program[r] : r \in Registers}
SavedOnTop(f) == \A i \in 1..15 : stack[i] = f[pusha64[16 - i]]

StackFits ==
  /\ at = "running" => stack = << >>
  /\ at = "stub" /\ vector \in CpuPushesError => ControlBelow(1) /\ stack[1] = ErrorCode
  /\ at = "stub" /\ vector \notin CpuPushesError => ControlBelow(0)
  /\ at \in {"save", "return"} => ControlBelow(2) /\ VectorBelow(0)
  /\ at \in {"handler", "restore", "halted"} =>
       /\ ControlBelow(17) /\ VectorBelow(15)
       /\ \E f \in Files : OwnValues(f) /\ SavedOnTop(f)
  /\ at = "handler" => SavedOnTop(regs)

Steps == {"running", "stub", "save", "handler", "restore", "halted", "return"}

IInv ==
  /\ at \in Steps /\ vector \in Int /\ taken \in Nat
  /\ regs \in Files /\ control = ProgramControl
  /\ at \in {"running", "stub", "save", "return"} => OwnValues(regs)
  /\ StackFits

-----------------------------------------------------------------------------
(* The operands of the two macros, and the fields of the struct, are all    *)
(* different, so that each is found at its own place.                       *)
LEMMA PushNames ==
  /\ DOMAIN pusha64 = 1..15 /\ Len(pusha64) = 15 /\ popa64 = pusha64
  /\ \A i, j \in 1..15 : pusha64[i] = pusha64[j] => i = j
  BY DEF pusha64, popa64

LEMMA PopPlaces ==
  \A i \in 1..15 : (CHOOSE j \in DOMAIN popa64 : popa64[j] = pusha64[i]) = i
  BY PushNames

LEMMA FieldPlaces ==
  \A i \in 1..22 : FieldIndex[interrupt_cpu_state_t[i]] = i
<1>1. DOMAIN interrupt_cpu_state_t = 1..22
    BY DEF interrupt_cpu_state_t
<1>2. \A i, j \in 1..22 : interrupt_cpu_state_t[i] = interrupt_cpu_state_t[j] => i = j
    BY DEF interrupt_cpu_state_t
<1> QED
  BY <1>1, <1>2 DEF FieldIndex

LEMMA NamedPlaces ==
  /\ FieldIndex["isr_number"] = 16 /\ FieldIndex["error_code"] = 17
  /\ FieldIndex["rip"] = 18 /\ FieldIndex["cs"] = 19 /\ FieldIndex["rflags"] = 20
  /\ FieldIndex["rsp"] = 21 /\ FieldIndex["ss"] = 22
<1>1. /\ interrupt_cpu_state_t[16] = "isr_number" /\ interrupt_cpu_state_t[17] = "error_code"
      /\ interrupt_cpu_state_t[18] = "rip" /\ interrupt_cpu_state_t[19] = "cs"
      /\ interrupt_cpu_state_t[20] = "rflags" /\ interrupt_cpu_state_t[21] = "rsp"
      /\ interrupt_cpu_state_t[22] = "ss"
    BY DEF interrupt_cpu_state_t
<1> QED
    BY <1>1, FieldPlaces

(* Pushing on top of the stack, and dropping from it.                       *)
IsOnTop(r, s, t) ==
  /\ r \in Seq(Int) /\ Len(r) = Len(s) + Len(t)
  /\ \A i \in 1..Len(s) : r[i] = s[i]
  /\ \A i \in 1..Len(t) : r[i + Len(s)] = t[i]

LEMMA Pushed ==
  ASSUME NEW s \in Seq(Int), NEW t \in Seq(Int)
  PROVE  IsOnTop(s \o t, s, t)
<1> DEFINE r == s \o t
<1>1. r \in Seq(Int) /\ Len(r) = Len(s) + Len(t)
    OBVIOUS
<1>2. \A i \in 1..Len(s) + Len(t) : r[i] = IF i <= Len(s) THEN s[i] ELSE t[i - Len(s)]
    OBVIOUS
<1>3. Len(s) \in Nat /\ Len(t) \in Nat
    OBVIOUS
<1> HIDE DEF r
<1>4. \A i \in 1..Len(s) : r[i] = s[i]
    BY <1>2, <1>3
<1>5. ASSUME NEW i \in 1..Len(t) PROVE r[i + Len(s)] = t[i]
  <2>1. i + Len(s) \in 1..Len(s) + Len(t) /\ ~(i + Len(s) <= Len(s))
        /\ i + Len(s) - Len(s) = i
      BY <1>3
  <2> QED
      BY <1>2, <2>1
<1>6. IsOnTop(r, s, t)
    BY <1>1, <1>4, <1>5 DEF IsOnTop
<1> QED
    BY <1>6 DEF r

IsBelow(r, s, n) ==
  /\ r \in Seq(Int) /\ Len(r) = Len(s) - n
  /\ \A i \in 1..Len(s) - n : r[i] = s[i + n]

LEMMA Dropped ==
  ASSUME NEW s \in Seq(Int), NEW n \in 0..Len(s)
  PROVE  IsBelow(SubSeq(s, n + 1, Len(s)), s, n)
  BY DEF IsBelow

-----------------------------------------------------------------------------
LEMMA InitIInv == Init => IInv
  BY ProgramAssumption DEF Init, IInv, Files, Steps, OwnValues, StackFits

LEMMA InterruptStep == ASSUME IInv, NEW v \in Vectors, Interrupt(v) PROVE IInv'
<1>1. /\ at' = "stub" /\ vector' = v /\ taken' = taken + 1
      /\ regs' = regs /\ control' = control /\ at = "running"
    BY DEF Interrupt
<1>2. v \in Int
    BY VectorsAssumption
<1> DEFINE c == ProgramControl
           below == <<c.rip, c.cs, c.rflags, c.rsp, c.ss>>
<1>3. <<control.rip, control.cs, control.rflags, control.rsp, control.ss>> = below
    BY DEF IInv
<1>4. below \in Seq(Int) /\ Len(below) = 5
    BY ControlAssumption
<1>5. /\ below[1] = ProgramControl["rip"] /\ below[2] = ProgramControl["cs"]
      /\ below[3] = ProgramControl["rflags"] /\ below[4] = ProgramControl["rsp"]
      /\ below[5] = ProgramControl["ss"]
    OBVIOUS
<1>6. CASE v \in CpuPushesError
  <2> DEFINE top == <<ErrorCode>>
  <2>1. stack' = top \o below
      BY <1>3, <1>6 DEF Interrupt
  <2>2. top \in Seq(Int) /\ Len(top) = 1 /\ top[1] = ErrorCode
      BY WordsAssumption
  <2> HIDE DEF below, top
  <2>3. IsOnTop(stack', top, below)
      BY <1>4, <2>1, <2>2, Pushed, Zenon
  <2>4. ControlBelow(1)' /\ stack'[1] = ErrorCode
      BY <1>4, <1>5, <2>2, <2>3 DEF IsOnTop, ControlBelow, OnStack
  <2>5. StackFits'
      BY <1>1, <1>6, <2>4 DEF StackFits
  <2> QED
      BY <1>1, <1>2, <2>5, SMTT(60) DEF IInv, Steps, OwnValues
<1>7. CASE v \notin CpuPushesError
  <2>1. stack' = << >> \o below
      BY <1>3, <1>7 DEF Interrupt
  <2>2. stack' = below
      BY <1>4, <2>1
  <2> HIDE DEF below
  <2>3. ControlBelow(0)'
      BY <1>4, <1>5, <2>2 DEF ControlBelow, OnStack
  <2>4. StackFits'
      BY <1>1, <1>7, <2>3 DEF StackFits
  <2> QED
      BY <1>1, <1>2, <2>4, SMTT(60) DEF IInv, Steps, OwnValues
<1> QED
    BY <1>6, <1>7

LEMMA StubStep == ASSUME IInv, Stub PROVE IInv'
<1>1. /\ at = "stub" /\ at' = "save" /\ vector' = vector /\ taken' = taken
      /\ regs' = regs /\ control' = control
    BY DEF Stub
<1>2. vector \in ISR_STUB_ERR <=> vector \in CpuPushesError
    BY DEF ISR_STUB_ERR, CpuPushesError
<1> DEFINE top == <<vector>>
           error == IF vector \in ISR_STUB_ERR THEN << >> ELSE <<0>>
           both == top \o error
<1>3. top \in Seq(Int) /\ Len(top) = 1 /\ top[1] = vector
    BY DEF IInv
<1>4. error \in Seq(Int)
    OBVIOUS
<1>5. stack \in Seq(Int)
    BY <1>1 DEF IInv, StackFits, ControlBelow
<1>6. stack' = both \o stack
    BY <1>5 DEF Stub
<1> HIDE DEF top, both
<1>7. IsOnTop(both, top, error)
    BY <1>3, <1>4, Pushed, Zenon DEF both
<1>8. IsOnTop(stack', both, stack)
    BY <1>5, <1>6, <1>7, Pushed, ZenonT(60) DEF IsOnTop
<1>9. ControlBelow(2)' /\ VectorBelow(0)'
  <2>1. CASE vector \in CpuPushesError
    <3>1. ControlBelow(1) /\ stack[1] = ErrorCode /\ error = << >>
        BY <1>1, <1>2, <2>1 DEF IInv, StackFits
    <3>2. Len(both) = 1 /\ both[1] = vector
        BY <1>3, <1>7, <3>1 DEF IsOnTop
    <3> QED
        BY <1>1, <1>8, <2>1, <3>1, <3>2
        DEF IsOnTop, ControlBelow, VectorBelow, OnStack, ErrorOf
  <2>2. CASE vector \notin CpuPushesError
    <3>1. ControlBelow(0) /\ error = <<0>>
        BY <1>1, <1>2, <2>2 DEF IInv, StackFits
    <3>2. Len(both) = 2 /\ both[1] = vector /\ both[2] = 0
        BY <1>3, <1>7, <3>1 DEF IsOnTop
    <3> QED
        BY <1>1, <1>8, <2>2, <3>1, <3>2
        DEF IsOnTop, ControlBelow, VectorBelow, OnStack, ErrorOf
  <2> QED
      BY <2>1, <2>2
<1>10. StackFits'
    BY <1>1, <1>9 DEF StackFits
<1> QED
    BY <1>1, <1>10 DEF IInv, Steps, OwnValues

LEMMA SaveStep == ASSUME IInv, SaveRegisters PROVE IInv'
<1>1. /\ at = "save" /\ at' = "handler" /\ vector' = vector /\ taken' = taken
      /\ regs' = regs /\ control' = control
    BY DEF SaveRegisters
<1> DEFINE s == [i \in 1..15 |-> regs[pusha64[i]]]
           p == Reverse(s)
<1>2. \A i \in 1..15 : s[i] \in Int
    BY PushNames DEF IInv, Files, Registers
<1>3. s \in Seq(Int) /\ Len(s) = 15
    BY <1>2
<1>4. p \in Seq(Int) /\ Len(p) = 15 /\ \A i \in 1..15 : p[i] = regs[pusha64[16 - i]]
    BY <1>2, <1>3 DEF Reverse
<1>5. stack' = p \o stack
    BY PushNames DEF SaveRegisters
<1>6. ControlBelow(2) /\ VectorBelow(0)
    BY <1>1 DEF IInv, StackFits
<1> HIDE DEF p
<1>7. stack \in Seq(Int) /\ Len(stack) = 7
    BY <1>6 DEF ControlBelow
<1>8. IsOnTop(stack', p, stack)
    BY <1>4, <1>5, <1>7, Pushed, Zenon
<1>9. stack' \in Seq(Int) /\ Len(stack') = 22
      /\ (\A i \in 1..15 : stack'[i] = regs[pusha64[16 - i]])
      /\ (\A i \in 1..7 : stack'[i + 15] = stack[i])
    BY <1>4, <1>7, <1>8 DEF IsOnTop
<1>10. ControlBelow(17)' /\ VectorBelow(15)'
    BY <1>1, <1>6, <1>9 DEF ControlBelow, VectorBelow, OnStack
<1>11. regs \in Files /\ OwnValues(regs) /\ \A i \in 1..15 : stack'[i] = regs[pusha64[16 - i]]
    BY <1>1, <1>9 DEF IInv
<1>12. \E f \in Files : OwnValues(f) /\ SavedOnTop(f)'
    BY <1>11 DEF IInv, SavedOnTop
<1>13. SavedOnTop(regs)'
    BY <1>1, <1>9 DEF SavedOnTop
<1>14. StackFits'
    BY <1>1, <1>10, <1>12, <1>13 DEF StackFits, OwnValues
<1> QED
    BY <1>1, <1>14 DEF IInv, Steps, OwnValues

LEMMA HandlerStep == ASSUME IInv, IsrHandler PROVE IInv'
<1>1. /\ at = "handler" /\ at' \in {"halted", "restore"} /\ vector' = vector
      /\ taken' = taken /\ regs' = Called /\ control' = control /\ stack' = stack
    BY DEF IsrHandler
<1>2. Called \in Files
    BY WordsAssumption DEF Called, Files, IInv
<1>3. StackFits'
    BY <1>1 DEF IInv, StackFits, ControlBelow, VectorBelow, OnStack, SavedOnTop, OwnValues
<1> QED
    BY <1>1, <1>2, <1>3 DEF IInv, Steps

LEMMA RestoreStep == ASSUME IInv, RestoreRegisters PROVE IInv'
<1>1. /\ at = "restore" /\ at' = "return" /\ vector' = vector /\ taken' = taken
      /\ control' = control /\ stack' = SubSeq(stack, Len(popa64) + 1, Len(stack))
    BY DEF RestoreRegisters
<1>2. ControlBelow(17) /\ VectorBelow(15)
    BY <1>1 DEF IInv, StackFits
<1>3. PICK f \in Files : OwnValues(f) /\ SavedOnTop(f)
    BY <1>1 DEF IInv, StackFits
<1>4. stack' \in Seq(Int) /\ Len(stack') = 7 /\ \A i \in 1..7 : stack'[i] = stack[i + 15]
  <2>1. stack \in Seq(Int) /\ Len(stack) = 22
      BY <1>2 DEF ControlBelow
  <2>2. Len(popa64) \in 0..Len(stack) /\ Len(popa64) = 15
      BY <2>1, PushNames
  <2>3. IsBelow(stack', stack, Len(popa64))
      BY <1>1, <2>1, <2>2, Dropped, Zenon
  <2> QED
      BY <2>1, <2>2, <2>3 DEF IsBelow
<1>5. StackFits'
    BY <1>1, <1>2, <1>4 DEF StackFits, ControlBelow, VectorBelow, OnStack
<1>6. \A i \in 1..15 : pusha64[i] \in Registers /\ regs'[pusha64[i]] = stack[i]
    BY PushNames, PopPlaces DEF RestoreRegisters, Registers
<1>7. \A i \in 1..15 : regs'[pusha64[i]] = f[pusha64[16 - i]]
    BY <1>3, <1>6 DEF SavedOnTop
<1>8. regs' \in Files
  <2>1. DOMAIN regs' = Registers /\ regs' = [r \in Registers |-> regs'[r]]
      BY DEF RestoreRegisters
  <2>2. \A r \in Registers : regs'[r] \in Int
      BY <1>3, <1>6, <1>7, PushNames DEF Registers, Files
  <2> QED
      BY <2>1, <2>2 DEF Files
<1>9. {regs'[r] : r \in Registers} = {f[r] : r \in Registers}
  <2>1. ASSUME NEW r \in Registers PROVE \E q \in Registers : f[q] = regs'[r]
    <3>1. PICK i \in 1..15 : r = pusha64[i]
        BY PushNames DEF Registers
    <3>2. pusha64[16 - i] \in Registers
        BY <1>6
    <3> QED
        BY <1>7, <3>1, <3>2
  <2>2. ASSUME NEW r \in Registers PROVE \E q \in Registers : regs'[q] = f[r]
    <3>1. PICK i \in 1..15 : r = pusha64[i]
        BY PushNames DEF Registers
    <3>2. 16 - i \in 1..15 /\ 16 - (16 - i) = i
        OBVIOUS
    <3>3. regs'[pusha64[16 - i]] = f[r] /\ pusha64[16 - i] \in Registers
        BY <1>6, <1>7, <3>1, <3>2
    <3> QED
        BY <3>3
  <2> QED
      BY <2>1, <2>2
<1> QED
    BY <1>1, <1>3, <1>5, <1>8, <1>9 DEF IInv, Steps, OwnValues

LEMMA ReturnStep == ASSUME IInv, InterruptReturn PROVE IInv'
<1>1. /\ at = "return" /\ at' = "running" /\ vector' = vector /\ taken' = taken
      /\ regs' = regs
      /\ control' = [rip |-> Skipped[1], cs |-> Skipped[2], rflags |-> Skipped[3],
                     rsp |-> Skipped[4], ss |-> Skipped[5]]
      /\ stack' = SubSeq(Skipped, 6, Len(Skipped))
    BY DEF InterruptReturn
<1>2. ControlBelow(2)
    BY <1>1 DEF IInv, StackFits
<1>3. Skipped \in Seq(Int) /\ Len(Skipped) = 5 /\ \A i \in 1..5 : Skipped[i] = stack[i + 2]
  <2>1. stack \in Seq(Int) /\ Len(stack) = 7
      BY <1>2 DEF ControlBelow
  <2>2. Skipped = SubSeq(stack, 2 + 1, Len(stack)) /\ 2 \in 0..Len(stack)
      BY <2>1 DEF Skipped
  <2>3. IsBelow(Skipped, stack, 2)
      BY <2>1, <2>2, Dropped, Zenon
  <2> QED
      BY <2>1, <2>3 DEF IsBelow
<1>4. stack' = << >>
    BY <1>1, <1>3
<1>5. /\ Skipped[1] = ProgramControl.rip /\ Skipped[2] = ProgramControl.cs
      /\ Skipped[3] = ProgramControl.rflags /\ Skipped[4] = ProgramControl.rsp
      /\ Skipped[5] = ProgramControl.ss
    BY <1>2, <1>3 DEF ControlBelow, OnStack
<1>6. control' = ProgramControl
    BY <1>1, <1>5, ControlAssumption
<1> QED
    BY <1>1, <1>4, <1>6 DEF IInv, Steps, OwnValues, StackFits

LEMMA StepIInv == IInv /\ [Next]_vars => IInv'
<1>1. ASSUME IInv, UNCHANGED vars PROVE IInv'
    BY <1>1, ZenonT(60) DEF IInv, vars, StackFits, OwnValues, ControlBelow, VectorBelow, OnStack, SavedOnTop
<1> QED
    BY <1>1, InterruptStep, StubStep, SaveStep, HandlerStep, RestoreStep, ReturnStep DEF Next

LEMMA Inductive == Spec => []IInv
  BY InitIInv, StepIInv, PTL DEF Spec

-----------------------------------------------------------------------------
(* The field of a general register is where pusha64 put that register, but  *)
(* for rbp and rsi.                                                         *)
LEMMA RegisterPlaces ==
  /\ \A i \in (1..15) \ {5, 7} : FieldIndex[pusha64[i]] = 16 - i
  /\ pusha64[5] = "rbp" /\ pusha64[7] = "rsi"
<1>1. \A i \in (1..15) \ {5, 7} : pusha64[i] = interrupt_cpu_state_t[16 - i]
    BY DEF pusha64, interrupt_cpu_state_t
<1>2. \A i \in (1..15) \ {5, 7} : 16 - i \in 1..22
    OBVIOUS
<1>3. pusha64[5] = "rbp" /\ pusha64[7] = "rsi"
    BY DEF pusha64
<1> QED
    BY <1>1, <1>2, <1>3, FieldPlaces

(* The C handler finds everything under its name, for every vector and      *)
(* every contents of the registers, but for the registers rbp and rsi       *)
(* (platform.s:1-17, 56-117, cpu.c:12-35).                                  *)
THEOREM FrameMatchesHolds == Spec => []FrameMatches
<1>1. ASSUME IInv, at = "handler" PROVE FrameMatches
  <2>1. ControlBelow(17) /\ VectorBelow(15) /\ SavedOnTop(regs)
      BY <1>1 DEF IInv, StackFits
  <2>2. \A c \in DOMAIN ProgramControl : Field(c) = ProgramControl[c]
    <3>1. DOMAIN ProgramControl = {"rip", "cs", "rflags", "rsp", "ss"}
        BY ControlAssumption
    <3>2. /\ Field("rip") = ProgramControl["rip"] /\ Field("cs") = ProgramControl["cs"]
          /\ Field("rflags") = ProgramControl["rflags"]
          /\ Field("rsp") = ProgramControl["rsp"] /\ Field("ss") = ProgramControl["ss"]
        BY <2>1, NamedPlaces DEF Field, ControlBelow, OnStack
    <3> QED
        BY <3>1, <3>2
  <2>3. \A r \in Registers \ {"rbp", "rsi"} : Field(r) = regs[r]
    <3>1. ASSUME NEW r \in Registers \ {"rbp", "rsi"} PROVE Field(r) = regs[r]
      <4>1. PICK i \in 1..15 : r = pusha64[i]
          BY PushNames DEF Registers
      <4>2. i \notin {5, 7}
          BY <4>1, RegisterPlaces
      <4>3. 16 - i \in 1..15 /\ 16 - (16 - i) = i
          OBVIOUS
      <4>4. stack[16 - i] = regs[pusha64[i]]
          BY <2>1, <4>3 DEF SavedOnTop
      <4> QED
          BY <4>1, <4>2, <4>4, RegisterPlaces DEF Field
    <3> QED
        BY <3>1
  <2>4. /\ Field("isr_number") = vector
        /\ Field("error_code") = IF vector \in CpuPushesError THEN ErrorCode ELSE 0
      BY <2>1, NamedPlaces DEF Field, VectorBelow, ErrorOf
  <2> QED
      BY <2>2, <2>3, <2>4 DEF FrameMatches
<1>2. IInv => FrameMatches
    BY <1>1 DEF FrameMatches
<1> QED
    BY <1>2, Inductive, PTL

(* The interrupted code goes on at its instruction, on its stack and with   *)
(* its flags, however many interrupts it takes (platform.s:42-50).          *)
THEOREM ControlRestoredHolds == Spec => []ControlRestored
<1>1. IInv => ControlRestored
    BY DEF IInv, StackFits, ControlRestored
<1> QED
    BY <1>1, Inductive, PTL

(* The interrupted code gets its own values back, in some order, and none   *)
(* of the handler's (platform.s:1-35).                                      *)
THEOREM OwnValuesReturnHolds == Spec => []OwnValuesReturn
<1>1. IInv => OwnValuesReturn
    BY DEF IInv, OwnValues, OwnValuesReturn
<1> QED
    BY <1>1, Inductive, PTL
=============================================================================
