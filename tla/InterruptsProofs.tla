-------------------------- MODULE InterruptsProofs --------------------------
(* Proofs about Interrupts for every set of lines, every set of scancodes   *)
(* and every bound.                                                         *)
EXTENDS Interrupts, SequenceTheorems, TLAPS

LEMMA KMainPositions ==
  /\ Len(KMain) = 17
  /\ DOMAIN KMain = 1..17
  /\ \A i \in 1..17 :
       /\ KMain[i] = "pmm_init" <=> i = 1
       /\ KMain[i] = "serial_init" <=> i = 2
       /\ KMain[i] = "graphics_init" <=> i = 3
       /\ KMain[i] = "terminal_init" <=> i = 4
       /\ KMain[i] = "gdt_init" <=> i = 6
       /\ KMain[i] = "pic_init" <=> i = 8
       /\ KMain[i] = "load_idt" <=> i = 9
       /\ KMain[i] = "ps2_init" <=> i = 11
       /\ KMain[i] = "rtc_read" <=> i = 13
       /\ KMain[i] \in PrintStatements <=> i \in {5, 7, 10, 12, 14, 15}
       /\ KMain[i] = "keyboard_event_register" <=> i = 16
       /\ KMain[i] = "hlt" <=> i = 17
BY DEF KMain, PrintStatements

(* Every variable keeps the range of its declaration: in particular kmain   *)
(* never runs past its idle loop and every handler entered is one the kernel *)
(* has.                                                                     *)
THEOREM TypeCorrect == Spec => []TypeOK
<1> USE DEF NULL, KeyboardLine, TimerLine, bootVars, picVars, deviceVars,
            kernelVars, readVars
<1>1. Init => TypeOK
  <2> SUFFICES ASSUME Init PROVE TypeOK
    OBVIOUS
  <2> USE DEF Init
  <2>1. BootTypes  BY KMainPositions DEF BootTypes
  <2>2. FlagTypes  BY DEF FlagTypes
  <2>3. PicTypes /\ BufferType  BY DEF PicTypes, BufferType
  <2>4. StreamTypes  BY DEF StreamTypes
  <2>5. KernelTypes  BY DEF KernelTypes
  <2>6. FrameType  BY LinesAssumption DEF FrameType, NoFrame, Positions
  <2> QED  BY <2>1, <2>2, <2>3, <2>4, <2>5, <2>6 DEF TypeOK
<1>2. TypeOK /\ [Next]_vars => TypeOK'
  <2> SUFFICES ASSUME BootTypes, FlagTypes, PicTypes, BufferType, StreamTypes,
                      KernelTypes, FrameType, [Next]_vars
               PROVE  TypeOK'
    BY DEF TypeOK
  <2>1. CASE InitSubsystem
    <3> USE <2>1 DEF InitSubsystem
    <3>1. BootTypes'
      <4>1. PICK call \in DOMAIN Initialises : At(call) /\ Advance(Initialises[call])
        OBVIOUS
      <4>2. Initialises[call] \subseteq Subsystems
        BY DEF Initialises, Subsystems
      <4>3. ready' \in SUBSET Subsystems
        BY <4>1, <4>2 DEF BootTypes, Advance
      <4>4. pc \in 1..17 /\ pc # 17 /\ pc' = pc + 1
        BY <4>1, KMainPositions DEF BootTypes, Advance, At, KMain, Initialises
      <4> QED  BY <4>3, <4>4, KMainPositions DEF BootTypes
    <3>2. FlagTypes'  BY DEF FlagTypes, Advance
    <3>3. PicTypes' /\ BufferType' /\ StreamTypes' /\ KernelTypes' /\
          FrameType'
      BY DEF PicTypes, BufferType, StreamTypes, KernelTypes, FrameType
    <3> QED  BY <3>1, <3>2, <3>3 DEF TypeOK
  <2>2. CASE PrintMessage
    <3> USE <2>2 DEF PrintMessage
    <3>1. BootTypes'  BY KMainPositions DEF BootTypes, At, Advance,
          PrintStatements
    <3>2. FlagTypes'  BY DEF FlagTypes, Advance
    <3>3. PicTypes' /\ BufferType' /\ StreamTypes' /\ KernelTypes' /\
          FrameType'
      BY DEF PicTypes, BufferType, StreamTypes, KernelTypes, FrameType
    <3> QED  BY <3>1, <3>2, <3>3 DEF TypeOK
  <2>3. CASE PicInit
    <3> USE <2>3 DEF PicInit
    <3>1. BootTypes'  BY KMainPositions DEF BootTypes, At, Advance, Subsystems
    <3>2. PicTypes'  BY DEF PicTypes
    <3>3. FlagTypes'  BY DEF FlagTypes, Advance
    <3>4. BufferType' /\ StreamTypes' /\ KernelTypes' /\ FrameType'
      BY DEF BufferType, StreamTypes, KernelTypes, FrameType
    <3> QED  BY <3>1, <3>2, <3>3, <3>4 DEF TypeOK
  <2>4. CASE LoadIdt
    <3> USE <2>4 DEF LoadIdt
    <3>1. BootTypes'  BY KMainPositions DEF BootTypes, At, Advance
    <3>2. FlagTypes'  BY DEF FlagTypes, Advance
    <3>3. PicTypes' /\ BufferType' /\ StreamTypes' /\ KernelTypes' /\
          FrameType'
      BY DEF PicTypes, BufferType, StreamTypes, KernelTypes, FrameType
    <3> QED  BY <3>1, <3>2, <3>3 DEF TypeOK
  <2>5. CASE Ps2Init
    <3> USE <2>5 DEF Ps2Init
    <3>1. BootTypes'  BY KMainPositions DEF BootTypes, At, Advance
    <3>2. KernelTypes'  BY DEF KernelTypes, Handlers
    <3>3. FlagTypes'  BY DEF FlagTypes, Advance
    <3>4. PicTypes' /\ BufferType' /\ StreamTypes' /\ FrameType'
      BY DEF PicTypes, BufferType, StreamTypes, FrameType
    <3> QED  BY <3>1, <3>2, <3>3, <3>4 DEF TypeOK
  <2>6. CASE RegisterBootAnyKey
    <3> USE <2>6 DEF RegisterBootAnyKey
    <3>1. BootTypes'  BY KMainPositions DEF BootTypes, At, Advance
    <3>2. KernelTypes'  BY DEF KernelTypes, KeyEvents
    <3>3. FlagTypes'  BY DEF FlagTypes, Advance
    <3>4. PicTypes' /\ BufferType' /\ StreamTypes' /\ FrameType'
      BY DEF PicTypes, BufferType, StreamTypes, FrameType
    <3> QED  BY <3>1, <3>2, <3>3, <3>4 DEF TypeOK
  <2>7. CASE IsrHandler
    <3> USE <2>7 DEF IsrHandler
    <3>1. FlagTypes'  BY DEF FlagTypes
    <3>2. PicTypes'  BY DEF PicTypes, EndOfInterrupt, ClearHighest, SlaveBits
    <3>3. FrameType'  BY KernelTypes DEF FrameType, KernelTypes, Dispatch,
          Handlers, Positions
    <3>4. BootTypes' /\ BufferType' /\ StreamTypes' /\ KernelTypes'
      BY DEF BootTypes, BufferType, StreamTypes, KernelTypes
    <3> QED  BY <3>1, <3>2, <3>3, <3>4 DEF TypeOK
  <2>8. CASE KeyboardIrqHandler
    <3> USE <2>8 DEF KeyboardIrqHandler
    <3>1. FlagTypes'  BY DEF FlagTypes
    <3>2. BufferType'  BY DEF BufferType, ReadByte
    <3>3. StreamTypes'  BY BufferType DEF StreamTypes, BufferType, ReadByte
    <3>4. FrameType'
      <4>1. CASE obf.byte = EscapePrefix
        BY <4>1 DEF FrameType, Positions
      <4>2. CASE obf.byte # EscapePrefix
        <5> DEFINE newline == ~esc /\ obf.byte % 128 = ReturnCode
                   release == obf.byte >= 128
        <5>1. Dispatch(key_event) \in Positions
          BY DEF KernelTypes, KeyEvents, Dispatch, Positions
        <5>2. isr' = [isr EXCEPT !.at = Dispatch(key_event),
                                 !.newline = newline, !.released = release]
          BY <4>2, Zenon
        <5>3. newline \in BOOLEAN /\ release \in BOOLEAN
          OBVIOUS
        <5> HIDE DEF newline, release
        <5> QED  BY <5>1, <5>2, <5>3 DEF FrameType
      <4> QED  BY <4>1, <4>2
    <3>5. BootTypes' /\ PicTypes' /\ KernelTypes'
      BY DEF BootTypes, PicTypes, KernelTypes
    <3> QED  BY <3>1, <3>2, <3>3, <3>4, <3>5 DEF TypeOK
  <2>9. CASE BootAnyKey
    <3> USE <2>9 DEF BootAnyKey
    <3>1. KernelTypes'  BY LinesAssumption DEF KernelTypes, Handlers,
          KeyEvents
    <3>2. FrameType'  BY DEF FrameType, Positions
    <3>3. BootTypes' /\ FlagTypes' /\ PicTypes' /\ BufferType' /\ StreamTypes'
      BY DEF BootTypes, FlagTypes, PicTypes, BufferType, StreamTypes
    <3> QED  BY <3>1, <3>2, <3>3 DEF TypeOK
  <2>10. CASE ModuleInit
    <3> USE <2>10 DEF ModuleInit
    <3>1. KernelTypes'  BY DEF KernelTypes, StartShell
    <3>2. FrameType'  BY DEF FrameType, StartShell, Positions
    <3>3. BootTypes' /\ FlagTypes' /\ PicTypes' /\ BufferType' /\ StreamTypes'
      BY DEF BootTypes, FlagTypes, PicTypes, BufferType, StreamTypes
    <3> QED  BY <3>1, <3>2, <3>3 DEF TypeOK
  <2>11. CASE ShellInit
    <3> USE <2>11 DEF ShellInit
    <3>1. FlagTypes'  BY DEF FlagTypes
    <3>2. FrameType'  BY DEF FrameType, Positions
    <3>3. BootTypes' /\ PicTypes' /\ BufferType' /\ StreamTypes' /\
          KernelTypes'
      BY DEF BootTypes, PicTypes, BufferType, StreamTypes, KernelTypes
    <3> QED  BY <3>1, <3>2, <3>3 DEF TypeOK
  <2>12. CASE ForwardSignal
    <3> USE <2>12 DEF ForwardSignal
    <3>1. FrameType'  BY DEF FrameType, Positions
    <3>2. BootTypes' /\ FlagTypes' /\ PicTypes' /\ BufferType' /\
          StreamTypes' /\ KernelTypes'
      BY DEF BootTypes, FlagTypes, PicTypes, BufferType, StreamTypes,
             KernelTypes
    <3> QED  BY <3>1, <3>2 DEF TypeOK
  <2>13. CASE ShellSignal
    <3> USE <2>13 DEF ShellSignal
    <3>1. FrameType'  BY DEF FrameType, Positions
    <3>2. BootTypes' /\ FlagTypes' /\ PicTypes' /\ BufferType' /\
          StreamTypes' /\ KernelTypes'
      BY DEF BootTypes, FlagTypes, PicTypes, BufferType, StreamTypes,
             KernelTypes
    <3> QED  BY <3>1, <3>2 DEF TypeOK
  <2>14. CASE IsrReturn
    <3> USE <2>14 DEF IsrReturn
    <3>1. FlagTypes'  BY DEF FlagTypes
    <3>2. FrameType'  BY LinesAssumption DEF FrameType, Positions, NoFrame
    <3>3. BootTypes' /\ PicTypes' /\ BufferType' /\ StreamTypes' /\
          KernelTypes'
      BY DEF BootTypes, PicTypes, BufferType, StreamTypes, KernelTypes
    <3> QED  BY <3>1, <3>2, <3>3 DEF TypeOK
  <2>20. CASE RunWild
    <3> USE <2>20 DEF RunWild
    <3>1. FlagTypes'  BY DEF FlagTypes
    <3>2. FrameType'  BY LinesAssumption DEF FrameType, Positions, NoFrame
    <3>3. BootTypes' /\ PicTypes' /\ BufferType' /\ StreamTypes' /\
          KernelTypes'
      BY DEF BootTypes, PicTypes, BufferType, StreamTypes, KernelTypes
    <3> QED  BY <3>1, <3>2, <3>3 DEF TypeOK
  <2>21. CASE TakeException
    <3> USE <2>21 DEF TakeException
    <3>1. FlagTypes'  BY DEF FlagTypes
    <3>2. FrameType'  BY LinesAssumption DEF FrameType, Positions, NoFrame
    <3>3. BootTypes' /\ PicTypes' /\ BufferType' /\ StreamTypes' /\
          KernelTypes'
      BY DEF BootTypes, PicTypes, BufferType, StreamTypes, KernelTypes
    <3> QED  BY <3>1, <3>2, <3>3 DEF TypeOK
  <2>22. CASE UnhandledException
    <3> USE <2>22 DEF UnhandledException
    <3>1. FlagTypes'  BY DEF FlagTypes
    <3>2. FrameType'  BY LinesAssumption DEF FrameType, Positions, NoFrame
    <3>3. BootTypes' /\ PicTypes' /\ BufferType' /\ StreamTypes' /\
          KernelTypes'
      BY DEF BootTypes, PicTypes, BufferType, StreamTypes, KernelTypes
    <3> QED  BY <3>1, <3>2, <3>3 DEF TypeOK
  <2>15. ASSUME NEW n \in Lines, Accept(n) PROVE TypeOK'
    <3> USE <2>15 DEF Accept
    <3>1. PicTypes'  BY LinesAssumption DEF PicTypes, Raised
    <3>2. FlagTypes'  BY DEF FlagTypes
    <3>3. FrameType'  BY DEF FrameType, Positions, NoFrame
    <3>4. BootTypes' /\ BufferType' /\ StreamTypes' /\ KernelTypes'
      BY DEF BootTypes, BufferType, StreamTypes, KernelTypes
    <3> QED  BY <3>1, <3>2, <3>3, <3>4 DEF TypeOK
  <2>16. CASE TypeByte
    <3> USE <2>16 DEF TypeByte
    <3>1. StreamTypes'  BY DEF StreamTypes
    <3>2. BootTypes' /\ FlagTypes' /\ PicTypes' /\ BufferType' /\
          KernelTypes' /\ FrameType'
      BY DEF BootTypes, FlagTypes, PicTypes, BufferType, KernelTypes,
             FrameType
    <3> QED  BY <3>1, <3>2 DEF TypeOK
  <2>17. CASE LoadOutputBuffer
    <3> USE <2>17 DEF LoadOutputBuffer
    <3>1. PicTypes'  BY LinesAssumption DEF PicTypes
    <3>2. BufferType'  BY StreamTypes DEF BufferType, StreamTypes
    <3>3. StreamTypes'  BY DEF StreamTypes
    <3>4. BootTypes' /\ FlagTypes' /\ KernelTypes' /\ FrameType'
      BY DEF BootTypes, FlagTypes, KernelTypes, FrameType
    <3> QED  BY <3>1, <3>2, <3>3, <3>4 DEF TypeOK
  <2>18. ASSUME NEW n \in Lines \ {KeyboardLine}, RaiseLine(n) PROVE TypeOK'
    <3> USE <2>18 DEF RaiseLine
    <3>1. PicTypes'  BY DEF PicTypes
    <3>2. StreamTypes'  BY DEF StreamTypes
    <3>3. BootTypes' /\ FlagTypes' /\ BufferType' /\ KernelTypes' /\
          FrameType'
      BY DEF BootTypes, FlagTypes, BufferType, KernelTypes, FrameType
    <3> QED  BY <3>1, <3>2, <3>3 DEF TypeOK
  <2>19. CASE UNCHANGED vars
    <3> USE <2>19 DEF vars
    <3>1. FlagTypes' /\ PicTypes' /\ BufferType'
      BY DEF FlagTypes, PicTypes, BufferType
    <3>2. BootTypes' /\ StreamTypes' /\ KernelTypes' /\ FrameType'
      BY DEF BootTypes, StreamTypes, KernelTypes, FrameType
    <3> QED  BY <3>1, <3>2 DEF TypeOK
  <2> QED
    BY <2>1, <2>2, <2>3, <2>4, <2>5, <2>6, <2>7, <2>8, <2>9, <2>10, <2>11,
       <2>12, <2>13, <2>14, <2>15, <2>16, <2>17, <2>18, <2>19, <2>20, <2>21,
       <2>22
       DEF Next, Main, Handler
<1>3. QED
  BY <1>1, <1>2, PTL DEF Spec

-----------------------------------------------------------------------------
(* The inductive invariant.                                                 *)

(* What kmain has initialised by the time it is at statement pc, that       *)
(* interrupts are only ever taken after load_idt, the ninth, and that it    *)
(* takes one to lose kmain, and a lost kmain to get an exception.           *)
BootProgress ==
  /\ pc > 1 => "pmm" \in ready
  /\ pc > 2 => "serial" \in ready
  /\ pc > 3 => "graphics" \in ready
  /\ pc > 4 => "terminal" \in ready
  /\ pc > 6 => "gdt" \in ready
  /\ pc > 8 => "idt" \in ready
  /\ intr \/ isr.at # "none" \/ derailed => pc > 9
  /\ isr.at \in {"exception", "halted"} => derailed

(* A key event handler exists only once kmain is idle, and everything that  *)
(* follows from a key event comes after that.                               *)
HandlersInstalled ==
  /\ key_event # NULL => pc = 17
  /\ \A n \in Lines :
       /\ irq_handlers[n] = "keyboard_irq_handler" => n = KeyboardLine
       /\ irq_handlers[n] = "timer_event" => n = TimerLine /\ key_event = "module_key"
  /\ isr.at = "boot_any_key" => key_event = "boot_any_key"
  /\ isr.at \in {"module_key", "module_list", "signal_init", "timer_event"}
       => key_event = "module_key"
  /\ module_cur_handler # NULL => key_event = "module_key"

(* The shell is current from its INIT signal on, and has its functions when *)
(* that signal has been handled.                                            *)
ShellStarted ==
  /\ fns => module_cur_handler # NULL
  /\ module_cur_handler # NULL => fns \/ isr.at = "signal_init"
  /\ isr.at = "signal_init" => module_cur_handler # NULL /\ ~fns
  /\ isr.at = "module_list" => module_cur_handler = NULL
  /\ isr.at = "signal" => module_cur_handler # NULL

PicState == inService = IF isr.at = "eoi" THEN Raised(isr.irq) ELSE {}

(* A pending or running IRQ 1 has its byte in the output buffer, once.      *)
KeyboardState ==
  /\ ByteHasInterrupt
  /\ KeyboardLine \in irr => obf.full
  /\ isr.at = "keyboard_irq_handler" => isr.irq = KeyboardLine
  /\ isr.at \in {"eoi", "keyboard_irq_handler"} /\ isr.irq = KeyboardLine
       => obf.full /\ KeyboardLine \notin irr

IInv == /\ BootProgress /\ HandlersInstalled /\ ShellStarted
        /\ PicState /\ KeyboardState

(* The invariant holds in every reachable state: each action is checked     *)
(* against each part of it.                                                 *)
THEOREM Inductive == Spec => []IInv
<1> USE DEF NULL, KeyboardLine, TimerLine, bootVars, picVars, deviceVars,
            kernelVars, readVars
<1>1. Init => IInv
  BY LinesAssumption DEF Init, IInv, BootProgress, HandlersInstalled,
      ShellStarted, PicState, KeyboardState, ByteHasInterrupt, NoFrame
<1>2. TypeOK /\ IInv /\ [Next]_vars => IInv'
  <2> SUFFICES ASSUME BootTypes, FlagTypes, PicTypes, BufferType, StreamTypes,
                      KernelTypes, FrameType, BootProgress,
                          HandlersInstalled, ShellStarted, PicState,
                              KeyboardState, [Next]_vars
               PROVE  IInv'
    BY DEF TypeOK, IInv
  <2>1. CASE InitSubsystem
    <3> USE <2>1 DEF InitSubsystem
    <3>1. BootProgress' /\ HandlersInstalled'
      BY KMainPositions DEF BootProgress, HandlersInstalled, BootTypes, At,
          Advance, Initialises
    <3>2. ShellStarted' /\ PicState' /\ KeyboardState'
      BY DEF ShellStarted, PicState, KeyboardState, ByteHasInterrupt
    <3> QED  BY <3>1, <3>2 DEF IInv
  <2>2. CASE PrintMessage
    <3> USE <2>2 DEF PrintMessage
    <3>1. BootProgress' /\ HandlersInstalled'
      BY KMainPositions DEF BootProgress, HandlersInstalled, BootTypes, At,
          Advance, PrintStatements
    <3>2. ShellStarted' /\ PicState' /\ KeyboardState'
      BY DEF ShellStarted, PicState, KeyboardState, ByteHasInterrupt
    <3> QED  BY <3>1, <3>2 DEF IInv
  <2>3. CASE PicInit
    <3> USE <2>3 DEF PicInit
    <3>1. BootProgress' /\ HandlersInstalled'
      BY KMainPositions DEF BootProgress, HandlersInstalled, BootTypes, At,
          Advance
    <3>2. ShellStarted' /\ PicState' /\ KeyboardState'
      BY DEF ShellStarted, PicState, KeyboardState, ByteHasInterrupt, At
    <3> QED  BY <3>1, <3>2 DEF IInv
  <2>4. CASE LoadIdt
    <3> USE <2>4 DEF LoadIdt
    <3>1. BootProgress' /\ HandlersInstalled'
      BY KMainPositions DEF BootProgress, HandlersInstalled, BootTypes, At,
          Advance
    <3>2. ShellStarted' /\ PicState' /\ KeyboardState'
      BY DEF ShellStarted, PicState, KeyboardState, ByteHasInterrupt
    <3> QED  BY <3>1, <3>2 DEF IInv
  <2>5. CASE Ps2Init
    <3> USE <2>5 DEF Ps2Init
    <3>1. BootProgress' /\ HandlersInstalled'
      BY KMainPositions DEF BootProgress, HandlersInstalled, BootTypes, At,
          Advance
    <3>2. ShellStarted' /\ PicState' /\ KeyboardState'
      BY DEF ShellStarted, PicState, KeyboardState, ByteHasInterrupt
    <3> QED  BY <3>1, <3>2 DEF IInv
  <2>6. CASE RegisterBootAnyKey
    <3> USE <2>6 DEF RegisterBootAnyKey
    <3>1. BootProgress' /\ HandlersInstalled'
      BY KMainPositions DEF BootProgress, HandlersInstalled, BootTypes, At,
          Advance
    <3>2. ShellStarted' /\ PicState' /\ KeyboardState'
      BY DEF ShellStarted, PicState, KeyboardState, ByteHasInterrupt
    <3> QED  BY <3>1, <3>2 DEF IInv
  <2>7. CASE IsrHandler
    <3> USE <2>7 DEF IsrHandler
    <3>1. /\ \/ isr'.at = "iret" /\ irq_handlers[isr.irq] = NULL
             \/ isr'.at \in Handlers /\ isr'.at = irq_handlers[isr.irq]
          /\ isr'.irq = isr.irq
      BY DEF FrameType, KernelTypes, Dispatch, Handlers
    <3>2. BootProgress'  BY <3>1 DEF BootProgress, Handlers
    <3>3. HandlersInstalled'  BY <3>1 DEF HandlersInstalled, Handlers, FrameType
    <3>4. ShellStarted'  BY <3>1 DEF ShellStarted, Handlers
    <3>5. PicState'
      <4>1. isr.irq \in Int /\ inService = Raised(isr.irq)
        BY LinesAssumption DEF FrameType, PicState
      <4>2. EndOfInterrupt(isr.irq) = {}
        BY <4>1 DEF EndOfInterrupt, ClearHighest, SlaveBits, Raised
      <4> QED  BY <3>1, <4>2 DEF PicState, Handlers
    <3>6. KeyboardState'
      <4>1. /\ isr'.at = "keyboard_irq_handler" => isr.irq = KeyboardLine
            /\ isr'.at = "timer_event" => isr.irq = TimerLine
        BY <3>1 DEF HandlersInstalled, FrameType
      <4>2. isr'.at = "iret" /\ isr.irq = KeyboardLine => missed'
        BY <3>1, Zenon DEF Handlers
      <4>3. missed => missed'
        OBVIOUS
      <4>4. CASE isr.irq = KeyboardLine
        BY <3>1, <4>1, <4>2, <4>4 DEF KeyboardState, Handlers, ByteHasInterrupt
      <4>5. CASE isr.irq # KeyboardLine
        BY <3>1, <4>1, <4>3, <4>5 DEF KeyboardState, Handlers, ByteHasInterrupt
      <4> QED  BY <4>4, <4>5
    <3> QED  BY <3>2, <3>3, <3>4, <3>5, <3>6 DEF IInv
  <2>8. CASE KeyboardIrqHandler
    <3> USE <2>8 DEF KeyboardIrqHandler
    <3>1. /\ \/ isr'.at = "iret"
             \/ isr'.at \in KeyEvents /\ isr'.at = key_event
          /\ isr'.irq = isr.irq
      BY ZenonT(60) DEF FrameType, KernelTypes, Dispatch, KeyEvents
    <3>2. BootProgress'  BY <3>1 DEF BootProgress, ReadByte, KeyEvents
    <3>3. HandlersInstalled'  BY <3>1 DEF HandlersInstalled, ReadByte, KeyEvents
    <3>4. ShellStarted'  BY <3>1 DEF ShellStarted, ReadByte, KeyEvents
    <3>5. PicState'  BY <3>1 DEF PicState, ReadByte, KeyEvents
    <3>6. KeyboardState'
      BY <3>1 DEF KeyboardState, ReadByte, KeyEvents, ByteHasInterrupt
    <3> QED  BY <3>2, <3>3, <3>4, <3>5, <3>6 DEF IInv
  <2>9. CASE BootAnyKey
    <3> USE <2>9 DEF BootAnyKey
    <3>1. /\ isr'.at = (IF isr.newline THEN "module_list" ELSE "iret")
          /\ isr'.irq = isr.irq
      BY DEF FrameType
    <3>2. BootProgress'  BY <3>1 DEF BootProgress
    <3>3. HandlersInstalled'  BY <3>1 DEF HandlersInstalled, KernelTypes
    <3>4. ShellStarted'  BY <3>1 DEF ShellStarted, HandlersInstalled
    <3>5. PicState'  BY <3>1 DEF PicState
    <3>6. KeyboardState'  BY <3>1 DEF KeyboardState, ByteHasInterrupt
    <3> QED  BY <3>2, <3>3, <3>4, <3>5, <3>6 DEF IInv
  <2>10. CASE ModuleInit
    <3> USE <2>10 DEF ModuleInit
    <3>1. /\ \/ isr'.at = "signal_init" /\ module_cur_handler' = "Shell"
             \/ isr'.at = "iret" /\ UNCHANGED module_cur_handler
          /\ isr'.irq = isr.irq
      BY DEF FrameType, StartShell
    <3>2. BootProgress'  BY <3>1 DEF BootProgress, StartShell, KernelTypes
    <3>3. HandlersInstalled'
      BY <3>1 DEF HandlersInstalled, StartShell, KernelTypes
    <3>4. ShellStarted'  BY <3>1 DEF ShellStarted, StartShell, KernelTypes
    <3>5. PicState'  BY <3>1 DEF PicState, StartShell, KernelTypes
    <3>6. KeyboardState'
      BY <3>1 DEF KeyboardState, StartShell, KernelTypes, ByteHasInterrupt
    <3> QED  BY <3>2, <3>3, <3>4, <3>5, <3>6 DEF IInv
  <2>11. CASE ShellInit
    <3> USE <2>11 DEF ShellInit
    <3>1. /\ isr'.at = "iret"
          /\ isr'.irq = isr.irq
      BY DEF FrameType
    <3>2. BootProgress'  BY <3>1 DEF BootProgress
    <3>3. HandlersInstalled'  BY <3>1 DEF HandlersInstalled
    <3>4. ShellStarted'  BY <3>1 DEF ShellStarted
    <3>5. PicState'  BY <3>1 DEF PicState
    <3>6. KeyboardState'  BY <3>1 DEF KeyboardState, ByteHasInterrupt
    <3> QED  BY <3>2, <3>3, <3>4, <3>5, <3>6 DEF IInv
  <2>12. CASE ForwardSignal
    <3> USE <2>12 DEF ForwardSignal
    <3>1. /\ isr'.at = (IF module_cur_handler = NULL THEN "iret" ELSE "signal")
          /\ isr'.irq = isr.irq
      BY DEF FrameType
    <3>2. BootProgress'  BY <3>1 DEF BootProgress
    <3>3. HandlersInstalled'  BY <3>1 DEF HandlersInstalled
    <3>4. ShellStarted'  BY <3>1 DEF ShellStarted
    <3>5. PicState'  BY <3>1 DEF PicState
    <3>6. KeyboardState'  BY <3>1 DEF KeyboardState, ByteHasInterrupt
    <3> QED  BY <3>2, <3>3, <3>4, <3>5, <3>6 DEF IInv
  <2>13. CASE ShellSignal
    <3> USE <2>13 DEF ShellSignal
    <3>1. /\ isr'.at = "iret"
          /\ isr'.irq = isr.irq
      BY DEF FrameType
    <3>2. BootProgress'  BY <3>1 DEF BootProgress
    <3>3. HandlersInstalled'  BY <3>1 DEF HandlersInstalled
    <3>4. ShellStarted'  BY <3>1 DEF ShellStarted
    <3>5. PicState'  BY <3>1 DEF PicState
    <3>6. KeyboardState'  BY <3>1 DEF KeyboardState, ByteHasInterrupt
    <3> QED  BY <3>2, <3>3, <3>4, <3>5, <3>6 DEF IInv
  <2>14. CASE IsrReturn
    <3> USE <2>14 DEF IsrReturn
    <3>1. isr'.at = "none"
      BY DEF NoFrame
    <3>2. BootProgress'  BY <3>1 DEF BootProgress, NoFrame
    <3>3. HandlersInstalled'  BY <3>1 DEF HandlersInstalled, NoFrame
    <3>4. ShellStarted'  BY <3>1 DEF ShellStarted, NoFrame
    <3>5. PicState'  BY <3>1 DEF PicState, NoFrame
    <3>6. KeyboardState'  BY <3>1 DEF KeyboardState, NoFrame, ByteHasInterrupt
    <3> QED  BY <3>2, <3>3, <3>4, <3>5, <3>6 DEF IInv
  <2>20. CASE RunWild
    <3> USE <2>20 DEF RunWild
    <3>1. BootProgress'  BY DEF BootProgress
    <3>2. HandlersInstalled'  BY DEF HandlersInstalled
    <3>3. ShellStarted'  BY DEF ShellStarted
    <3>4. PicState'  BY DEF PicState
    <3>5. KeyboardState'  BY DEF KeyboardState, ByteHasInterrupt
    <3> QED  BY <3>1, <3>2, <3>3, <3>4, <3>5 DEF IInv
  <2>21. CASE TakeException
    <3> USE <2>21 DEF TakeException
    <3>1. isr'.at = "exception"
      BY DEF NoFrame, FrameType
    <3>2. BootProgress'  BY <3>1 DEF BootProgress
    <3>3. HandlersInstalled'  BY <3>1 DEF HandlersInstalled
    <3>4. ShellStarted'  BY <3>1 DEF ShellStarted
    <3>5. PicState'  BY <3>1 DEF PicState
    <3>6. KeyboardState'  BY <3>1 DEF KeyboardState, ByteHasInterrupt
    <3> QED  BY <3>2, <3>3, <3>4, <3>5, <3>6 DEF IInv
  <2>22. CASE UnhandledException
    <3> USE <2>22 DEF UnhandledException
    <3>1. isr'.at = "halted"
      BY DEF NoFrame, FrameType
    <3>2. BootProgress'  BY <3>1 DEF BootProgress
    <3>3. HandlersInstalled'  BY <3>1 DEF HandlersInstalled
    <3>4. ShellStarted'  BY <3>1 DEF ShellStarted
    <3>5. PicState'  BY <3>1 DEF PicState
    <3>6. KeyboardState'  BY <3>1 DEF KeyboardState, ByteHasInterrupt
    <3> QED  BY <3>2, <3>3, <3>4, <3>5, <3>6 DEF IInv
  <2>15. ASSUME NEW n \in Lines, Accept(n) PROVE IInv'
    <3> USE <2>15 DEF Accept
    <3>1. BootProgress'  BY DEF BootProgress, NoFrame
    <3>2. HandlersInstalled'  BY DEF HandlersInstalled, NoFrame
    <3>3. ShellStarted'  BY DEF ShellStarted, NoFrame
    <3>4. PicState'  BY DEF PicState, NoFrame
    <3>5. KeyboardState'  BY DEF KeyboardState, NoFrame, ByteHasInterrupt
    <3> QED  BY <3>1, <3>2, <3>3, <3>4, <3>5 DEF IInv
  <2>16. CASE TypeByte
    <3> USE <2>16 DEF TypeByte
    <3>1. BootProgress'  BY DEF BootProgress
    <3>2. HandlersInstalled'  BY DEF HandlersInstalled
    <3>3. ShellStarted'  BY DEF ShellStarted
    <3>4. PicState'  BY DEF PicState
    <3>5. KeyboardState'  BY DEF KeyboardState, ByteHasInterrupt
    <3> QED  BY <3>1, <3>2, <3>3, <3>4, <3>5 DEF IInv
  <2>17. CASE LoadOutputBuffer
    <3> USE <2>17 DEF LoadOutputBuffer
    <3>1. BootProgress'  BY DEF BootProgress
    <3>2. HandlersInstalled'  BY DEF HandlersInstalled
    <3>3. ShellStarted'  BY DEF ShellStarted
    <3>4. PicState'  BY DEF PicState
    <3>5. KeyboardState'  BY DEF KeyboardState, ByteHasInterrupt
    <3> QED  BY <3>1, <3>2, <3>3, <3>4, <3>5 DEF IInv
  <2>18. ASSUME NEW n \in Lines \ {KeyboardLine}, RaiseLine(n) PROVE IInv'
    <3> USE <2>18 DEF RaiseLine
    <3>1. BootProgress'  BY DEF BootProgress
    <3>2. HandlersInstalled'  BY DEF HandlersInstalled
    <3>3. ShellStarted'  BY DEF ShellStarted
    <3>4. PicState'  BY DEF PicState
    <3>5. KeyboardState'  BY DEF KeyboardState, ByteHasInterrupt
    <3> QED  BY <3>1, <3>2, <3>3, <3>4, <3>5 DEF IInv
  <2>19. CASE UNCHANGED vars
    BY <2>19 DEF vars, IInv, ByteHasInterrupt, BootProgress,
        HandlersInstalled, ShellStarted, PicState, KeyboardState
  <2> QED
    BY <2>1, <2>2, <2>3, <2>4, <2>5, <2>6, <2>7, <2>8, <2>9, <2>10, <2>11,
       <2>12, <2>13, <2>14, <2>15, <2>16, <2>17, <2>18, <2>19, <2>20, <2>21,
       <2>22
       DEF Next, Main, Handler
<1>3. QED
  BY <1>1, <1>2, TypeCorrect, PTL DEF Spec

(* No call of kmain and no handler uses a subsystem that does not exist yet, *)
(* whatever interrupts arrive during the boot (kernel.c:45-64).             *)
THEOREM BootDependenciesHold == Spec => []BootDependencies
<1>1. TypeOK /\ IInv => BootDependencies
  <2> SUFFICES ASSUME BootTypes, BootProgress, HandlersInstalled, ShellStarted
               PROVE  BootDependencies
    BY DEF TypeOK, IInv
  <2>1. pc \in 1..17
    BY KMainPositions DEF BootTypes
  <2>2. Needs(KMain[pc]) \subseteq ready
    <3>1. CASE KMain[pc] = "terminal_init"
      BY <2>1, <3>1, KMainPositions DEF Needs, BootProgress, PrintStatements
    <3>2. CASE KMain[pc] \in PrintStatements
      <4>1. KMain[pc] \notin {"terminal_init", "load_idt"}
        BY <3>2 DEF PrintStatements
      <4>2. pc > 4
        BY <2>1, <3>2, KMainPositions
      <4>3. Needs(KMain[pc]) = TerminalStack
        BY <2>1, <3>2, <4>1 DEF Needs
      <4> QED  BY <2>1, <4>2, <4>3 DEF BootProgress, TerminalStack
    <3>3. CASE KMain[pc] = "load_idt"
      BY <2>1, <3>3, KMainPositions DEF Needs, BootProgress, PrintStatements
    <3>4. CASE /\ KMain[pc] \notin {"terminal_init", "load_idt"}
               /\ KMain[pc] \notin PrintStatements
      BY <2>1, <3>4 DEF Needs
    <3> QED  BY <3>1, <3>2, <3>3, <3>4
  <2>3. intr \/ isr.at # "none" => {"gdt", "idt"} \subseteq ready
    BY <2>1 DEF BootProgress
  <2>4. IrqPrints => TerminalStack \subseteq ready
    <3>1. IrqPrints => pc > 9
      BY DEF IrqPrints, BootProgress
    <3> QED  BY <2>1, <3>1 DEF BootProgress, TerminalStack
  <2> QED  BY <2>2, <2>3, <2>4 DEF BootDependencies
<1> QED  BY <1>1, TypeCorrect, Inductive, PTL

(* The unlocked terminal is entered by a handler while kmain is inside a     *)
(* printf only to dump an exception of a kmain that lost its registers: it  *)
(* has printed its last message before any key event can reach a handler    *)
(* that prints and returns (kernel.c:58-59, cpu.c:316-337,                  *)
(* terminal.c:93-155).                                                      *)
THEOREM TerminalExclusiveHolds == Spec => []TerminalExclusive
<1>1. TypeOK /\ IInv => TerminalExclusive
  <2> SUFFICES ASSUME BootTypes, BootProgress, HandlersInstalled, ShellStarted,
                      IrqPrints, MainPrints
               PROVE  derailed /\ isr.at = "exception"
    BY DEF TypeOK, IInv, TerminalExclusive
  <2>1. pc # 17
    BY KMainPositions DEF MainPrints
  <2>2. isr.at = "exception"
    BY <2>1 DEF IrqPrints, HandlersInstalled, ShellStarted, NULL
  <2> QED  BY <2>2 DEF BootProgress
<1> QED  BY <1>1, TypeCorrect, Inductive, PTL

(* A module has the kernel's functions before it gets a key or a tick, and  *)
(* is not initialised twice (module.c:105-109).                             *)
THEOREM InitBeforeSignalsHolds == Spec => []InitBeforeSignals
<1>1. IInv => InitBeforeSignals
  BY DEF IInv, ShellStarted, InitBeforeSignals
<1> QED  BY <1>1, Inductive, PTL

(* The acknowledgements clear every in-service bit the interrupt set, on    *)
(* both controllers, for any line (cpu.c:344-349).                          *)
THEOREM PicAcknowledgedHolds == Spec => []PicAcknowledged
<1>1. IInv => PicAcknowledged
  BY DEF IInv, PicState, PicAcknowledged
<1> QED  BY <1>1, Inductive, PTL

(* A byte that no interrupt announces is one whose interrupt was discarded  *)
(* before ps2_init (cpu.c:350-354).                                         *)
THEOREM ByteHasInterruptHolds == Spec => []ByteHasInterrupt
<1>1. IInv => ByteHasInterrupt
  BY DEF IInv, KeyboardState
<1> QED  BY <1>1, Inductive, PTL

-----------------------------------------------------------------------------
(* Moving one element across a concatenation.                               *)
LEMMA ShiftHead ==
  ASSUME NEW S, NEW s \in Seq(S), NEW t \in Seq(S), t # << >>
  PROVE  s \o <<Head(t)>> \o Tail(t) = s \o t
<1>1. Head(t) \in S /\ Tail(t) \in Seq(S) /\ <<Head(t)>> \o Tail(t) = t
  BY HeadTailProperties, ConcatProperties
<1> QED  BY <1>1, ConcatAssociative

(* The bytes read, the byte in the output buffer and the bytes still in the *)
(* keyboard are, in this order, the bytes typed: none is lost, repeated or  *)
(* reordered (ps2.c:165).                                                   *)
THEOREM BytesInOrderHolds == Spec => []BytesInOrder
<1> USE DEF deviceVars, readVars, picVars, kernelVars, bootVars
<1>1. Init => BytesInOrder
  BY DEF Init, BytesInOrder, Buffered
<1>2. TypeOK /\ IInv /\ BytesInOrder /\ [Next]_vars => BytesInOrder'
  <2> SUFFICES ASSUME BufferType, StreamTypes, KeyboardState, BytesInOrder,
      [Next]_vars
               PROVE  BytesInOrder'
    BY DEF TypeOK, IInv
  <2> DEFINE Bytes == Scancodes \cup {0}
  <2>5. consumed \in Seq(Bytes) /\ fifo \in Seq(Bytes) /\ typed \in Seq(Bytes)
    BY DEF StreamTypes
  <2>6. obf.byte \in Bytes
    BY DEF BufferType
  <2>7. Buffered \in Seq(Bytes)
    <3>1. <<obf.byte>> \in Seq(Bytes)
      BY <2>6
    <3> QED  BY <3>1, EmptySeq DEF Buffered
  <2>1. CASE KeyboardIrqHandler
    <3>1. obf.full
      BY <2>1 DEF KeyboardIrqHandler, KeyboardState
    <3>2. /\ Buffered = <<obf.byte>> /\ Buffered' = << >>
          /\ consumed' = Append(consumed, obf.byte)
          /\ UNCHANGED <<fifo, typed>>
      BY <2>1, <3>1 DEF KeyboardIrqHandler, ReadByte, Buffered, BufferType
    <3>3. consumed' \o << >> \o fifo = consumed \o <<obf.byte>> \o fifo
      BY <2>5, <2>6, <2>7, <3>2, AppendIsConcat, ConcatEmptySeq
    <3> QED  BY <3>2, <3>3 DEF BytesInOrder
  <2>2. CASE TypeByte
    <3>1. PICK b \in Scancodes : typed' = Append(typed,
        b) /\ fifo' = Append(fifo, b)
      BY <2>2 DEF TypeByte
    <3>2. (consumed \o Buffered) \in Seq(Bytes)
      BY <2>5, <2>6, <2>7, ConcatProperties
    <3>3. consumed \o Buffered \o Append(fifo,
        b) = Append(consumed \o Buffered \o fifo, b)
      BY <2>5, <2>6, <2>7, <3>2, AppendIsConcat, ConcatAssociative,
          ConcatProperties, SMTT(60)
    <3>4. UNCHANGED <<consumed, Buffered>>
      BY <2>2 DEF TypeByte, Buffered
    <3> QED  BY <3>1, <3>3, <3>4 DEF BytesInOrder
  <2>3. CASE LoadOutputBuffer
    <3>1. /\ Buffered = << >> /\ Buffered' = <<Head(fifo)>> /\ fifo' = Tail(fifo)
          /\ UNCHANGED <<consumed, typed>>
      BY <2>3 DEF LoadOutputBuffer, Buffered
    <3>2. consumed \o <<Head(fifo)>> \o Tail(fifo) = consumed \o fifo
      BY <2>5, <2>6, <2>7, <2>3, ShiftHead DEF LoadOutputBuffer
    <3>3. consumed \o << >> = consumed
      BY <2>5, <2>6, <2>7, ConcatEmptySeq
    <3> QED  BY <3>1, <3>2, <3>3 DEF BytesInOrder
  <2>4. CASE UNCHANGED <<obf, fifo, typed, consumed>>
    BY <2>4 DEF BytesInOrder, Buffered
  <2> QED
    BY <2>1, <2>2, <2>3, <2>4
       DEF Next, Main, Handler, InitSubsystem, PrintMessage, PicInit, LoadIdt,
           Ps2Init, RegisterBootAnyKey, IsrHandler, BootAnyKey, ModuleInit,
           ShellInit, ForwardSignal, ShellSignal, IsrReturn, RunWild,
           TakeException, UnhandledException, Accept, RaiseLine, vars
<1> QED  BY <1>1, <1>2, TypeCorrect, Inductive, PTL DEF Spec
=============================================================================
