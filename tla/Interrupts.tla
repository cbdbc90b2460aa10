----------------------------- MODULE Interrupts -----------------------------
(***************************************************************************)
(* The interrupt-driven control of the kernel: kmain's boot sequence, the  *)
(* two 8259A interrupt controllers, the 8042 keyboard controller, the      *)
(* common interrupt path isr_handler, the keyboard and timer handlers and  *)
(* the signals they deliver to the running module.                         *)
(*                                                                         *)
(* There is one CPU.  kmain runs until an interrupt is accepted; the       *)
(* handler then runs to its iretq with interrupts disabled (interrupt gates *)
(* of type 0x8E), and kmain resumes where it was.  The devices act at any  *)
(* time.  Every call kmain makes is one statement of KMain; a statement    *)
(* that prints can be interrupted in the middle, which is what "kmain is   *)
(* at that statement while a handler runs" means here.                     *)
(***************************************************************************)
EXTENDS Integers, Sequences

CONSTANTS
  Lines,      \* the interrupt lines devices can raise
  Scancodes,  \* the bytes the keyboard can send
  FifoSize,   \* bytes the keyboard holds back while the 8042 is full
  MaxBytes,   \* bound: bytes the user types
  MaxEdges    \* bound: interrupts of the devices other than the keyboard

ASSUME LinesAssumption == {0, 1} \subseteq Lines /\ Lines \subseteq (0..15) \ {2}
ASSUME ScancodesAssumption == Scancodes \subseteq 0..255
ASSUME BoundsAssumption == FifoSize \in Nat /\ MaxBytes \in Nat /\ MaxEdges \in Nat

VARIABLES
  pc,                  \* the statement of kmain being executed
  ready,               \* the subsystems kmain has initialised
  derailed,            \* kmain lost its registers and runs none of its statements
  intr,                \* the CPU's interrupt flag
  irr, inService,      \* interrupt request and in-service registers of the PICs
  obf,                 \* the 8042's output buffer and its full flag
  fifo,                \* bytes waiting in the keyboard
  edges,               \* interrupts raised so far by the other devices
  irq_handlers,        \* cpu.c: handler of each line
  key_event,           \* ps2.c: handler of key events
  esc,                 \* ps2.c: an 0xE0 prefix has been read
  module_cur_handler,  \* module.c: the module that receives signals
  fns,                 \* shell: the kernel function table has been received
  isr,                 \* the interrupt being handled and how far it is
  typed, consumed,     \* history: bytes sent by the keyboard, bytes read by inb
  missed               \* history: an IRQ 1 was discarded with its byte unread

bootVars   == <<pc, ready, derailed>>
picVars    == <<irr, inService>>
deviceVars == <<obf, fifo, edges, typed>>
kernelVars == <<irq_handlers, key_event, esc, module_cur_handler, fns>>
readVars   == <<consumed, missed>>
vars == <<bootVars, intr, picVars, deviceVars, kernelVars, isr, readVars>>

NULL == "NULL"
KeyboardLine == 1
TimerLine    == 0
EscapePrefix == 224      \* 0xE0
ReturnCode   == 28       \* 0x1C, the only scancode whose codepoint is '\n'

NoFrame == [at |-> "none", irq |-> 0, newline |-> FALSE, released |-> FALSE]

-----------------------------------------------------------------------------
(* kmain *)

(* Wrong orders: interrupts enabled before the GDT is loaded, and the key   *)
(* handler registered before the last message is printed.                   *)
KMain_IdtFirst ==
  <<"pmm_init", "serial_init", "graphics_init", "terminal_init",
    "print_memory_map", "pic_init", "load_idt", "print_idt", "gdt_init",
    "print_gdt", "ps2_init", "print_ps2", "rtc_read", "print_rtc",
    "print_prompt", "keyboard_event_register", "hlt">>

KMain_KeyFirst ==
  <<"pmm_init", "serial_init", "graphics_init", "terminal_init",
    "print_memory_map", "gdt_init", "print_gdt", "pic_init", "load_idt",
    "print_idt", "ps2_init", "print_ps2", "rtc_read", "print_rtc",
    "keyboard_event_register", "print_prompt", "hlt">>

KMain == <<"pmm_init", "serial_init", "graphics_init", "terminal_init",
           "print_memory_map", "gdt_init", "print_gdt", "pic_init", "load_idt",
           "print_idt", "ps2_init", "print_ps2", "rtc_read", "print_rtc",
           "print_prompt", "keyboard_event_register", "hlt">>

At(statement) == ~derailed /\ isr.at = "none" /\ KMain[pc] = statement

Advance(subsystems) ==
  pc' = pc + 1 /\ ready' = ready \cup subsystems /\ UNCHANGED derailed

(* The calls of kmain that only make a subsystem usable, each with what it  *)
(* makes usable.                                                           *)
Initialises == [pmm_init |-> {"pmm"}, serial_init |-> {"serial"},
                graphics_init |-> {"graphics"}, terminal_init |-> {"terminal"},
                gdt_init |-> {"gdt"}]

InitSubsystem ==
  \E call \in DOMAIN Initialises :
    /\ At(call)
    /\ Advance(Initialises[call])
    /\ UNCHANGED <<intr, picVars, deviceVars, kernelVars, isr, readVars>>

PrintStatements == {"print_memory_map", "print_gdt", "print_idt", "print_ps2",
                    "print_rtc", "print_prompt"}

PrintMessage ==
  /\ \E call \in PrintStatements \cup {"rtc_read"} : At(call)
  /\ Advance({})
  /\ UNCHANGED <<intr, picVars, deviceVars, kernelVars, isr, readVars>>

(* idt_init up to lidt: the gates are written and both PICs are            *)
(* reprogrammed and unmasked.  ICW1 clears the request and in-service      *)
(* registers and the edge detectors: a line that is already high asks for  *)
(* nothing until it has been low again.                                    *)
PicInit ==
  /\ At("pic_init")
  /\ Advance({"idt"})
  /\ irr' = {} /\ inService' = {}
  /\ missed' = (missed \/ obf.full)
  /\ UNCHANGED <<intr, deviceVars, kernelVars, isr, consumed>>

LoadIdt ==
  /\ At("load_idt")
  /\ Advance({})
  /\ intr' = TRUE
  /\ UNCHANGED <<picVars, deviceVars, kernelVars, isr, readVars>>

Ps2Init ==
  /\ At("ps2_init")
  /\ Advance({})
  /\ irq_handlers' = [irq_handlers EXCEPT ![KeyboardLine] = "keyboard_irq_handler"]
  /\ UNCHANGED <<intr, picVars, deviceVars, key_event, esc, module_cur_handler,
                 fns, isr, readVars>>

RegisterBootAnyKey ==
  /\ At("keyboard_event_register")
  /\ Advance({})
  /\ key_event' = "boot_any_key"
  /\ UNCHANGED <<intr, picVars, deviceVars, irq_handlers, esc,
                 module_cur_handler, fns, isr, readVars>>

Main == InitSubsystem \/ PrintMessage \/ PicInit \/ LoadIdt \/ Ps2Init \/ RegisterBootAnyKey

-----------------------------------------------------------------------------
(* The devices *)

(* The user types: a byte enters the keyboard, which drops it when full.   *)
TypeByte ==
  /\ Len(typed) < MaxBytes /\ Len(fifo) < FifoSize
  /\ \E b \in Scancodes : typed' = Append(typed, b) /\ fifo' = Append(fifo, b)
  /\ UNCHANGED <<bootVars, intr, picVars, obf, edges, kernelVars, isr, readVars>>

(* The 8042 takes the next byte when its output buffer is empty; the buffer *)
(* becoming full is the rising edge on IRQ 1.                              *)
LoadOutputBuffer ==
  /\ ~obf.full /\ fifo # << >>
  /\ obf' = [full |-> TRUE, byte |-> Head(fifo)]
  /\ fifo' = Tail(fifo)
  /\ irr' = irr \cup {KeyboardLine}
  /\ UNCHANGED <<bootVars, intr, inService, edges, typed, kernelVars, isr, readVars>>

(* Another device raises its line; an edge on a line already requesting is  *)
(* absorbed.                                                               *)
RaiseLine(n) ==
  /\ edges < MaxEdges
  /\ edges' = edges + 1
  /\ irr' = irr \cup {n}
  /\ UNCHANGED <<bootVars, intr, inService, obf, fifo, typed, kernelVars, isr, readVars>>

(* Priority of the cascaded pair: 0, 1, 8..15, 3..7.                        *)
Rank(n) == IF n \in 3..7 THEN n + 16 ELSE n

(* What accepting line n sets: a slave line also occupies the cascade, 2.   *)
Raised(n) == IF n >= 8 THEN {n, 2} ELSE {n}

Blocked(n) ==
  \E m \in inService : \E r \in Raised(n) : (m < 8 <=> r < 8) /\ m <= r

(* A non-specific end of interrupt clears the highest priority bit set.     *)
ClearHighest(bits) == {m \in bits : \E k \in bits : k < m}

-----------------------------------------------------------------------------
(* The interrupt path.  Each step runs with interrupts disabled.            *)

(* The CPU accepts the pending line of highest priority.                    *)
Accept(n) ==
  /\ intr /\ isr.at = "none"
  /\ n \in irr /\ ~Blocked(n)
  /\ \A m \in irr : Rank(n) <= Rank(m)
  /\ irr' = irr \ {n}
  /\ inService' = inService \cup Raised(n)
  /\ intr' = FALSE
  /\ isr' = [NoFrame EXCEPT !.at = "eoi", !.irq = n]
  /\ UNCHANGED <<bootVars, deviceVars, kernelVars, readVars>>

SlaveBits == {m \in inService : m >= 8}

EndOfInterrupt_MasterOnly(n) == ClearHighest(inService \ SlaveBits) \cup SlaveBits
EndOfInterrupt(n) ==
  ClearHighest(inService \ SlaveBits)
    \cup (IF n >= 8 THEN ClearHighest(SlaveBits) ELSE SlaveBits)

(* An IRQ without a handler returns at once.                                *)
Dispatch_Unchecked(handler) == handler
Dispatch(handler) == IF handler = NULL THEN "iret" ELSE handler

(* isr_handler for an IRQ: acknowledge, then call the handler if any.       *)
IsrHandler ==
  /\ isr.at = "eoi"
  /\ inService' = EndOfInterrupt(isr.irq)
  /\ LET handler == irq_handlers[isr.irq]
     IN  /\ isr' = [isr EXCEPT !.at = Dispatch(handler)]
         /\ missed' = (missed \/ (isr.irq = KeyboardLine /\ handler = NULL))
  /\ UNCHANGED <<bootVars, intr, irr, deviceVars, kernelVars, consumed>>

(* inb(0x60): reading the output buffer empties it.                         *)
ReadByte_OnlyIfListening ==
  IF key_event = NULL THEN UNCHANGED <<obf, consumed>>
  ELSE /\ obf' = [obf EXCEPT !.full = FALSE]
       /\ consumed' = Append(consumed, obf.byte)
ReadByte_Twice ==
  /\ obf' = [obf EXCEPT !.full = FALSE]
  /\ consumed' = consumed \o <<obf.byte, obf.byte>>
ReadByte ==
  /\ obf' = [obf EXCEPT !.full = FALSE]
  /\ consumed' = Append(consumed, obf.byte)

(* keyboard_irq_handler, without the modifiers (module Keyboard): read one  *)
(* byte; a prefix is remembered, anything else becomes an event.            *)
KeyboardIrqHandler ==
  /\ isr.at = "keyboard_irq_handler"
  /\ ReadByte
  /\ IF obf.byte = EscapePrefix
       THEN /\ esc' = TRUE
            /\ isr' = [isr EXCEPT !.at = "iret"]
       ELSE /\ esc' = FALSE
            /\ isr' = [isr EXCEPT !.at = Dispatch(key_event),
                                  !.newline = (~esc /\ obf.byte % 128 = ReturnCode),
                                  !.released = (obf.byte >= 128)]
  /\ UNCHANGED <<bootVars, intr, picVars, fifo, edges, typed, irq_handlers,
                 key_event, module_cur_handler, fns, missed>>

(* boot_any_key: on a newline, whatever `released` says, the module handlers *)
(* take over, then module_list prints.                                      *)
BootAnyKey ==
  /\ isr.at = "boot_any_key"
  /\ IF isr.newline
       THEN /\ irq_handlers' = [irq_handlers EXCEPT ![TimerLine] = "timer_event"]
            /\ key_event' = "module_key"
            /\ isr' = [isr EXCEPT !.at = "module_list"]
       ELSE /\ isr' = [isr EXCEPT !.at = "iret"]
            /\ UNCHANGED <<irq_handlers, key_event>>
  /\ UNCHANGED <<bootVars, intr, picVars, deviceVars, esc, module_cur_handler,
                 fns, readVars>>

StartShell_NoInit ==
  module_cur_handler' = "Shell" /\ isr' = [isr EXCEPT !.at = "iret"]
StartShell ==
  module_cur_handler' = "Shell" /\ isr' = [isr EXCEPT !.at = "signal_init"]

(* module_init: the boot medium may or may not hold the module "Shell"; if  *)
(* so it becomes the current handler and is sent SIGNAL_ID_INIT.            *)
ModuleInit ==
  /\ isr.at = "module_list"
  /\ \/ StartShell
     \/ /\ isr' = [isr EXCEPT !.at = "iret"]
        /\ UNCHANGED module_cur_handler
  /\ UNCHANGED <<bootVars, intr, picVars, deviceVars, irq_handlers, key_event,
                 esc, fns, readVars>>

(* The shell's SIGNAL_ID_INIT: keep the function table, print the banner.   *)
ShellInit ==
  /\ isr.at = "signal_init"
  /\ fns' = TRUE
  /\ isr' = [isr EXCEPT !.at = "iret"]
  /\ UNCHANGED <<bootVars, intr, picVars, deviceVars, irq_handlers, key_event,
                 esc, module_cur_handler, readVars>>

(* module_key and timer_event: forward to the current module, if any.       *)
ForwardSignal ==
  /\ isr.at \in {"module_key", "timer_event"}
  /\ isr' = [isr EXCEPT !.at = IF module_cur_handler = NULL THEN "iret" ELSE "signal"]
  /\ UNCHANGED <<bootVars, intr, picVars, deviceVars, kernelVars, readVars>>

(* The shell's SIGNAL_ID_KEYBOARD (which prints) and SIGNAL_ID_TIMER.       *)
ShellSignal ==
  /\ isr.at = "signal"
  /\ isr' = [isr EXCEPT !.at = "iret"]
  /\ UNCHANGED <<bootVars, intr, picVars, deviceVars, kernelVars, readVars>>

IsrReturn_StillMasked ==
  /\ isr.at = "iret"
  /\ isr' = NoFrame
  /\ UNCHANGED <<bootVars, intr, picVars, deviceVars, kernelVars, readVars>>

(* The iretq restores the interrupted rflags, with the interrupt flag set.  *)
(* popa64 hands the interrupted code its registers in the wrong order       *)
(* (module IsrFrame).  The idle loop uses none; anywhere else in kmain      *)
(* either none that matters was live, or kmain is lost and runs wild.       *)
IsrReturn ==
  /\ isr.at = "iret"
  /\ isr' = NoFrame
  /\ intr' = TRUE
  /\ \/ UNCHANGED derailed
     \/ KMain[pc] # "hlt" /\ derailed' = TRUE
  /\ UNCHANGED <<pc, ready, picVars, deviceVars, kernelVars, readVars>>

(* A kmain that runs wild may mask interrupts or allow them, for ever.      *)
(* What it may write to memory is not modelled.                             *)
RunWild ==
  /\ derailed /\ isr.at = "none"
  /\ intr' \in BOOLEAN
  /\ UNCHANGED <<bootVars, picVars, deviceVars, kernelVars, isr, readVars>>

(* Or it faults: the CPU enters isr_handler through one of the gates 0..31. *)
TakeException ==
  /\ derailed /\ isr.at = "none"
  /\ intr' = FALSE
  /\ isr' = [NoFrame EXCEPT !.at = "exception"]
  /\ UNCHANGED <<bootVars, picVars, deviceVars, kernelVars, readVars>>

(* isr_handler for an exception: two printfs, then cli and hlt, from which  *)
(* nothing wakes the CPU.                                                   *)
UnhandledException ==
  /\ isr.at = "exception"
  /\ isr' = [isr EXCEPT !.at = "halted"]
  /\ UNCHANGED <<bootVars, intr, picVars, deviceVars, kernelVars, readVars>>

Handler == IsrHandler \/ KeyboardIrqHandler \/ BootAnyKey \/ ModuleInit
             \/ ShellInit \/ ForwardSignal \/ ShellSignal \/ IsrReturn
             \/ UnhandledException

-----------------------------------------------------------------------------
Init ==
  /\ pc = 1 /\ ready = {} /\ derailed = FALSE /\ intr = FALSE
  /\ irr = {} /\ inService = {}
  /\ obf = [full |-> FALSE, byte |-> 0] /\ fifo = << >> /\ edges = 0
  /\ irq_handlers = [n \in Lines |-> NULL]
  /\ key_event = NULL /\ esc = FALSE
  /\ module_cur_handler = NULL /\ fns = FALSE
  /\ isr = NoFrame
  /\ typed = << >> /\ consumed = << >> /\ missed = FALSE

Next ==
  \/ Main
  \/ Handler
  \/ \E n \in Lines : Accept(n)
  \/ RunWild
  \/ TakeException
  \/ TypeByte
  \/ LoadOutputBuffer
  \/ \E n \in Lines \ {KeyboardLine} : RaiseLine(n)

Spec == Init /\ [][Next]_vars

(* The CPU keeps executing and takes pending interrupts, and the 8042 keeps *)
(* handing over bytes; nobody is obliged to type or to raise a line.        *)
Fairness == /\ WF_vars(Main) /\ WF_vars(Handler)
            /\ WF_vars(\E n \in Lines : Accept(n))
            /\ WF_vars(LoadOutputBuffer)

FairSpec == Spec /\ Fairness
-----------------------------------------------------------------------------
(* Properties *)

Handlers   == {"keyboard_irq_handler", "timer_event"}
KeyEvents  == {"boot_any_key", "module_key"}
Positions  == {"none", "eoi", "iret", "module_list", "signal_init", "signal",
               "exception", "halted"}
                \cup Handlers \cup KeyEvents
Subsystems == {"pmm", "serial", "graphics", "terminal", "gdt", "idt"}

BootTypes   == pc \in 1..Len(KMain) /\ ready \in SUBSET Subsystems
FlagTypes   == /\ derailed \in BOOLEAN /\ intr \in BOOLEAN /\ esc \in BOOLEAN
               /\ fns \in BOOLEAN /\ missed \in BOOLEAN
PicTypes    == irr \in SUBSET Lines /\ inService \in SUBSET (Lines \cup {2})
BufferType  == obf \in [full : BOOLEAN, byte : Scancodes \cup {0}]
StreamTypes == /\ edges \in Nat /\ fifo \in Seq(Scancodes)
               /\ typed \in Seq(Scancodes) /\ consumed \in Seq(Scancodes \cup {0})
KernelTypes == /\ irq_handlers \in [Lines -> Handlers \cup {NULL}]
               /\ key_event \in KeyEvents \cup {NULL}
               /\ module_cur_handler \in {"Shell", NULL}
FrameType   == isr \in [at : Positions, irq : Lines,
                        newline : BOOLEAN, released : BOOLEAN]

(* Every variable stays in the range its C declaration gives it; isr.at in  *)
(* Positions says that what isr_handler calls is a handler, never NULL      *)
(* (cpu.c:351).                                                             *)
TypeOK == /\ BootTypes /\ FlagTypes /\ PicTypes /\ BufferType
          /\ StreamTypes /\ KernelTypes /\ FrameType

(* printf goes through serial_tx and the terminal, which draws and keeps a  *)
(* malloc'ed buffer.                                                        *)
TerminalStack == {"serial", "graphics", "terminal"}
MainPrints == KMain[pc] \in PrintStatements
IrqPrints  == isr.at \in {"module_list", "signal_init", "signal", "exception"}

Needs(call) ==
  CASE call = "terminal_init"    -> {"pmm", "graphics"}
    [] call \in PrintStatements -> TerminalStack
    [] call = "load_idt"         -> {"gdt", "idt"}
    [] OTHER                     -> {}

(* Nothing is used before it is initialised: kmain's own calls find what    *)
(* they need, no interrupt is taken without a GDT and an IDT, and no handler *)
(* prints before the terminal exists (kernel.c:45-64).                      *)
BootDependencies ==
  /\ Needs(KMain[pc]) \subseteq ready
  /\ intr \/ isr.at # "none" => {"gdt", "idt"} \subseteq ready
  /\ IrqPrints => TerminalStack \subseteq ready

(* The terminal has no lock (terminal.c:93-155 updates cursor and buffer in *)
(* several steps).  A handler prints while kmain is inside a printf only if *)
(* an earlier interrupt cost kmain its registers there and it faulted: then *)
(* the dump of cpu.c:316-337 enters the terminal in the middle of that      *)
(* printf.                                                                  *)
TerminalExclusive == MainPrints /\ IrqPrints => derailed /\ isr.at = "exception"

(* A module gets SIGNAL_ID_INIT, which gives it the kernel functions, once  *)
(* and before any other signal (module.c:105-109).                          *)
InitBeforeSignals ==
  /\ isr.at = "signal" => fns
  /\ isr.at = "signal_init" => ~fns

(* Every interrupt is acknowledged to every PIC it occupies before its      *)
(* handler runs, so that no line stays blocked (cpu.c:344-349).             *)
PicAcknowledged == isr.at # "eoi" => inService = {}

(* A byte in the output buffer has its interrupt pending or being handled,  *)
(* unless that interrupt was discarded while no handler was registered.     *)
ByteHasInterrupt ==
  obf.full => \/ KeyboardLine \in irr
              \/ isr.irq = KeyboardLine /\ isr.at \in {"eoi", "keyboard_irq_handler"}
              \/ missed

Buffered == IF obf.full THEN <<obf.byte>> ELSE << >>

(* The handler reads every byte once and in the order the keyboard sent it  *)
(* (ps2.c:165 reads one byte per interrupt and never checks the status).    *)
BytesInOrder == consumed \o Buffered \o fifo = typed

(* kmain reaches its idle loop, however many interrupts it takes on the     *)
(* way, unless one costs it its registers (kernel.c:45-64).                 *)
BootCompletes == <>(KMain[pc] = "hlt" \/ derailed)

(* Every byte typed is read, unless an interrupt was discarded at boot or   *)
(* kmain was lost (ps2.c:159-165, cpu.c:350-354).                           *)
BytesConsumed ==
  \A k \in 1..MaxBytes : Len(typed) >= k ~> (Len(consumed) >= k \/ missed \/ derailed)

(* At the prompt, a press of Enter starts the modules ("Press enter to      *)
(* continue", kernel.c:58).                                                 *)
EnterContinues ==
  (KMain[pc] = "hlt" /\ fifo # << >> /\ fifo[Len(fifo)] = ReturnCode)
    ~> key_event = "module_key"
=============================================================================
