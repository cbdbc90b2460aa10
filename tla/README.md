# A TLA+ model of osdev-x64

osdev-x64 is a small x86-64 kernel: it boots from limine, brings up a text
terminal on the framebuffer, takes interrupts from the two 8259A controllers,
decodes the keyboard, and on Enter starts a shell from a module file; Tetris is
another module. This directory holds TLA+ specifications of its parts, the TLC
configurations that check them on small instances, and TLAPS proofs, for all values of
their parameters, of all the safety properties that hold: of the interrupt path,
the keyboard, the shell, terminal and serial line and the console they make up, Tetris
and what it draws, the boot with its tables, clock and modules, and the library. Paths and line numbers refer to the repository (`kernel/...`,
`modules/...`).

    tlc -config Interrupts.cfg MCInterrupts.tla      # check one instance
    tlapm InterruptsProofs.tla                       # check its proofs

`PROJECT.json` lists runs, mutants, findings, hazards and theorems, and maps
every definition to the lines it stands for.

## 1. Inventory

There is one CPU and no scheduler. Two kinds of code run: `kmain`, once, from
top to bottom into an idle loop; and interrupt handlers, entered with interrupts
disabled and left by `iretq`. Everything after the boot prompt, the shell
included, runs inside the handler of a keyboard or timer interrupt.

| Part | State | Operations | Talks to |
|---|---|---|---|
| Boot (`kernel.c`) | position in `kmain` | `kmain`, `boot_any_key` | calls every `*_init`; registers handlers |
| Interrupt path (`cpu.c`, `platform.s`) | IDT, `irq_handlers[16]`, PIC registers, IF, the frame on the stack | `idt_init`, `isr_register`, `isr_handler`, stubs, `pusha64`/`popa64` | devices below, handlers above |
| Keyboard driver (`ps2.c`) | static `esc`, `mods`; `key_event` | `keyboard_irq_handler`, `keyboard_event_register` | port 0x60; calls `boot_any_key`, later `module_key` |
| Terminal (`terminal.c`) | cursor, colours, `Buffer`, the framebuffer | `terminal_print`, `terminal_char`, `terminal_set_color` | called by `printf` from `kmain` and from handlers; no lock; sends each character to the serial port |
| Serial port (`serial.c`) | the UART's registers | `serial_init`, `serial_tx` | polls the line status before each character |
| Module loader (`module.c`) | `module_cur_handler` | `module_list`, `module_init` | boot memory map; sends `SIGNAL_ID_INIT` |
| Shell (`modules/shell`) | `fns`, line buffer, cursor | signals INIT and KEYBOARD | prints through the function table |
| Tetris (`modules/tetris`) | field, piece, preview, bag, generator | signals INIT, KEYBOARD, TIMER | draws through the function table |
| Descriptors (`cpu.c`) | GDT, TSS, IDT | `gdt_init`, `idt_init` | the CPU |
| printf (`stdio.c`) | a buffer and an index per call | `_vsnprintf`, `printf` | prints to the terminal |
| Allocator (`stdlib.c`, `pmm_init`) | the heap pointer | `malloc`, `malloc_align` | boot memory map; called by the terminal |
| Real time clock (`cmos.c`) | none | `rtc_read` | ports 0x70, 0x71 |
| Graphics (`graphics.c`) | the framebuffer and its geometry | `graphics_init`, `graphics_rect`, `graphics_char` | boot loader's tag; called by the terminal and Tetris |
| Fonts (`Terminus16.c`) | none | bitmaps by character | read by `graphics_char` |
| Strings (`string.c`) | none | `memmove`, `memset16`, `memset32`, `strcmp` | called by the above |

What is hard in it:

* **Interleaving.** `idt_init` enables interrupts in the middle of the boot
  (`platform.s:174`), before any handler is registered, and `kmain` goes on
  printing. Devices act at any time, two controllers are chained, and a shared
  terminal has no lock. The UART sends while the kernel prints.
* **Order.** Nothing but the order of the statements of `kmain` makes
  initialisation safe; handlers replace themselves from inside a handler; a module becomes
  current before it is initialised; what a write to the UART's first port means depends
  on another register.
* **State across interrupts.** The scan code prefix 0xE0 and the key it belongs to arrive in
  two interrupts; modifiers live in a static.
* **Stale reads.** The clock goes on while it is read register by register; the terminal's
  picture is redrawn from a buffer of its own, and the cursor is drawn over letters.
* **Waiting.** Every printed character waits for the UART, in handlers too.
* **Edges.** Scrolling and cursor arithmetic, row removal, indices into fixed
  arrays, buffers without a bound (the shell's) or with one (printf's), alignment,
  signed remainders, overlapping moves.

There is no persistence, no network and no second CPU, so crash recovery and
message loss do not arise, except where the keyboard drops bytes when full.

What makes each part correct:

* Boot and interrupts: nothing is used before it is initialised; each interrupt is
  acknowledged everywhere it is in service; the interrupted code gets its state back; the
  terminal is used by one context at a time; each byte is read once, in order.
* Keyboard: every transition is reported once with the right key; modifiers
  belong to keys that are down; the tables are injective and complete.
* Terminal: framebuffer and buffer agree; one cursor; indices stay inside.
* Serial port: every character goes out once, whole and in order; printing ends.
* Module loader and shell: INIT first, once; the line can be read on the screen.
* Tetris: the piece never overlaps; full rows and only they go; games progress; the
  bag holds the seven pieces; the window shows the game.
* Descriptors: each selector finds its descriptor, each vector its stub.
* Clock: the time is one the clock has shown, or close to it and not ahead.
* Graphics: what is drawn appears where it was asked for, whatever the pitch.
* Allocator, strings, printf: blocks are apart, aligned and in the heap; moves
  survive overlaps; output is the standard's and stays in its buffer.

## 2. Modules

| Module | Models | Kind |
|---|---|---|
| `Interrupts` | kmain, PICs, 8042, isr_handler, keyboard and timer handlers, signals | state machine |
| `IsrFrame` | stubs, pusha64, the frame, popa64, iretq | state machine |
| `KeyEvents` | what the driver promises: transitions reported one by one | abstract specification |
| `Keymap`, `Keyboard` | the tables of `ps2.c`; keys, scan codes on the wire, `keyboard_irq_handler` | refines `KeyEvents` |
| `TextScreen` | what the terminal promises: a scrolling screen of coloured characters | abstract specification |
| `Terminal` | `terminal.c` | refines `TextScreen` |
| `Serial` | `serial.c` over the registers of a UART | state machine |
| `Font` | the bitmaps of `Terminus16.c` | data, and which characters look alike |
| `Console` | `Shell`, `Terminal`, `Serial` and `Font` together: who prints, and what is seen and sent | composition |
| `Tetris` | `modules/tetris/main.c` without the bag and drawing | state machine |
| `TetrisView` | what its `update` draws | over `Tetris` |
| `TetrisBag` | its generator, bag and shuffle | state machine |
| `Shell` | `modules/shell/main.c` | state machine |
| `Descriptors` | `gdt_init`, `idt_init`: GDT, TSS and IDT by their fields | state machine |
| `Rtc` | `rtc_read` beside a clock that goes on | state machine |
| `BootInfo`, `ModuleHeader`, `ModuleLoader` | the tag list; module headers; `module_list` and `module_init` | state machine |
| `Boot` | `kmain` by what it is handed: `Descriptors`, `Rtc` and `ModuleLoader` in order | composition |
| `Allocator` | `pmm_init` and `malloc_align` | state machine |
| `MemMove` | `memmove`, byte by byte | state machine |
| `Printf` | `_vsnprintf` | state machine over operators, with a reference |
| `Picture` | what the graphics promise: a picture by column and row | abstract specification |
| `Graphics` | `graphics.c` over the words of the framebuffer | refines `Picture` |
| `MCLibrary` | `Allocator`, `MemMove`, `Printf` and `Graphics` side by side | composition |
| other `MC*` | constants of the instances | |
| `*Proofs` | see section 5 | proofs about the module of that name and what it is made of; `LibraryProofs` about `Allocator`, `MemMove`, `Graphics` and `Printf` |

### Interrupts

`pc` counts the statements of `kmain`; the table `KMain` lists them in source
order, with `gdt_init`, `idt_init`, `ps2_init` and `rtc_read` split into the part that
changes state and the `printf` at their end, and `idt_init` split at `lidt; sti`. An
interrupt can be accepted whenever IF is set, and what "during a printf" means is
that `pc` is at that statement while `isr.at` is not "none". `isr` is the
interrupt being handled: its position goes through `IsrHandler` (acknowledge and
look up the handler), the handler (`KeyboardIrqHandler`, then the key event
handler `BootAnyKey` or `ForwardSignal`; or `timer_event`), the module's
signals, and `IsrReturn`. The PICs are their request and in-service registers
with the fixed priority of a cascaded pair; line 2 is the cascade. The 8042 has
one byte and a full flag, and raises IRQ 1 when it becomes full: a byte nobody
reads blocks all others. `typed`, `consumed` and `missed` are history.

Reprogramming the PICs (`PicInit`) forgets requests and edges, as the ICW1 of an
8259A does. The boot medium may lack the shell, so `ModuleInit` has both outcomes.

`IsrReturn` has two outcomes while `kmain` is not yet idle, because `popa64`
returns the registers in the wrong order (module `IsrFrame`): the interrupted
statement happened to need none of them, or `kmain` is `derailed` and executes
none of its statements again. From then on it may set and clear the interrupt flag
(`RunWild`), so that handlers still run, and may fault at any time (`TakeException`): the
exception branch of `isr_handler` prints its dump, even in the middle of a printf of
`kmain`, and halts the machine with interrupts off (`UnhandledException`). What wild code
writes to memory is not modelled; the invariants after a derailment speak of the handlers.

### IsrFrame

One interrupt from the CPU's push to `iretq`, with the real order of the fifteen
registers in both macros and in `interrupt_cpu_state_t`, the vectors with and
without an error code, and the C handler reading fields at their offsets. What the interrupted
code has in its registers is a parameter; the instance gives each another value, so that a
permutation shows.

### Keymap, Keyboard, KeyEvents

`Keymap` is both switch statements as data. `Keyboard` adds a scan code set 1
keyboard (external): prefixes, the six bytes of Pause, and the false shifts
around arrow keys; bytes wait in `wire`, and each step of the driver reads one.
`KeyEvents` is the promise: transitions are reported one by one, in order, with
the modifiers then in force. The refinement maps its queue to the decoded rest
of the wire, with the driver's `esc` flag as part of the map.

### Terminal, TextScreen

`Buffer` holds packed 16 bit entries by cell, `screen` what the framebuffer shows
in each cell: a glyph with two colours, and the two pixel cursor bar that may lie over its
left edge. One `terminal_char` is one step, which the exclusion property of
`Interrupts` justifies as long as `kmain` has its registers. `TextScreen` has rows of coloured characters and a
cursor, no buffer, no packing and no bar: since a scroll redraws every cell from the
buffer and nothing else does, the terminal implements it only if picture and buffer agree.

### Serial, Font, Console

`Serial` has the registers by their names in the data sheet and `outb` decodes ports as
the UART does, with the divisor behind two of them while DLAB is set. `serial_init` is
its writes in order, from whatever the firmware left in each register (`Firmware`), a
character still waiting included. `serial_tx` happens only when
THR is empty, which is the loop of the code; `Transmit` is the line (external). `unsent`
is history: what was printed and has not come out yet.

`Font` has a row of numbers per printable character, and derives `LooksLike`: which characters
share their picture, with or without the two columns the cursor covers. Without them 8 and B, h
and n, or b, o and p are the same.

In `Console` whoever prints puts characters and colours into `out`, and `PrintNext` takes
them one by one into the terminal and the serial port, as `terminal_print` does. A key is taken
only when `out` is empty: its handler prints before it returns. What `kmain` prints before the
shell starts is any sequence of characters. Words around numbers are left out of the shell's
output, not its colours and lines; numbers are printed in decimal, of up to three digits. `wide` is history: the line has reached the right edge.

### Graphics, Picture

`Pixels` is the framebuffer by offset, with `Pitch` words from one row to the next. Rectangles
are drawn by one `memset32` per row and characters bit by bit from a bitmap, at every
place inside the picture: nothing in the code clips, and its callers stay inside. `Picture`
has no offsets. The words between the rows are part of the promise: they keep what they held.
The font is a parameter here, its bitmaps are in `Font`; the terminal's cells are those of
`terminal_init`, rounded down.

### Tetris, TetrisView, TetrisBag

The field is a function from cells; pieces are pictures of four by four bits, in rows of digits
where the source has a hexadecimal number. Every key the game reacts to and the timer tick are
actions. `Landing` makes the piece part of the field, removes rows as the code does (scan from
the top, shift everything above), starts the next piece and empties the field if that does not
fit. Which type the bag deals is free here, the first one included: it is what the static
`next` held, and the build leaves `.bss` out of the module file (`modules/tetris/Makefile:5`).
A word the shuffle took from outside the bag is dealt like any other: `Types` are integers, and
`Beyond` is what such a word finds where `Pieces` would have its picture. It is assumed that
this memory is there and stays as it is.

`TetrisView` is `update` as four layers of rectangles: the next piece, the falling one, the
field and the grid. Each key draws them over what the window shows and nothing is ever erased,
so that pieces leave a trail; timer ticks do not draw. What is claimed is of one `update`: every block
lies in the window with its colour (which one is an index, for words from outside the bag too), none hides another, and the piece shown is the one that comes.

`TetrisBag` runs the generator bit for bit (a word is the set of its bits that
are 1) and the shuffle with the words before `bag` in its reach. `next` is at
`bag[-2]`, `fns` at `bag[-4]` and `bag[-3]`: gcc 12 puts them there with the flags of
the module's Makefile. The loader starts only the shell, so that today Tetris runs
only when it is made the current module; its code is modelled as the module it is.

### Shell

The line buffer and the bytes around it are one function `memory`, since nothing
compares `Cursor` with the size of the buffer. `shell_command` splits the line in
place; `argv`, the printed arguments and the line the user sees (history) are
variables. A write outside the buffer, or a seventeenth argument, may or may not hit
something the shell needs: `lost`, after which nothing happens. The buffer is in
`.bss`, which is not loaded, so any byte may fill it at first.

### Descriptors, Rtc, BootInfo, ModuleLoader, Boot

An address in `Descriptors` is its eight bytes, and `NameTables` are the tables of the 48
stubs' addresses the linker may give; descriptors are records of the fields the code fills and
`Target`, `TaskAt` put them together as the CPU does. Fields that are constants (limits,
granularity, privilege) are left out, but for the type. `Rtc` reads six registers one by one,
in the code's order, while the clock's updates happen anywhere; the conversion (BCD, 12 hours,
century, weekday) is one step. `ModuleLoader` looks at one entry of the map per step, in two
passes; a section that is missing is a NULL the code follows, the state "fault". `Equal` is
`strcmp` as the code has it, which does not look whether the longer string has ended. `ModuleHeader`
has the headers the repository's three modules begin with. `Boot` runs `pmm_init`,
`graphics_init`, `gdt_init`, `idt_init`, `rtc_read`, the prompt and the modules in order
(without a memory map or a framebuffer a NULL is followed: "fault"), and holds the properties
of its parts; interrupts in between are the business of `Interrupts`, which has the same
statements without their contents.

### Allocator, MemMove, Printf

`Allocator` scans the map entry by entry and then hands out blocks for any sequence
of requests with an alignment that is a power of two, as the code's mask needs; as in the code
there is no end of the heap but in the properties.
`MemMove` copies a byte per step. `Printf` works a format off item by item;
`Text` is what the code prints for a directive (scratch buffer filled from the back,
zeroes, prefix, sign, reversal), `CText` what the C standard prints, and `Follows` says
for which directives the two are to agree. A `va_list` is a sequence, so that a
directive that takes too few arguments shows in the next one. The digits of a number are
those of the code's loop (`Quotients`, what each round finds; `Rounds`, which of them run).
The integer types are their numbers of values (`CharValues` to `LongValues`), a conversion
to one is a remainder; characters are those of numbers and the set `Letters`. `Items` and
`Arguments` say which directives occur and what is passed with them: `ItemsAssumption` that
they are directives, `ArgumentsAssumption` that each argument has the type its conversion
reads, as the call must see to.

## 3. Runs

| Run | Instance | Shows |
|---|---|---|
| `interrupts` | lines 0, 1, 7, 8; bytes: Enter down and up, A down, 0xE0; 3 bytes, 3 other interrupts | seven invariants, 1 017 906 states |
| `interrupts_live` | lines 0, 1; 2 bytes, 2 ticks, fair | the boot ends, bytes are read |
| `interrupts_deaf` | lines 0, 1; 2 bytes, fair | counterexample: a key during the boot makes the keyboard deaf |
| `isr_frame` | vectors 0 to 47, three in a row | frame fields, control registers and values |
| `isr_restore` | the same | counterexample: registers come back reversed |
| `keyboard` | 9 keys, one of each kind the decoder tells apart; 4 transitions, of which the last may be any other scan code | refinement of `KeyEvents`, modifiers, tables |
| `console` | 5 by 3 cells, a prompt of one character, the letter B, lines of up to 3 in a buffer of 5; UART registers of 0 or with DLAB set; fair | refinement of `TextScreen`, the line can be read, the serial line, output ends; 738 398 states |
| `tetris` | 4 by 5 cells, I, T and the word -1 from outside the bag, blocks of 2 by 2 pixels, fair ticks | the piece, rows, what is drawn, progress; 243 984 states |
| `tetris_bag_shuffle` | the code's seed and layout | counterexample: the first bag is no permutation |
| `shell` | 6 bytes, 2 arguments, lines of up to 7 characters | arguments, and what the missing bounds can hurt |
| `boot` | 9 times in 4 modes of the clock with up to 2 updates; 2 addresses; 472 tag lists; one of the three varied at a time | descriptors, clock, modules |
| `library` | 9 memory maps and 3 of 12 requests; all moves in 5 bytes; 1 of 476 printf items and 1 of those without flags; 5 by 3 pixels of pitch 6 and 2 calls | allocator, memmove, printf, refinement of `Picture` |

Properties:

* `BootDependencies`: no statement, interrupt or handler uses what is not ready.
* `TerminalExclusive`: no handler prints during a printf of `kmain`, but for the dump of an
  exception of a `kmain` that has lost its registers. It holds because the key event handler is
  registered after the last message, and the only other path to a printing handler goes
  through it.
* `InitBeforeSignals`: INIT comes first and once.
* `PicAcknowledged`: no in-service bit survives the acknowledgement.
* `ByteHasInterrupt`, `BytesInOrder`: a byte in the 8042 is announced, and each is
  read once in order.
* `BootCompletes`, `BytesConsumed`: the boot ends and bytes are read, unless an
  interrupt was discarded or `kmain` lost its registers.
* `FrameMatches`, `ControlRestored`, `OwnValuesReturn`: the handler's view of the
  stack is the CPU's, general registers included but for the two of section 4, and the
  interrupted code continues where it was.
* `ModifiersMatchKeys`: a modifier in force has its key down. `CharsHaveOneKey`: every
  printable character can be typed, with Shift, AltGr or neither, and no two keys give the same
  one. `ReportsTransitions`: the refinement.
* `ShowsTextScreen`: the refinement. `OneCursor`: the cursor leaves no trace.
* `LineReadable`: as long as the line has not reached the edge, the row of the cursor reads, from
  the pixels left, as the prompt in green and the shell's line in white, and nothing else can be
  meant. `SerialCarries`: what is printed is on the line, once and in order, or the one character in
  THR. `OutputEnds`: again and again there is nothing left to print.
* `PieceFits`; `LandingClearsRows`: full rows and only they go, what lies above moves down;
  `PiecesLand`: no keys keep a piece in the air while the timer ticks.
* `ShowsGame`: what `update` draws is the field, the piece and the piece that comes next.
* `ArgsAreWords`: the arguments are the words of the line, whatever is left in the
  buffer. `OwnMemory`, `ShellSurvives`: lines shorter than the buffer hurt
  nothing around it, and it takes more than 32 characters for too many arguments.
* `SelectorsFind`, `InterruptsReachStubs`: what the CPU reads out of the tables.
* `NeverAhead`: however often the clock steps during the read, the result is no later
  than the clock at its end. `ReadsTheClock`: exact if it did not step, weekday
  included, but for the hours of 12 of a 12-hour clock and for weekdays before March 2000.
* `ShellStarts`: only a module that lacks a section stops the loader; all headers are printed
  before the first module starts; at the end every executable named Shell has been started, in
  the order of the map, and the last one started gets the signals; nothing is started whose name
  differs from Shell at some character. Names that are part of Shell or continue it, which the
  code's `strcmp` cannot tell from it, are left open.
* `HeapIsLargest`, `Disjoint`, `AlignedBlocks`, `InsideHeap`; `Moved`.
* `PrintsLikeC`: the standard's output, cut and closed at `maxlen` with nothing past it, and
  its full length as the result.
* `ShowsPicture`: rectangles and characters where they belong, nothing between the rows.

Each property of a passing run has a mutant, a plausible error in the code
(a wrong order of statements, a missing acknowledgement, an off-by-one in a
shift) under which TLC finds it violated.

Bounds. `MaxBytes`, `MaxEdges` and `FifoSize` bound what the environment does, never the
kernel. Three bytes are the fewest for a prefix, its key and one more in the 8042; three other
interrupts let both controllers have requests while one is served. Line 7 has the lowest
priority and line 8 is on the slave. Four key transitions cover two modifier keys going down
and up in any order, or one around an arrow key. On five columns lines of one and two letters
fit behind the prompt and one of three reaches the edge, from where Backspace goes to another
row; three rows let the output of one command scroll. B is a letter that could be mistaken
where the cursor has been. A field four wide is the narrowest a piece fits in; the third piece is one of
one or two blocks, which none in the bag is, whose blocks are 0 in the field; five rows allow
landings at several heights, removal of several rows, and a restart. A line of seven in a
buffer of six overruns it by its last character and by its NUL, and four words are twice as
many as `argv` of two holds. Two updates let two fields change between any reads; the times are
next to every carry, both noons, 29 February and both sides of 2000. Two entries let modules
precede each other both ways. Three requests use up the small heaps. Numbers of 3 to 6 bits in
a scratch buffer of 6 reach its end, as 32 and 64 bits reach the code's 32; two items show what
one leaves to the next. A pitch above the width tells the two apart, an odd size leaves a rim
no character reaches, and a second call draws over the first.

Fairness. `Interrupts` assumes weak fairness of `kmain`'s next statement, of the
running handler, of accepting pending interrupts and of the 8042: a CPU that
executes. Nobody is obliged to type, to raise a line or to press a key. Weak
fairness is enough because none of these is disabled for ever by another once it
can happen. `Tetris` assumes only that the timer keeps ticking, `Console` that the
CPU goes on printing and that the UART sends what it has; a UART that stops holds the kernel for
good, since the wait has no limit. Other runs use no fairness.
`CHECK_DEADLOCK FALSE` is set where the system may stop: at the idle loop with
no input left, after a halting exception or a fault, when a function returns, and with all
key transitions used up.

## 4. Findings

With a run:

* The interrupted code's registers come back reversed (`platform.s:19`).
* A key hit between `idt_init` and `ps2_init` leaves the keyboard deaf
  (`cpu.c:351`): "Press enter to continue" then waits for ever.
* The shuffle uses negative remainders (`modules/tetris/main.c:249`). The first bag loses
  two pieces, one of them to `next`, so that the third piece played has the type
  `next` held at first; the third bag puts a piece into the upper half of `fns`.

Met while modelling; the modules have them as the code does:

* The exception dump prints rsi beside the name rbp and the other way round (`cpu.c:20`,
  `cpu.c:327`): the struct has rbp, rdi, rsi upwards, pusha64 leaves rsi lowest.
* The release of an Enter pressed before the prompt continues (`kernel.c:34`).
* 12 PM reads as hour 0 and 12 AM as 12 in 12-hour mode (`cmos.c:90`, whose comment says
  "Convert 12 to 24-hour clock"); the weekday is wrong
  before March 2000 (`cmos.c:46`); years are 1970 to 2069.
* `_new_piece` refills the bag at its last place (`modules/tetris/main.c:238`), so the
  seventh piece is never dealt; the generator's signed shift is no bijection.
* The cursor's bar is drawn over the letter it comes to stand on and wipes out two of its columns
  (`terminal.c:90`). It only comes to stand on letters behind the edge, see the next one.
* Backspace at the left edge goes to column 0 of the row above (`terminal.c:100`), not to its last
  column: from there on the screen no longer shows the line the shell has. `LineReadable` therefore stops
  at the edge.
* Tetris never erases what it has drawn, and a tick of the timer moves the piece without drawing it.
* `strcmp` calls strings equal when one is the beginning of the other (`string.c:86`):
  executable modules without a name, called S, or called Shell2 start as the shell does (`module.c:105`).
* `create_descriptor(255)` reads behind the table of 48 stubs (`cpu.c:298`).
* printf: with `#` digits give way to the prefix when they fill the width; a precision is
  ignored together with `-`; `ll` takes no argument; a `%` at the end of the format
  lets the loop run past it. No format of the kernel has any of these.

## 5. Proofs

Every invariant a passing run checks is a theorem, for every value of the constants, and so
are the action properties and the three refinements. What is left to TLC is
listed at the end of this section. The assumptions are the `ASSUME`s of the modules proved
about; TLC evaluates each of them in the runs.

| Proof module | Extends | Theorems |
|---|---|---|
| `InterruptsProofs` | `Interrupts` | seven invariants, for every set of lines and scan codes |
| `IsrFrameProofs` | `IsrFrame` | `FrameMatches`, `ControlRestored`, `OwnValuesReturn` |
| `KeyboardProofs` | `Keyboard` | `ModifiersMatchKeys`, `CharsHaveOneKey`, the refinement of `KeyEvents` |
| `ConsoleProofs` | `Console` and so `Terminal`, `Serial`, `Font` | `OneCursor`, the refinement of `TextScreen`, `SerialCarries`, `LineReadable`, and that `Console` runs its parts |
| `ShellProofs` | `Shell` | `TypeOK`, `ArgsAreWords`, `ShellSurvives`, `OwnMemory` |
| `TetrisProofs` | `TetrisView` and so `Tetris` | `PieceFits`, `LandingClearsRows`, `ShowsGame` |
| `BootProofs` | `Boot` and so `Descriptors`, `Rtc`, `ModuleLoader` | the five properties of the run `boot`, and that `Boot` runs its parts |
| `LibraryProofs` | `Allocator`, `MemMove`, `Graphics`, `Printf` | six invariants, and the refinement of `Picture` |

### The interrupt path

None of the properties of `Interrupts` but `TypeOK` is inductive. `TerminalExclusive`, for
instance, is not preserved by entering `boot_any_key` unless it is known that `kmain` is past
its last printf then; that follows from when the handler was registered; and that it can only be
running through that registration must be carried along too. The strengthening `IInv` has five
parts:

* `BootProgress`: what is ready at each statement, and no interrupt before `sti`;
* `HandlersInstalled`: a key event handler only at the idle loop; every position of the running
  interrupt is justified by what is installed;
* `ShellStarted`: how `module_cur_handler`, `fns` and the position go together;
* `PicState`: in service is exactly what the interrupt being acknowledged occupies;
* `KeyboardState`: IRQ 1 pending or running exactly when its byte is in the 8042, and not both.

`TypeCorrect` proves `TypeOK`, `Inductive` proves `IInv` from it action by action, and one short
theorem per property follows. `BytesInOrderHolds` is an invariant of its own on top of `IInv`:
`KeyboardState` tells that the byte read is there, and the rest is associativity of
concatenation (`ShiftHead`).

In `IsrFrameProofs` the invariant (`StackFits`) says what the stack holds at every step: how
many words lie over the five of the CPU, where the vector and its error code are, and that some
register file with the values of the interrupted code is what the fifteen saved words spell in
the order of `pusha64`. That the order they are taken off in is another does not matter for
`OwnValuesReturn`, which speaks of sets: both macros name each register once (`PushNames`). That
it matters for the code is what the run `isr_restore` shows.

### The keyboard

`ModifiersMatchKeys` says something only when everything is read, while keys go down and up with
bytes still on the wire. The invariant looks ahead instead: a modifier *will* be in force when
the wire has been read, which the last byte that stands for it decides (`InForce`), exactly or
only if a key of it is held (`AheadMatches`). Reading a byte leaves that as it is; a key appends
whole codes that end in no prefix (`Complete`), the false shifts around arrow keys and the
control key inside Pause among them.

For `CharsHaveOneKey` both tables are gone through: the codepoint of a report is that of its key
and modifiers (an invariant on `events`), and no two keys have one in common whatever the
modifiers. The refinement needs what the wire is decoded into, which is a recursive function;
three lemmas say what it does with a byte more at the end, another beginning, and a byte read.
Each step of the driver is then the report of the oldest transition, or a stutter when it reads
a prefix, and each code put on the wire is transitions that happen.

### The console

The terminal's invariant says of every cell what is left of the picture and the buffer having
been written apart: the entry, unpacked, is the glyph and the colours of the cell, and any bar
is in the cell's own background but for the cursor's. `Next` keeps it case by case (glyph, new
line, backspace, with and without a scroll); `IndexInjective` and `IndexBelow` say that cells do
not share entries and that moving entries by `Width` moves cells by a row. The refinement of
`TextScreen` then compares rows: a picture scrolled through the buffer is the rows scrolled
(`ScrolledRows`). That the background stays black is in `Next`, as in all callers.

For `SerialCarries` what `serial_init` writes is part of the invariant, whatever the registers
held before, since with DLAB set, or
with fewer bits, a write to the first port would not be that character.

`ConsoleRunsItsParts` proves that every step of `Console` is one of the terminal, the serial
line and the shell, or leaves them alone. It takes that whatever is printed is something the
terminal has an entry for (`CommandPrints`), by induction over the arguments of a command, and
the shell's own invariant, `ShellProofs` with the sizes of `Console`: arguments consist of
letters because lines do. `PartsHoldTogether` then carries the theorems about the parts over to
the console.

`LineReadable` speaks of moments when no output is under way. `LineInv` covers those in between,
with a case for each thing that prints: after a key, the row reads up to the character still to
come; after Backspace, up to the one still to go; and after Enter, or at the start, what is left
of the output ends as the prompt does (`EndsInPrompt`), and as far as the prompt is printed the
row shows it in the colour in force (`PromptShown`). `GlyphShows` and `BackspaceShows` say what
one character does to the row of the cursor: it may scroll, but cells left of the cursor keep
their glyph and have no bar. Together with the shell's invariant that the memory holds the line,
that makes the row the line. That it can be read as nothing else is `FontDistinguishes`, a fact
about the bitmaps which TLC evaluates. Assumed is that a prompt with its space fits into a row
(`LineAssumption`), that what is printed has glyphs (`PrintedAssumption`), and that lines have
no more than 999 characters, whereas the code's buffer has 256.

### The shell

What must be carried along is that the line holds no NUL (`LineTyped`), so that the splitting
stops at its end, and that it is never longer than the longest line typed. `ArgsAreWords` is
proved of a single Enter: the places where arguments start are those where runs without a space
do (`RunsStartAtStarts`), in the same order since `Ascending` of a set is fixed by its ranks
(`AscendingRanks`, `AscendingShifts`), and the string left at each of them by the splitting is
the run (`StringIsRun`). For `ShellSurvives`, starts are two apart at least, so that a line has
at most one more than half as many as characters (`FewStarts`).

### Tetris

A new piece is put on what rows leave only if it fits there, and on an empty field otherwise;
what `PieceFits` needs is that every piece in its first rotation fits that (`StartFits`),
whatever the removal of rows computes.

`LandingClearsRows` is about that. `Looked` is the code's loop as a recursive function of the
number of rows looked at, and `SettledField` is what it should have computed: the rows among the
first n that are not full, lying on row n in their order. Both a full row, which moves those
above one down, and another keep them equal. The number of such rows below a place is a
cardinality, so that the lemmas are about sets of rows, one more or one less.

`ShowsGame` is proved layer by layer: the three pictures have no cell in common (`PieceFits`
once more, and that the preview lies beside the field), each block fills the middle of its own
cell and of no other since multiples of the size of a block lie apart, and the grid spares the
middles. Blocks must be two pixels wide and the field five rows high at least, and the preview
beside it inside the window (`ViewAssumption`).

### The boot

`BootRunsItsParts` proves that every step of `Boot` is one of `Descriptors`, of `Rtc` and of
`ModuleLoader`, or leaves them alone, so that each part has an invariant of its own.

* The tables: fields cut out of an address and put together by the CPU are the address again
  (`GateLeadsTo`, `TaskFound`), and the invariant says how far `idt_init` has come.
* The clock: a register once read stays, while the clock goes on. After n registers in the order
  of the code, what they say is not after what the clock now has in its first n fields
  (`ReadsPast`), whatever it was at each read; and either no second has passed since the first,
  or the clock is past it. Numbers in two BCD digits decode to themselves, and the weekday is
  compared with the calendar's by induction over years and months.
* The loader: how far each of its two passes has come, and that the modules started are exactly
  those chosen among the ones decided (`Started`). Of `strcmp` only two facts are needed: a
  string is equal to itself, and no two are that differ at a place both have.

The proof of `NeverAhead` showed that the property had excepted the wrong times: on a 12-hour
clock a midnight hour that is read as 12 is ahead of the clock even if that hour is over when
the read ends. The exception is now the hour returned.

### The library

For the allocator, the invariant says beyond the properties that nothing is handed out before
the heap is chosen, that the entry kept is the best of those seen, and that the pointer has
moved by no more than what was asked for (`Bounded`), which is what `InsideHeap` needs. Assumed
is that map entries have natural bases and lengths and that alignments are powers of two.

`Moved` follows from the loop invariant `PartlyMoved`: the bytes not yet copied are untouched,
because the direction is chosen so that a step never writes where a later one reads.

`graphics_rect` and `graphics_char` paint row after row, which are recursive functions: after k
rows the framebuffer is what it was but for the offsets inside the first k rows of the rectangle
or the bits of the bitmap (`Painted`). Offsets inside the picture belong to one column and row
(`PlaceInjective`), which takes `GraphicsWidth <= Pitch`, so that what is seen is `Picture`'s,
and nothing between the rows is written.

`PrintsLikeC` is proved from `PrintInv`: until the format ends, the buffer below the shorter of
`idx` and `maxlen` holds what the standard says was printed so far (`Printed`), `idx` is its
length and no argument is left over; after it, `Result`. An item keeps this because what
`Text` appends is `CText` (`TextLikeC`), whatever part of it fits (`EmitAgrees`). For a
number that is algebra of sequences (`NumberLikeC`): the scratch buffer is the digits
(`ScratchIs`), then zeroes (`ZeroedIs`), the prefix back to front and the sign, and its
reversal is the concatenation of their reversals in the opposite order (`ReversedConcat`).
With a prefix, `Follows` leaves neither width nor precision, so that no digit gives way
(`WithPrefix`); without one, zeroes come from the precision or from the width less the sign,
and spaces make up the rest (`WithoutPrefix`). `Follows` bounds the digits by the scratch
buffer, which is why the theorem needs nothing about its size but that it is not 0, nor about
the integer types but that they have values. The proof showed that the model had kept `#` for
`%p` of 0, where the code drops it (`stdio.c:157`); `Flags` now does so, and the run has
such an item.

### How recursion is proved about

The provers cannot instantiate a theorem with an operator parameter, so induction is over a set:
if 0 is in S and n - 1 in S gives n in S, all numbers up to a bound are in it (`Induct`), from
the well-foundedness of the order on numbers. A recursive function is a CHOOSE, of which nothing
is known before there is a function that satisfies its equation; such a function is built step
by step (`AddingExists`, `RowsExist`, `DividedExists`) or given in closed form.

### Only model-checked

* Liveness: `BootCompletes`, `BytesConsumed`, `PiecesLand`, `OutputEnds`. Fairness is out of the
  prover's reach.
* The three counterexamples, which are single behaviours.

## 6. Not modelled

Functions nothing calls: `terminal_set_fg`, `terminal_set_bg`, `serial_rx`, `serial_tx_str`, `memcmp`,
`sprintf`, and all of `ctype.h`. The bold font, which nothing uses, and the six bitmaps behind those of the
printable characters. What the template module prints when it is initialised, which it is not: the kernel
starts the shell only. The headers of the boot protocol are data for the boot loader; the loader and its
installer are vendored, and the build has no run-time behaviour but for leaving `.bss` out of module
files, which the modules' models use.

Non-maskable interrupts, exceptions during handlers and spurious IRQ 7 and 15 are outside `Interrupts`. A
wild `kmain` (see `derailed`) may overwrite anything, which no model here follows. The boot stack
of 4096 bytes (`stivale2.c:4`) is shared by `kmain` and all handlers; how much of it a call takes is the
compiler's business. Tetris's trail (see `TetrisView`) is not followed from one `update` to the next.

## 7. Plan

A composition: `Interrupts` and `Keyboard` both have `keyboard_irq_handler`, the one with its
place in the interrupt path and the other with what it does to a byte. A module in which the
second's wire is the first's 8042 could be shown to implement both.
