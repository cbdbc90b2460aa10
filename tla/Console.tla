------------------------------ MODULE Console -------------------------------
(***************************************************************************)
(* The console a user sits at: the shell's output goes through printf into  *)
(* the terminal, character by character, and from there onto the screen and *)
(* the serial line.  A key's output is printed before the keyboard's        *)
(* interrupt returns, so that the next key finds it finished; meanwhile     *)
(* only the UART goes on.                                                   *)
(***************************************************************************)
EXTENDS Terminal, Serial, Font

CONSTANTS
  Messages,                              \* what kmain's printing consists of
  Prompt, Banner,                        \* what the shell prints first, and at its start
  BufferSize, MaxArgs, Letters, MaxLine  \* as in Shell

(* The shell prints what it was given; numbers of arguments have no more    *)
(* than three digits, as the code's buffer of 256 characters has it, and    *)
(* the prompt fits the screen.                                              *)
ASSUME PrintedAssumption ==
  /\ Messages \subseteq Glyphs \cup {8, 10}
  /\ Prompt \in Seq(Glyphs) /\ Banner \in Seq(Glyphs \cup {10})
  /\ Letters \cup 48..57 \subseteq Glyphs
ASSUME LineAssumption ==
  /\ BufferSize \in Nat \ {0} /\ MaxArgs \in Nat \ {0} /\ MaxLine \in 0..999
  /\ Letters \subseteq 33..126 /\ Len(Prompt) + 1 < Width

Green == 2
Red   == 1

VARIABLES
  at,    \* "kmain" until Enter starts the shell, then "shell"
  out,   \* what is left of the output under way
  wide,  \* history: the line has reached the right edge of the screen
  Cursor, memory, argv, printed, lost, text, line, longest

editor  == <<Cursor, memory, argv, printed, lost, text, line, longest>>
display == <<X, Y, colors, Buffer, screen>>
console == <<at, out, wide, editor, display, serial>>

Shell == INSTANCE Shell WITH Size <- BufferSize

-----------------------------------------------------------------------------
(* Output *)

Chars(s)  == [k \in DOMAIN s |-> [set |-> FALSE, value |-> s[k]]]
Color(fg) == <<[set |-> TRUE, value |-> fg]>>

(* shell_prompt, and what the calls of printf elsewhere say; the words      *)
(* around numbers and arguments are left out.                               *)
ShellPrompt == Color(Green) \o Chars(<<10>> \o Prompt) \o Color(White) \o Chars(<<Space>>)
ShellStart  == Color(Red) \o Chars(Banner) \o ShellPrompt

Decimal(n) ==
  SubSeq(<<48 + (n \div 100), 48 + ((n \div 10) % 10), 48 + (n % 10)>>,
         IF n < 10 THEN 3 ELSE IF n < 100 THEN 2 ELSE 1, 3)

(* The number of the arguments, and each on a line with its own.            *)
ArgumentLines(args) ==
  LET upto[n \in 0..Len(args)] ==
        IF n = 0 THEN Chars(Decimal(Len(args)) \o <<10>>)
        ELSE upto[n - 1] \o Chars(Decimal(n - 1) \o args[n] \o <<10>>)
  IN  upto
CommandOutput(args) == ArgumentLines(args)[Len(args)]

(* terminal_print: each character goes to the terminal, which hands it to   *)
(* the UART as soon as that takes it.                                       *)
Rest_Same(s) == s
Rest(s) == Tail(s)

PrintNext ==
  /\ out # <<>>
  /\ IF Head(out).set
       THEN terminal_set_color([fg |-> Head(out).value, bg |-> Black]) /\ UNCHANGED serial
       ELSE terminal_char(Head(out).value) /\ serial_tx(Head(out).value)
  /\ out' = Rest(out)
  /\ UNCHANGED <<at, wide, editor>>

(* The transmitter at work.                                                 *)
Send == Transmit /\ UNCHANGED <<at, out, wide, editor, display>>

-----------------------------------------------------------------------------
(* What prints *)

KmainPrints ==
  /\ at = "kmain" /\ out = <<>>
  /\ \E c \in Messages : out' = Chars(<<c>>)
  /\ UNCHANGED <<at, wide, editor, display, serial>>

StartShell ==
  /\ at = "kmain" /\ out = <<>>
  /\ at' = "shell" /\ out' = ShellStart
  /\ UNCHANGED <<wide, editor, display, serial>>

(* The line reaches the edge when the cursor would go behind it.            *)
LineStart == Len(Prompt) + 1
Type(c) ==
  /\ Shell!PrintKey(c) /\ out' = Chars(<<c>>)
  /\ wide' = (wide \/ LineStart + Len(text') >= Width)

Enter(c) ==
  /\ Shell!shell_enter(c) /\ out' = Chars(<<10>>) \o CommandOutput(printed') \o ShellPrompt
  /\ wide' = FALSE

Erase(c)  == Shell!Erase(c) /\ out' = Chars(<<8>>) /\ UNCHANGED wide
Ignore(c) == Shell!Ignore(c) /\ UNCHANGED <<out, wide>>

Key(c) ==
  /\ at = "shell" /\ out = <<>> /\ ~lost
  /\ Type(c) \/ Enter(c) \/ Erase(c) \/ Ignore(c)
  /\ UNCHANGED <<at, display, serial>>

ConsoleInit ==
  /\ Init /\ SerialInit /\ Shell!Init
  /\ at = "kmain" /\ out = <<>> /\ wide = FALSE

ConsoleNext ==
  PrintNext \/ Send \/ KmainPrints \/ StartShell \/ \E c \in Shell!Keys : Key(c)

ConsoleSpec == ConsoleInit /\ [][ConsoleNext]_console

(* The CPU goes on, and so does the UART.                                   *)
FairConsole == ConsoleSpec /\ WF_console(PrintNext) /\ WF_console(Send)
-----------------------------------------------------------------------------
(* Properties *)

(* What a cell of the screen can be read as, and whether it is in a colour. *)
Readings(cell) == LooksLike[cell.c, cell.bar # NoBar]
Reads(cell, c, fg) == Readings(cell) = {c} /\ cell.fg = fg /\ cell.bg = Black

(* As long as a line has not reached the right edge, the row of the cursor  *)
(* can be read as the prompt in green and the line in the shell's buffer in *)
(* white, up to the cursor: keys and output, erasing, scrolls and what the  *)
(* cursor leaves of the letters it passes come out even (shell main.c:62-69,*)
(* 83-100; terminal.c:93-155).  Behind the edge they do not, since          *)
(* Backspace goes back to the beginning of the row above.                   *)
LineReadable ==
  at = "shell" /\ out = <<>> /\ ~wide =>
    LET shown == Prompt \o <<Space>> \o [k \in 1..Cursor |-> memory[k - 1]]
    IN  /\ X = Len(shown)
        /\ \A k \in DOMAIN shown :
             Reads(screen[Index(k - 1, Y)], shown[k], IF k <= Len(Prompt) THEN Green ELSE White)

(* All output comes to an end, after every key: if the UART sends what it   *)
(* is given, waiting for it never holds the kernel for good (serial.c:25,   *)
(* terminal.c:97, 157-164).                                                 *)
OutputEnds == []<>(out = <<>>)
=============================================================================
