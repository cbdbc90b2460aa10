------------------------------- MODULE Shell --------------------------------
(***************************************************************************)
(* The shell module's line editing and its splitting of a line into         *)
(* arguments.  The line is kept in an array nobody bounds, and split in     *)
(* place, so the array and what lies around it are one piece of memory      *)
(* here.  One event_key is one step: a signal runs to its end inside the    *)
(* keyboard's interrupt (module Interrupts).                                *)
(***************************************************************************)
EXTENDS Integers, Sequences, FiniteSets

CONSTANTS
  Size,     \* SHELL_BUFFER_SIZE
  MaxArgs,  \* the elements of argv
  Letters,  \* printable characters typed, other than the space
  MaxLine   \* bound: the longest line typed

Nul == 0
Space == 32
Bell == 7   \* stands for the codes that are neither printed nor acted upon

ASSUME ShellSizes ==
  /\ Size \in Nat \ {0} /\ MaxArgs \in Nat \ {0} /\ MaxLine \in Nat
  /\ Letters \subseteq 33..126

VARIABLES
  Cursor,   \* shell.Cursor
  memory,   \* shell.Buffer at 0 .. Size - 1 and the bytes around it
  argv,     \* where the arguments of the last command start
  printed,  \* the arguments as the last command printed them
  lost,     \* a write outside hit something the shell needs to go on
  text,     \* history: the line the user sees himself typing
  line,     \* history: the last line entered
  longest   \* history: the length of the longest line typed

history == <<text, line, longest>>
vars == <<Cursor, memory, argv, printed, lost, history>>

Bytes == -1..MaxLine
Own   == 0..Size - 1
isprint(c) == c \in 32..126

(* Where the string at i ends, and the string.                              *)
EndOf(m, i) == CHOOSE e \in i..MaxLine : m[e] = Nul /\ \A k \in i..e - 1 : m[k] # Nul
StringAt(m, i) == [k \in 1..EndOf(m, i) - i |-> m[i + k - 1]]

(* The elements of a set of numbers in ascending order.                     *)
Ascending(S) == [k \in 1..Cardinality(S) |->
                   CHOOSE s \in S : Cardinality({r \in S : r < s}) = k - 1]

(* shell_command: every space of the line becomes the end of a string, and  *)
(* every first character after one is the start of an argument.             *)
Starts_EverySpace(m) == {i \in 0..EndOf(m, 0) - 1 : i = 0 \/ m[i - 1] = Space}
Starts(m) == {i \in 0..EndOf(m, 0) - 1 : m[i] # Space /\ (i = 0 \/ m[i - 1] = Space)}

Split_KeepsSpaces(m) == m
Split(m) == [i \in Bytes |-> IF i \in 0..EndOf(m, 0) - 1 /\ m[i] = Space THEN Nul ELSE m[i]]

(* What lies around the buffer and argv is the choice of the compiler and   *)
(* the boot loader: it may be free, or the module's table of functions or a *)
(* return address.                                                          *)
MayLose(outside) == lost' \in (IF outside THEN BOOLEAN ELSE {FALSE})

shell_command(m) ==
  /\ argv' = Ascending(Starts(m))
  /\ memory' = Split(m)
  /\ printed' = [k \in DOMAIN argv' |-> StringAt(memory', argv'[k])]

PrintKey(c) ==
  /\ isprint(c) /\ Cursor < MaxLine
  /\ memory' = [memory EXCEPT ![Cursor] = c]
  /\ Cursor' = Cursor + 1
  /\ MayLose(Cursor \notin Own)
  /\ text' = Append(text, c)
  /\ longest' = IF longest < Len(text') THEN Len(text') ELSE longest
  /\ UNCHANGED <<argv, printed, line>>

shell_enter_KeepsCursor(c) ==
  /\ c = 10
  /\ shell_command([memory EXCEPT ![Cursor] = Nul])
  /\ lost' = FALSE /\ line' = text /\ text' = <<>>
  /\ UNCHANGED <<Cursor, longest>>

shell_enter(c) ==
  /\ c = 10
  /\ shell_command([memory EXCEPT ![Cursor] = Nul])
  /\ Cursor' = 0
  /\ MayLose(Cursor \notin Own \/ Len(argv') > MaxArgs)
  /\ line' = text /\ text' = <<>>
  /\ UNCHANGED longest

Erase_Unguarded(c) ==
  /\ c = 8
  /\ memory' = [memory EXCEPT ![Cursor - 1] = Nul]
  /\ Cursor' = Cursor - 1
  /\ lost' = FALSE /\ text' = <<>>
  /\ UNCHANGED <<argv, printed, line, longest>>

Erase(c) ==
  /\ c = 8 /\ Cursor > 0
  /\ memory' = [memory EXCEPT ![Cursor - 1] = Nul]
  /\ Cursor' = Cursor - 1
  /\ MayLose(Cursor - 1 \notin Own)
  /\ text' = SubSeq(text, 1, Len(text) - 1)
  /\ UNCHANGED <<argv, printed, line, longest>>

Ignore(c) == ~isprint(c) /\ c # 10 /\ ~(c = 8 /\ Cursor > 0) /\ UNCHANGED vars

event_key(ascii, released) ==
  /\ ~lost
  /\ \/ released /\ UNCHANGED vars
     \/ ~released /\ (PrintKey(ascii) \/ shell_enter(ascii) \/ Erase(ascii) \/ Ignore(ascii))

(* The module's image is loaded without its .bss, so that the bytes of the  *)
(* buffer are whatever the memory held; shell_init sets only Cursor.        *)
Init ==
  /\ Cursor = 0 /\ argv = <<>> /\ printed = <<>> /\ lost = FALSE
  /\ \E c \in Letters \cup {Space, Nul} : memory = [i \in Bytes |-> c]
  /\ text = <<>> /\ line = <<>> /\ longest = 0

Keys == Letters \cup {Space, 8, 10, Bell}
Next == \E ascii \in Keys, released \in BOOLEAN : event_key(ascii, released)

Spec == Init /\ [][Next]_vars

-----------------------------------------------------------------------------
(* Properties *)

(* The variables keep their ranges, and the line edited in place is the one *)
(* the user typed and erased (main.c:85-99).                                *)
TypeOK ==
  /\ Cursor \in 0..MaxLine /\ lost \in BOOLEAN
  /\ memory \in [Bytes -> Letters \cup {Space, Nul}]
  /\ text = [k \in 1..Cursor |-> memory[k - 1]]

(* The words of a line: its longest runs without a space, in their order.   *)
IsRun(s, a, b) == /\ \A k \in a..b : s[k] # Space
                  /\ a = 1 \/ s[a - 1] = Space
                  /\ b = Len(s) \/ s[b + 1] = Space
Words(s) ==
  LET first == Ascending({a \in DOMAIN s : \E b \in a..Len(s) : IsRun(s, a, b)})
  IN  [n \in DOMAIN first |->
         SubSeq(s, first[n], CHOOSE b \in first[n]..Len(s) : IsRun(s, first[n], b))]

(* The arguments printed are the words of the line entered, whatever        *)
(* earlier and longer lines, and the unloaded .bss, left in the buffer      *)
(* (main.c:27-60, 92).                                                      *)
ArgsAreWords == printed = Words(line)

(* The bytes around the buffer, and its owner, are hurt only by a line that *)
(* fills the buffer: the missing bound in event_key (main.c:87, 92) and the *)
(* present one in Backspace (main.c:95).                                    *)
OwnMemory == [][longest' < Size => \A i \in Bytes \ Own : memory'[i] = memory[i]]_vars

(* argv's missing bound (main.c:29, 47) needs a line longer than twice its  *)
(* length: a shorter one, in a buffer it fits, leaves the shell alive.      *)
ShellSurvives == lost => longest >= Size \/ longest > 2 * MaxArgs
=============================================================================
