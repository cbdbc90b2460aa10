-------------------------------- MODULE Rtc ---------------------------------
(***************************************************************************)
(* rtc_read of cmos.c beside the clock it reads.  The clock goes on while   *)
(* its registers are read one after the other: interrupts are enabled when  *)
(* kmain calls rtc_read, so any number of seconds may pass between two      *)
(* reads although the code has waited for an update to end.                 *)
(***************************************************************************)
EXTENDS Integers, Sequences

CONSTANTS
  Starts,     \* dates and times the clock may show when rtc_read is called
  Modes,      \* the settings of register B it may have
  MaxUpdates  \* bound: updates during one rtc_read

Fields == {"Year", "Month", "Day", "Hour", "Minute", "Second"}

VARIABLES
  time,       \* the clock: a full year, and the other fields
  mode,       \* its register B: [binary, hours24], TRUE if the bit is set
  updating,   \* bit 7 of its register A
  updates,
  pc,         \* "wait", the number of the next register to read, or "done"
  registers,  \* RTC_Registers
  result,     \* the DateTime
  began, ended,  \* history: the time when the first and the last field were read
  torn        \* history: a register was read during an update

clock == <<time, mode, updating, updates>>
vars == <<time, mode, updating, updates, pc, registers, result, began, ended, torn>>

-----------------------------------------------------------------------------
(* The clock, an MC146818 (external).                                       *)
Leap(y) == y % 4 = 0 /\ (y % 100 # 0 \/ y % 400 = 0)
DaysIn(m, y) == IF m = 2 THEN (IF Leap(y) THEN 29 ELSE 28)
                ELSE IF m \in {4, 6, 9, 11} THEN 30 ELSE 31

(* What the clock may show; the code knows no year before 1970.             *)
ValidTime(t) ==
  /\ t \in [Fields -> Nat]
  /\ t.Year >= 1970 /\ t.Month \in 1..12 /\ t.Day \in 1..DaysIn(t.Month, t.Year)
  /\ t.Hour \in 0..23 /\ t.Minute \in 0..59 /\ t.Second \in 0..59

(* The next second: a field steps when all below it are at their end.       *)
NextSecond(t) ==
  LET s == t.Second = 59
      n == s /\ t.Minute = 59
      h == n /\ t.Hour = 23
      d == h /\ t.Day = DaysIn(t.Month, t.Year)
      m == d /\ t.Month = 12
  IN  [Second |-> IF s THEN 0 ELSE t.Second + 1,
       Minute |-> IF n THEN 0 ELSE IF s THEN t.Minute + 1 ELSE t.Minute,
       Hour   |-> IF h THEN 0 ELSE IF n THEN t.Hour + 1 ELSE t.Hour,
       Day    |-> IF d THEN 1 ELSE IF h THEN t.Day + 1 ELSE t.Day,
       Month  |-> IF m THEN 1 ELSE IF d THEN t.Month + 1 ELSE t.Month,
       Year   |-> IF m THEN t.Year + 1 ELSE t.Year]

Bcd(v) == (v \div 10) * 16 + (v % 10)
Encode(v) == IF mode.binary THEN v ELSE Bcd(v)
HourByte(h) ==
  IF mode.hours24 THEN Encode(h)
  ELSE Encode(IF h % 12 = 0 THEN 12 ELSE h % 12) + (IF h >= 12 THEN 128 ELSE 0)
Register(t, field) ==
  CASE field = "Year" -> Encode(t.Year % 100)
    [] field = "Hour" -> HourByte(t.Hour)
    [] OTHER -> Encode(t[field])

BeginUpdate ==
  /\ ~updating /\ updates < MaxUpdates /\ pc # "done"
  /\ updating' = TRUE
  /\ UNCHANGED <<time, mode, updates, pc, registers, result, began, ended, torn>>

EndUpdate ==
  /\ updating
  /\ updating' = FALSE /\ updates' = updates + 1 /\ time' = NextSecond(time)
  /\ UNCHANGED <<mode, pc, registers, result, began, ended, torn>>

-----------------------------------------------------------------------------
(* rtc_read_registers                                                       *)
ReadOrder_SecondFirst == <<"Second", "Minute", "Hour", "Day", "Month", "Year">>
ReadOrder == <<"Year", "Month", "Day", "Hour", "Minute", "Second">>

(* while(rtc_ready()) {}                                                    *)
WaitForUpdate ==
  /\ pc = "wait" /\ ~updating
  /\ pc' = "read1"
  /\ UNCHANGED <<clock, registers, result, began, ended, torn>>

ReadPc == <<"read1", "read2", "read3", "read4", "read5", "read6">>

(* During an update a register reads as anything; two bytes stand for that. *)
ReadRegister(n) ==
  /\ pc = ReadPc[n]
  /\ \E v \in IF updating THEN {0, 127} ELSE {Register(time, ReadOrder[n])} :
       registers' = [registers EXCEPT ![ReadOrder[n]] = v]
  /\ torn' = (torn \/ updating)
  /\ began' = IF n = 1 THEN time ELSE began
  /\ ended' = IF n = 6 THEN time ELSE ended
  /\ pc' = IF n < 6 THEN ReadPc[n + 1] ELSE "convert"
  /\ UNCHANGED <<clock, result>>

bcd_to_binary(v) == (v % 16) + (v \div 16) * 10

Hour24_KeepsPm(h) == h % 128
Hour24(h) == IF ~mode.hours24 /\ h >= 128 THEN ((h % 128) + 12) % 24 ELSE h
HourOf(byte) ==
  Hour24(IF mode.binary THEN byte ELSE bcd_to_binary(byte % 128) + (byte \div 128) * 128)

FullYear_Fixed(y) == 2000 + y
FullYear(y) == (IF y < 70 THEN 2000 ELSE 1900) + y

(* weekday, with the two digits of the year; in January and February the    *)
(* year steps back, from 0 to 2^32 - 1, whose quotients are written out.    *)
weekday(d, m, y) ==
  LET early == m < 3
      days  == d + (IF early THEN y ELSE y - 2)
      z     == IF early THEN y - 1 ELSE y
      cycle == IF z < 0 THEN 1073741823 - 42949672 + 10737418
               ELSE z \div 4 - z \div 100 + z \div 400
  IN  ((23 * m) \div 9 + days + 4 + cycle) % 7

Convert ==
  /\ pc = "convert" /\ pc' = "done"
  /\ LET r == [f \in Fields |-> IF f = "Hour" THEN HourOf(registers[f])
                                ELSE IF mode.binary THEN registers[f]
                                ELSE bcd_to_binary(registers[f])]
     IN  result' = [f \in Fields \cup {"Weekday"} |->
                      CASE f = "Year" -> FullYear(r.Year)
                        [] f = "Weekday" -> weekday(r.Day, r.Month, r.Year)
                        [] OTHER -> r[f]]
  /\ UNCHANGED <<clock, registers, began, ended, torn>>

Blank == [f \in Fields |-> 0]

Init ==
  /\ time \in Starts /\ mode \in Modes /\ updating \in BOOLEAN /\ updates = 0
  /\ pc = "wait" /\ registers = Blank /\ result = Blank
  /\ began = Blank /\ ended = Blank /\ torn = FALSE

Next == BeginUpdate \/ EndUpdate \/ WaitForUpdate \/ Convert
          \/ \E n \in 1..6 : ReadRegister(n)

Spec == Init /\ [][Next]_vars

-----------------------------------------------------------------------------
(* Properties *)

Done == pc = "done" /\ ~torn

(* The hours a 12-hour clock writes as 12, which the conversion gets wrong: *)
(* it makes 12 of midnight and 0 of noon.                                   *)
NoonOrMidnight(h) == ~mode.hours24 /\ h % 12 = 0

(* a is not after b.                                                        *)
Order == <<"Year", "Month", "Day", "Hour", "Minute", "Second">>
NotAfter(a, b) ==
  \/ \A f \in Fields : a[f] = b[f]
  \/ \E n \in 1..6 : a[Order[n]] < b[Order[n]] /\ \A k \in 1..n - 1 : a[Order[k]] = b[Order[k]]

(* However many seconds pass between two reads, the date and time returned  *)
(* were already past when the last register was read: the code reads from   *)
(* the year down (cmos.c:34-39).  It says nothing of a midnight read as 12, *)
(* nor of registers read during an update.                                  *)
NeverAhead == Done /\ (mode.hours24 \/ result.Hour # 12) => NotAfter(result, ended)

MarchOf2000 ==
  [Year |-> 2000, Month |-> 3, Day |-> 1, Hour |-> 0, Minute |-> 0, Second |-> 0]

(* The days from 1 January 1970, a Thursday.                                *)
DaysToYear[y \in 1970..2100] ==
  IF y = 1970 THEN 0 ELSE DaysToYear[y - 1] + (IF Leap(y - 1) THEN 366 ELSE 365)
DaysBefore(month, y) ==
  LET to[m \in 1..12] == IF m = 1 THEN DaysToYear[y] ELSE to[m - 1] + DaysIn(m - 1, y)
  IN  to[month]
Weekday(d, m, y) == (DaysBefore(m, y) + d + 3) % 7

(* If no second passed, the result is the clock's date and time in every    *)
(* mode but for the hours of 12, and its weekday is the calendar's from     *)
(* March 2000 on, as long as two digits tell the year (cmos.c:44-53,        *)
(* 71-100).                                                                 *)
ReadsTheClock ==
  Done /\ began = ended /\ ended.Year <= 2069 =>
    /\ \A f \in Fields : (f = "Hour" => ~NoonOrMidnight(ended.Hour)) => result[f] = ended[f]
    /\ NotAfter(MarchOf2000, ended) =>
         result.Weekday = Weekday(ended.Day, ended.Month, ended.Year)
=============================================================================
