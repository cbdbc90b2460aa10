------------------------------- MODULE Serial -------------------------------
(***************************************************************************)
(* serial.c over the registers of a 16550 at COM1.  The terminal sends it   *)
(* every character it shows.  serial_rx and serial_tx_str, which nothing    *)
(* calls, are left out.                                                     *)
(***************************************************************************)
EXTENDS Integers, Sequences

CONSTANT Firmware   \* the values the firmware may have left in a register

ASSUME FirmwareAssumption == Firmware \subseteq 0..255

VARIABLES
  uart,    \* the registers written, by their names in the data sheet
  unsent   \* history: what was printed and is not yet on the line

serial == <<uart, unsent>>

Empty == -1  \* no character is waiting in THR

(* The first two ports are those of the divisor while the highest bit of    *)
(* the line control register is set; bit 2 of the FIFO control register     *)
(* throws away what waits to be sent.                                       *)
DLAB(u) == u.LCR >= 128
outb(u, port, v) ==
  IF port = 0 /\ DLAB(u) THEN [u EXCEPT !.DLL = v] ELSE
  IF port = 1 /\ DLAB(u) THEN [u EXCEPT !.DLM = v] ELSE
  IF port = 0 THEN [u EXCEPT !.THR = v] ELSE IF port = 1 THEN [u EXCEPT !.IER = v] ELSE
  IF port = 2 THEN [u EXCEPT !.FCR = v, !.THR = IF (v \div 4) % 2 = 1 THEN Empty ELSE @]
  ELSE IF port = 3 THEN [u EXCEPT !.LCR = v] ELSE [u EXCEPT !.MCR = v]

(* The line control register loses DLAB again: 8 bits, no parity.           *)
LineControl_KeepsDLAB == 131
LineControl == 3

(* The writes of serial_init in their order: the divisor, the settings.     *)
SetDivisor(u) == outb(outb(outb(u, 1, 0), 3, 128), 0, 3)
SetLine(u) == outb(outb(outb(outb(u, 1, 0), 3, LineControl), 2, 199), 4, 11)
serial_init(u) == SetLine(SetDivisor(u))

(* Whatever the firmware has left, a character still waiting included.  If  *)
(* it left DLAB set, both writes to port 1 go to the divisor, and IER keeps *)
(* what it was.                                                             *)
PowerOn ==
  [THR : {Empty} \cup Firmware, IER : Firmware, FCR : Firmware, LCR : Firmware,
   MCR : Firmware, DLL : Firmware, DLM : Firmware]

SerialInit == uart \in {serial_init(u) : u \in PowerOn} /\ unsent = <<>>

(* The line status has bit 5 while THR is empty.                            *)
LineStatus == IF uart.THR = Empty THEN 96 ELSE 0
serial_tx(c) ==
  /\ (LineStatus \div 32) % 2 = 1
  /\ uart' = outb(uart, 0, c)
  /\ unsent' = Append(unsent, c)

(* The transmitter sends as many bits of a character as the line control    *)
(* register says, at a rate its divisor gives.                              *)
OnTheLine == uart.THR % <<32, 64, 128, 256>>[1 + (uart.LCR % 4)]
Transmit ==
  /\ uart.THR # Empty /\ uart.DLL + 256 * uart.DLM # 0
  /\ uart' = [uart EXCEPT !.THR = Empty]
  /\ unsent' = IF unsent # <<>> /\ Head(unsent) = OnTheLine THEN Tail(unsent) ELSE unsent

(* Whoever prints, one character after the other.                           *)
SerialNext == Transmit \/ \E c \in 0..255 : serial_tx(c)

SerialSpec == SerialInit /\ [][SerialNext]_serial

-----------------------------------------------------------------------------
(* Properties *)

(* Every character printed goes onto the line once, whole and in order:     *)
(* what is not there yet is the one waiting in THR, and nothing waits there *)
(* that was not printed.  It takes the wait in serial_tx, the order of      *)
(* serial_init's writes, and that they throw away what the firmware left to *)
(* be sent (serial.c:6-15, 23-27).                                          *)
SerialCarries == unsent = IF uart.THR = Empty THEN <<>> ELSE <<uart.THR>>
=============================================================================
