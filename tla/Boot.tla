-------------------------------- MODULE Boot --------------------------------
(***************************************************************************)
(* kmain as a whole, by what it is handed: the boot loader's memory map,    *)
(* the addresses the linker chose, the clock and the modules.  Its parts    *)
(* run one after the other, those of Descriptors, Rtc and ModuleLoader step *)
(* by step; module Interrupts has the interrupts that come in between.      *)
(***************************************************************************)
EXTENDS Descriptors

CONSTANTS
  NULL, TagLists, Shell,     \* as in ModuleLoader
  Starts, Modes, MaxUpdates  \* as in Rtc

VARIABLES
  at,  \* the statement of kmain, or "fault"
  time, mode, updating, updates, pc, registers, result, began, ended, torn,
  tags, phase, entry, listed, module_cur_handler, started

Clock  == INSTANCE Rtc
Loader == INSTANCE ModuleLoader WITH i <- entry

ASSUME StartsAssumption == \A t \in Starts : Clock!ValidTime(t)
ASSUME ModesAssumption == Modes \subseteq [binary : BOOLEAN, hours24 : BOOLEAN]
ASSUME TagListsAssumption == \A t \in TagLists : Loader!ValidTags(t)
ASSUME ShellAssumption == Shell \in Seq(STRING)

rtc     == <<time, mode, updating, updates, pc, registers, result, began, ended, torn>>
modules == <<tags, phase, entry, listed, module_cur_handler, started>>
boot == <<at, vars, rtc, modules>>

(* pmm_init is the first to use the memory map, and follows the pointer     *)
(* to it whether there is one or not.                                       *)
pmm_init ==
  /\ at = "pmm_init"
  /\ at' = IF Loader!MemMap = NULL THEN "fault" ELSE "graphics_init"
  /\ UNCHANGED <<vars, rtc, modules>>

(* So does graphics_init with the framebuffer (module Graphics).            *)
graphics_init ==
  /\ at = "graphics_init"
  /\ at' = IF Loader!stivale2_get_tag(tags, "framebuffer") = NULL THEN "fault"
           ELSE "memory_map_print"
  /\ UNCHANGED <<vars, rtc, modules>>

(* It follows the pointer pmm_init has followed, and prints.                *)
memory_map_print ==
  /\ at = "memory_map_print" /\ at' = "gdt_init"
  /\ UNCHANGED <<vars, rtc, modules>>

GdtInit ==
  /\ at = "gdt_init" /\ at' = "idt_init"
  /\ gdt_init
  /\ UNCHANGED <<rtc, modules>>

IdtInit ==
  /\ at = "idt_init"
  /\ \/ create_descriptor /\ UNCHANGED at
     \/ _load_idt_asm /\ at' = "rtc_read"
  /\ UNCHANGED <<rtc, modules>>

(* The clock goes on at all times; before and after rtc_read nobody looks.  *)
RtcRead ==
  /\ at = "rtc_read"
  /\ Clock!Next
  /\ at' = IF pc' = "done" THEN "prompt" ELSE at
  /\ UNCHANGED <<vars, modules>>

Enter ==
  /\ at = "prompt" /\ at' = "modules"
  /\ UNCHANGED <<vars, rtc, modules>>

Modules ==
  /\ at = "modules"
  /\ Loader!Next
  /\ UNCHANGED <<at, vars, rtc>>

BootInit == at = "pmm_init" /\ Init /\ Clock!Init /\ Loader!Init

BootNext == \/ pmm_init \/ graphics_init \/ memory_map_print
            \/ GdtInit \/ IdtInit \/ RtcRead \/ Enter \/ Modules

BootSpec == BootInit /\ [][BootNext]_boot

-----------------------------------------------------------------------------
(* Properties *)

(* However many seconds pass between two reads, the date and time printed   *)
(* are not ahead of the clock (Rtc; cmos.c:34-39).                          *)
NeverAhead == Clock!NeverAhead

(* If no second passed they are the clock's, but for the hours of 12 of a   *)
(* 12-hour clock (Rtc; cmos.c:44-53, 71-100).                               *)
ReadsTheClock == Clock!ReadsTheClock

(* Of the modules behind the prompt the shells are started, in order, and   *)
(* none with a missing section is needed (ModuleLoader; module.c:38-112).   *)
ShellStarts == at = "modules" => Loader!ShellStarts
=============================================================================
