---------------------------- MODULE ModuleLoader ----------------------------
(***************************************************************************)
(* module_list and module_init of module.c, which the first Enter runs one  *)
(* after the other over the boot loader's memory map (which is there, since *)
(* pmm_init has used it).  A pointer to a section that is not there is      *)
(* followed all the same: that is the state "fault", after which nothing is *)
(* known.                                                                   *)
(***************************************************************************)
EXTENDS BootInfo, ModuleHeader

CONSTANTS
  TagLists,   \* lists of tags the boot loader may pass
  Shell       \* the name compared with, a sequence of characters

VARIABLES
  tags,
  phase,               \* "list", "init", "done" or "fault"
  i,                   \* the entry of the map being looked at
  listed,              \* the entries whose headers were printed
  module_cur_handler,  \* the entry whose handler gets the signals, or NULL
  started              \* the entries that got SIGNAL_ID_INIT, in order

vars == <<tags, phase, i, listed, module_cur_handler, started>>

MemMap == stivale2_get_tag(tags, "memmap")
Entries == MemMap.entries

(* What lies at the base of an entry is taken for a header if it has the    *)
(* magic number.                                                            *)
IsModule(entry) == entry.type = "kernel_and_modules" /\ entry.magic

(* The tags the boot loader may pass: they are a list, the memory map is an *)
(* array, and a module has a list of sections and a string for a name.      *)
IsList(s) == Len(s) \in Nat /\ DOMAIN s = 1..Len(s)
ValidTags(list) ==
  /\ IsList(list)
  /\ \A k \in DOMAIN list : list[k].identifier = "memmap" =>
       LET map == list[k].entries
       IN  /\ IsList(map)
           /\ \A n \in DOMAIN map : IsModule(map[n]) =>
                LET s == map[n].Sections
                IN  IsList(s) /\ \A j \in DOMAIN s : s[j].Type = "name" => s[j].Value \in Seq(STRING)

(* get_section: the first section of a type, as its value.                  *)
get_section(header, type) ==
  LET s == header.Sections
      found == {k \in DOMAIN s : s[k].Type = type}
  IN  IF found = {} THEN NULL ELSE s[CHOOSE k \in found : \A j \in found : k <= j].Value

(* strcmp of string.c says "equal" when either string is a prefix of the    *)
(* other.                                                                   *)
Equal_Unnegated(s1, s2) == \E k \in DOMAIN s1 \cap DOMAIN s2 : s1[k] # s2[k]
Equal(s1, s2) == \A k \in DOMAIN s1 \cap DOMAIN s2 : s1[k] = s2[k]

(* A statement that follows a pointer faults if it is NULL.                 *)
Fault == phase' = "fault" /\ UNCHANGED <<tags, i, listed, module_cur_handler, started>>

NextEntry == i' = i + 1 /\ UNCHANGED <<tags, phase>>

EndOfMap ==
  /\ phase \in {"list", "init"} /\ i > Len(Entries)
  /\ phase' = IF phase = "list" THEN "init" ELSE "done"
  /\ i' = 1
  /\ UNCHANGED <<tags, listed, module_cur_handler, started>>

Described == {"author", "name", "description"}

ListEntry ==
  /\ phase = "list" /\ i <= Len(Entries)
  /\ LET e == Entries[i]
     IN  IF IsModule(e) /\ \E t \in Described : get_section(e, t) = NULL THEN Fault
         ELSE /\ NextEntry
              /\ listed' = IF IsModule(e) THEN listed \cup {i} ELSE listed
              /\ UNCHANGED <<module_cur_handler, started>>

Start(k) == module_cur_handler' = k /\ started' = Append(started, k)

InitEntry ==
  /\ phase = "init" /\ i <= Len(Entries)
  /\ LET e == Entries[i]
     IN  IF ~IsModule(e) \/ e.Type # "executable"
           THEN NextEntry /\ UNCHANGED <<listed, module_cur_handler, started>>
         ELSE IF get_section(e, "signal_handler") = NULL \/ get_section(e, "name") = NULL
           THEN Fault
         ELSE /\ NextEntry
              /\ IF Equal(get_section(e, "name"), Shell) THEN Start(i)
                 ELSE UNCHANGED <<module_cur_handler, started>>
              /\ UNCHANGED listed

Init ==
  /\ tags \in TagLists /\ phase = "list" /\ i = 1
  /\ listed = {} /\ module_cur_handler = NULL /\ started = <<>>

Next == EndOfMap \/ ListEntry \/ InitEntry

Spec == Init /\ [][Next]_vars

-----------------------------------------------------------------------------
(* Properties *)

(* A module with the sections the loader reads of its kind.                 *)
Complete(e) ==
  \A t \in Described \cup IF e.Type = "executable" THEN {"signal_handler"} ELSE {} :
     get_section(e, t) # NULL

Executable(k) == IsModule(Entries[k]) /\ Entries[k].Type = "executable"
Differ(s1, s2) == \E k \in DOMAIN s1 \cap DOMAIN s2 : s1[k] # s2[k]

(* Whatever the map, only a module that lacks a section stops the loader.   *)
(* All headers are printed before the first module is started; if the end   *)
(* is reached, all shells of the map are running; no module is whose name   *)
(* has another character where Shell has one, no raw file, and none twice;  *)
(* they were started in the order of the map, and the last of them gets the *)
(* signals, the others no more (module.c:38-112).                           *)
ShellStarts ==
  /\ phase = "fault" => \E k \in DOMAIN Entries : IsModule(Entries[k]) /\ ~Complete(Entries[k])
  /\ started # <<>> => listed = {k \in DOMAIN Entries : IsModule(Entries[k])}
  /\ phase = "done" =>
       \A k \in DOMAIN Entries :
         Executable(k) /\ get_section(Entries[k], "name") = Shell
           => \E n \in DOMAIN started : started[n] = k
  /\ \A n \in DOMAIN started :
       Executable(started[n]) /\ ~Differ(get_section(Entries[started[n]], "name"), Shell)
  /\ \A m, n \in DOMAIN started : m < n => started[m] < started[n]
  /\ module_cur_handler = IF started = <<>> THEN NULL ELSE started[Len(started)]
=============================================================================
