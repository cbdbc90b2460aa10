---------------------------- MODULE ModuleHeader ----------------------------
(***************************************************************************)
(* The headers of module.h at the start of a module's file, in the entry of *)
(* the memory map that stands for the file.  The magic number is there or   *)
(* not; a section's address is the value found there.                       *)
(***************************************************************************)
ModuleSection(type, value) == [Type |-> type, Value |-> value]

(* What the shell begins with.                                              *)
module_header(name) ==
  [type |-> "kernel_and_modules", magic |-> TRUE, Type |-> "executable",
   Sections |-> <<ModuleSection("name", name), ModuleSection("author", 1),
                  ModuleSection("description", 2), ModuleSection("signal_handler", 3)>>]

(* Tetris and the template differ from it in the name.                      *)
tetris_header   == module_header(<<"T", "e", "t">>)
template_header == module_header(<<"T", "e", "m">>)
=============================================================================
