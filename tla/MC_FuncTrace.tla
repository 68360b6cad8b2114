------------------------------ MODULE MC_FuncTrace ------------------------------
(* Two cores with rings of two entries and two functions, so that the     *)
(* order of the entries shows and a ring overwrites its oldest entry; the *)
(* user asks for one or two entries.                                      *)
EXTENDS FuncTrace

CONSTANTS f1, f2

MC_Funcs == {f1, f2}

=============================================================================
