-------------------------- MODULE BreakpointTable --------------------------
(***************************************************************************)
(* The instruction breakpoint table behind the debugger's break, delete    *)
(* and return commands: a fixed array of DBG_CPU_CONTROL_BREAK_SETSIZE     *)
(* slots (dbg_cpu_control.h), each empty or holding an address tagged      *)
(* BREAK_POINT_TYPE_FOREVER or BREAK_POINT_TYPE_ONLY_ONCE.  The cpuctrl_*  *)
(* bodies are not part of the sources; the operators follow spec.md 4.3    *)
(* and 9: a set takes the lowest free slot, a slot is named by its index,  *)
(* an ONLY_ONCE entry is removed when a core stops on it.                  *)
(*                                                                         *)
(* The table is a value: the operators below are pure and are used by     *)
(* DebugControl and CommandLog, which keep the table in a variable.        *)
(***************************************************************************)
EXTENDS Naturals, FiniteSets

CONSTANTS
    BreakSlots,   \* slot indices 0..DBG_CPU_CONTROL_BREAK_SETSIZE-1
    Addrs,        \* instruction addresses a breakpoint may name
    NoBreak       \* model value: an empty slot

BreakTypes == {"FOREVER", "ONLY_ONCE"}

BreakEntry == [addr : Addrs, type : BreakTypes]

BreakTableType == [BreakSlots -> BreakEntry \cup {NoBreak}]

EmptyBreakTable == [i \in BreakSlots |-> NoBreak]

UsedSlots(tbl) == {i \in BreakSlots : tbl[i] # NoBreak}

\* cpuctrl_is_break_point(addr)
IsBreakPoint(tbl, a) == \E i \in UsedSlots(tbl) : tbl[i].addr = a

\* The lowest free slot; cpuctrl_set_break scans the array from index 0.
LowestFree(tbl) ==
    CHOOSE i \in BreakSlots \ UsedSlots(tbl) :
        \A j \in BreakSlots \ UsedSlots(tbl) : i <= j

\* cpuctrl_set_break(addr, type) returns TRUE iff a slot is free.
CanSetBreak(tbl) == UsedSlots(tbl) # BreakSlots

SetBreak(tbl, a, t) ==
    IF CanSetBreak(tbl)
    THEN [tbl EXCEPT ![LowestFree(tbl)] = [addr |-> a, type |-> t]]
    ELSE tbl

\* Mutant of DelBreak: no range check on the index, so a delete past the
\* last slot writes outside the array.
DelBreakUnchecked(tbl, i) ==
    [j \in DOMAIN tbl \cup {i} |-> IF j = i THEN NoBreak ELSE tbl[j]]

\* cpuctrl_del_break(index) returns TRUE iff index names a used slot.
CanDelBreak(tbl, i) == i \in UsedSlots(tbl)

DelBreak(tbl, i) ==
    IF CanDelBreak(tbl, i) THEN [tbl EXCEPT ![i] = NoBreak] ELSE tbl

\* cpuctrl_del_all_break(type) empties every slot of that type.
DelAllBreak(tbl, t) ==
    [i \in BreakSlots |-> IF i \in UsedSlots(tbl) /\ tbl[i].type = t
                          THEN NoBreak ELSE tbl[i]]

\* A core stopping at address a consumes the ONLY_ONCE entries there.
HitBreak(tbl, a) ==
    [i \in BreakSlots |-> IF i \in UsedSlots(tbl) /\ tbl[i].addr = a
                             /\ tbl[i].type = "ONLY_ONCE"
                          THEN NoBreak ELSE tbl[i]]

\* The addresses of the persistent breakpoints: what a user has set with
\* break and not deleted.
ForeverAddrs(tbl) == {tbl[i].addr : i \in {j \in UsedSlots(tbl) : tbl[j].type = "FOREVER"}}

=============================================================================
