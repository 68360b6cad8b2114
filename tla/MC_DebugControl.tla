-------------------------- MODULE MC_DebugControl --------------------------
(* Two cores, two addresses, a two-slot breakpoint table and cont budgets  *)
(* of one and two clocks.                                                  *)
EXTENDS DebugControl

CONSTANTS c1, c2, a1, a2

MC_Cores == {c1, c2}
MC_Addrs == {a1, a2}
MC_BreakSlots == 0..1
MC_ContBudgets == {1, 2}
MC_MaxClocks == 3

=============================================================================
