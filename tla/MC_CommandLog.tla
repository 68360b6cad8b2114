--------------------------- MODULE MC_CommandLog ---------------------------
(* Two breakpoint and two watchpoint slots, two code addresses and one    *)
(* data address, logs of up to four lines and two restarts.               *)
EXTENDS CommandLog

CONSTANTS a1, a2, d1

MC_Addrs == {a1, a2}
MC_BreakSlots == 0..1
MC_WatchSlots == 0..1
MC_WatchAddrs == {d1}

=============================================================================
