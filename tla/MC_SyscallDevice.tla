--------------------------- MODULE MC_SyscallDevice ---------------------------
(* One core in the directory calls (the two-core race is SyscallDir_race),  *)
(* two dir_table entries and four host opens; eight descriptors, enough    *)
(* for two pipe pairs and a file, or a socket and its connections, before  *)
(* the host runs out.                                                       *)
EXTENDS SyscallDevice

CONSTANTS c1

MC_OneCore == {c1}

\* ret_value preset by the guest: an error code
MC_RetErr == {-1}

MC_PipePorts == {"UART", "BT"}

=============================================================================
