---------------------------- MODULE MC_SyscallDir ----------------------------
(* Two dir_table entries, so that a full table and reuse of an entry are   *)
(* reached, and three host opendir successes.                              *)
EXTENDS SyscallDir

CONSTANTS c1, c2

MC_OneCore == {c1}
MC_TwoCores == {c1, c2}

\* ret_value preset by the guest: an error code, or 0 left over
MC_RetErr == {-1}
MC_RetAny == {-1, 0}

=============================================================================
