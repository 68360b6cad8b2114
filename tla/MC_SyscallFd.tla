----------------------------- MODULE MC_SyscallFd -----------------------------
(* Eight descriptors: the console's 0, 1, 2 and five more, enough for two  *)
(* pipe pairs and a file before the host runs out.                        *)
EXTENDS SyscallFd

MC_PipePorts == {"UART", "BT"}
MC_AllPorts == {"DEFAULT", "UART"}

\* ret_value preset by the guest: an error code
MC_RetErr == {-1}

=============================================================================
