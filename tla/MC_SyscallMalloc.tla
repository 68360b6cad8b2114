-------------------------- MODULE MC_SyscallMalloc --------------------------
(* A malloc region of four units of two bytes, with 4-bit size arithmetic  *)
(* standing in for uint32 so that a calloc product can wrap.               *)
EXTENDS SyscallMalloc

\* calloc arguments whose product fits in Width bits
MC_CallocFits == {<<1, 2>>}

\* calloc arguments whose product 3 * 6 = 18 wraps to 2 in 4 bits
MC_CallocWraps == {<<1, 2>>, <<3, 6>>}

=============================================================================
