---------------------------- MODULE AbstractHeap ----------------------------
(***************************************************************************)
(* What the malloc-region allocator promises the guest (spec.md 4.2),      *)
(* independent of units: a set of live blocks, each an address and the     *)
(* number of bytes the guest may use there.  allocate and reallocate hand  *)
(* out a fresh block whose bytes lie in the pool and overlap no live       *)
(* block; reallocate replaces the old block in one step; free of an        *)
(* address that is not live changes nothing.  A failed call (null result)  *)
(* changes nothing either, so it is a stuttering step here.                *)
(***************************************************************************)
EXTENDS Naturals, FiniteSets, TLC

CONSTANTS
    Pool      \* the byte addresses of the malloc region

VARIABLE
    blocks    \* live blocks: address -> bytes the guest may use

Extent(a, n) == a .. (a + n - 1)

\* A block of n bytes at a is fresh: in the pool and clear of every live
\* block (the one being reallocated included).
Fresh(a, n) ==
    /\ n > 0
    /\ Extent(a, n) \subseteq Pool
    /\ \A b \in DOMAIN blocks : Extent(a, n) \cap Extent(b, blocks[b]) = {}

Drop(a) == [b \in DOMAIN blocks \ {a} |-> blocks[b]]

Allocate == \E a \in Pool, n \in 1..Cardinality(Pool) :
                Fresh(a, n) /\ blocks' = blocks @@ (a :> n)

Reallocate == \E old \in DOMAIN blocks, a \in Pool, n \in 1..Cardinality(Pool) :
                  Fresh(a, n) /\ blocks' = Drop(old) @@ (a :> n)

Free == \E a \in DOMAIN blocks : blocks' = Drop(a)

Init == blocks = [a \in {} |-> 0]

Next == Allocate \/ Reallocate \/ Free

Spec == Init /\ [][Next]_blocks

=============================================================================
