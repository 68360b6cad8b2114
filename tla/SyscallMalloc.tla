---------------------------- MODULE SyscallMalloc ----------------------------
(***************************************************************************)
(* The malloc family of the athrill syscall device                         *)
(* (athrill_syscall_device.c): athrill_syscall_malloc, _calloc, _realloc   *)
(* and _free, over the malloc-region allocator.  The allocator itself      *)
(* (mpu_malloc_get_memory, mpu_malloc_ref_size, mpu_malloc_rel_memory) is  *)
(* not part of the sources and follows spec.md 4.2: a pool of fixed-size   *)
(* units, a request takes a contiguous run of free units covering its size *)
(* rounded up, free of an unknown address does nothing.                    *)
(*                                                                         *)
(* Data is abstracted to ownership: every byte of the pool carries the     *)
(* start unit of the block whose owner last wrote it (or NoTag), which is  *)
(* enough to tell whether a write ever lands in someone else's block.      *)
(***************************************************************************)
EXTENDS Naturals, FiniteSets

CONSTANTS
    NUnits,       \* units in the malloc region
    UnitSize,     \* MPU_MALLOC_REGION_UNIT_SIZE, in bytes
    Width,        \* bit width of the uint32 size arithmetic
    MallocSizes,  \* sizes the guest passes to malloc
    ReallocSizes, \* sizes the guest passes to realloc
    CallocArgs,   \* <<size, nmemb>> pairs the guest passes to calloc
    NoTag         \* model value: a byte nobody has written since allocation

ASSUME \A args \in CallocArgs : (args[1] * args[2]) % (2 ^ Width) > 0

Units == 0..(NUnits - 1)
Bytes == 0..(NUnits * UnitSize - 1)

VARIABLES
    heap,   \* live blocks: start unit -> [size: allocated, want: guest's idea]
    tag     \* byte -> start unit of the block whose owner wrote it

vars == <<heap, tag>>

\* Units needed for a request of sz bytes (rounded up).
UnitsFor(sz) == (sz + UnitSize - 1) \div UnitSize

BlockUnits(s) == s..(s + UnitsFor(heap[s].size) - 1)

UsedUnits == UNION {BlockUnits(s) : s \in DOMAIN heap}

BlockBytes(s) == (s * UnitSize)..(s * UnitSize + heap[s].size - 1)

\* uint32 multiplication as the handler computes it.
MulW(a, b) == (a * b) % (2 ^ Width)

\* Mutant of FitStarts: the run is checked one unit short.
FitStartsShort(sz) ==
    {s \in Units : s..(s + UnitsFor(sz) - 2) \subseteq Units \ UsedUnits
                   /\ s + UnitsFor(sz) - 1 \in Units}

\* mpu_malloc_get_memory: the start units of the free runs that fit sz.
FitStarts(sz) ==
    {s \in Units : s..(s + UnitsFor(sz) - 1) \subseteq Units \ UsedUnits
                   /\ s + UnitsFor(sz) - 1 \in Units}

\* Bytes n bytes long from start unit s, clipped to the pool (what a
\* memset or memcpy of n bytes at the block's host pointer reaches).
Span(s, n) == {b \in Bytes : s * UnitSize <= b /\ b < s * UnitSize + n}

\* Tag the bytes of span with the block s.
Write(tg, span, s) == [b \in Bytes |-> IF b \in span THEN s ELSE tg[b]]

\* A new block at s: the allocator hands out its bytes with undefined
\* content, so no earlier owner's data counts as being in it.
NewBlock(s, sz, want) ==
    /\ heap' = [u \in DOMAIN heap \cup {s} |->
                  IF u = s THEN [size |-> sz, want |-> want] ELSE heap[u]]

Release(h, p) == [u \in DOMAIN h \ {p} |-> h[u]]

-----------------------------------------------------------------------------
\* Mutant of Malloc: the size-0 check is missing.
MallocNoZeroCheck(sz) ==
    /\ IF FitStarts(sz) = {}
       THEN UNCHANGED vars
       ELSE \E s \in FitStarts(sz) :
               /\ NewBlock(s, sz, sz)
               /\ tag' = Write(tag, Span(s, sz), NoTag)

\* athrill_syscall_malloc: size 0 returns 0; otherwise the allocator's
\* block, or 0 when no run fits (the guest then holds nothing).
Malloc(sz) ==
    /\ sz > 0
    /\ IF FitStarts(sz) = {}
       THEN UNCHANGED vars
       ELSE \E s \in FitStarts(sz) :
               /\ NewBlock(s, sz, sz)
               /\ tag' = Write(tag, Span(s, sz), NoTag)

\* athrill_syscall_calloc: the size is size * nmemb in 32 bits; the block
\* of that size is cleared with memset.  The guest believes it has
\* size * nmemb bytes.
Calloc(size, nmemb) ==
    /\ size > 0 /\ nmemb > 0
    /\ LET total == MulW(size, nmemb) IN
       IF FitStarts(total) = {}
       THEN UNCHANGED vars
       ELSE \E s \in FitStarts(total) :
               /\ NewBlock(s, total, size * nmemb)
               /\ tag' = Write(tag, Span(s, total), s)

\* athrill_syscall_realloc: a fresh block first; on success the old
\* block's mpu_malloc_ref_size bytes are copied into it and the old block
\* is released.  On failure the old block stays and 0 is returned.
Realloc(p, sz) ==
    /\ p \in DOMAIN heap
    /\ IF FitStarts(sz) = {}
       THEN UNCHANGED vars
       ELSE \E s \in FitStarts(sz) :
              LET copied == Span(s, heap[p].size)
                  moved  == [b \in Bytes |->
                               IF b \in copied
                               THEN IF tag[p * UnitSize + (b - s * UnitSize)] = NoTag
                                    THEN NoTag ELSE s
                               ELSE IF b \in Span(s, sz) THEN NoTag ELSE tag[b]]
              IN /\ heap' = Release([u \in DOMAIN heap \cup {s} |->
                                       IF u = s THEN [size |-> sz, want |-> sz]
                                       ELSE heap[u]], p)
                 /\ tag' = moved

\* athrill_syscall_free: mpu_malloc_rel_memory of any address; an address
\* that is not a live block (never allocated, or freed before) is ignored.
Free(p) ==
    /\ heap' = Release(heap, p)
    /\ UNCHANGED tag

\* The guest program fills a block it holds, as far as it believes the
\* block reaches.
GuestWrite(p) ==
    /\ p \in DOMAIN heap
    /\ tag' = Write(tag, Span(p, heap[p].want), p)
    /\ UNCHANGED heap

Init ==
    /\ heap = [u \in {} |-> [size |-> 0, want |-> 0]]
    /\ tag = [b \in Bytes |-> NoTag]

Next ==
    \/ \E sz \in MallocSizes : Malloc(sz)
    \/ \E args \in CallocArgs : Calloc(args[1], args[2])
    \/ \E p \in Units, sz \in ReallocSizes : Realloc(p, sz)
    \/ \E p \in Units : Free(p) \/ GuestWrite(p)

Spec == Init /\ [][Next]_vars

-----------------------------------------------------------------------------
TypeOK ==
    /\ DOMAIN heap \subseteq Units
    /\ \A s \in DOMAIN heap : heap[s].size \in 1..(NUnits * UnitSize)
                            /\ heap[s].want \in Nat
    /\ tag \in [Bytes -> Units \cup {NoTag}]

\* No block's data is ever overwritten by someone else: every byte of a
\* live block was last written by that block's owner or not at all.  Both
\* the guest's own writes and the memset of calloc and memcpy of realloc
\* are such writes.
BlocksIntact ==
    \A s \in DOMAIN heap : \A b \in BlockBytes(s) \cap Bytes : tag[b] \in {s, NoTag}

\* The blocks as the guest sees them: the address of each live block and
\* the number of bytes the guest was told it may use there.
GuestBlocks == [a \in {s * UnitSize : s \in DOMAIN heap} |-> heap[a \div UnitSize].want]

Heap == INSTANCE AbstractHeap WITH Pool <- Bytes, blocks <- GuestBlocks

\* The four handlers implement the allocator of spec.md 4.2: every block a
\* guest is given (by malloc, calloc or realloc) is fresh, inside the pool
\* and clear of every live block, realloc swaps the old block for the new
\* one in a single step, and free and failed calls touch no other block.
ImplementsAbstractHeap == Heap!Spec

=============================================================================
