------------------------------- MODULE Region -------------------------------
(***************************************************************************)
(* The allocators of mtl/Alloc.h and mtl/Vec.h: the region that clauses    *)
(* live in, whose sizes are unsigned numbers, and a vector whose sizes are *)
(* ints up to MaxInt.  An allocation that does not fit throws, and the     *)
(* program ends.                                                           *)
(***************************************************************************)
EXTENDS Integers, FiniteSetsExt

CONSTANTS StartCap,      \* the capacity a region starts with
          AllocSizes,    \* the sizes asked for
          MaxInt,        \* INT_MAX
          VecSizes       \* the sizes a vector is grown to

\* INT_MAX is odd.  The size of an allocation is a positive int, the capacity a
\* region starts with any Ref; a vector is grown to less than INT_MAX, for from
\* an empty one the size plus one is computed.
ASSUME RegionAssumption ==
    /\ MaxInt \in Nat /\ MaxInt % 2 = 1
    /\ StartCap \in 0 .. 2 * MaxInt + 1
    /\ AllocSizes \subseteq 1 .. MaxInt
    /\ VecSizes \subseteq 1 .. MaxInt - 1

VARIABLES sz,        \* RegionAllocator::sz
          cap,       \* RegionAllocator::cap
          wasted,    \* RegionAllocator::wasted_
          given,     \* the regions given out: the first unit and the size
          thrown,    \* an OutOfMemoryException is on its way
          vecSize,   \* vec::sz
          vecCap     \* vec::cap

blockVars  == <<sz, cap, wasted, given>>
vectorVars == <<vecSize, vecCap>>
memoryVars == <<blockVars, vectorVars, thrown>>

\* The values of a Ref, an unsigned int.
Units == 2 * MaxInt + 2

Wrapped(n) == n % Units

EvenBelow(n) == 2 * (n \div 2)

\* cap after one turn of the loop, which may wrap around.
GrownCap(c) == Wrapped(c + EvenBelow((c \div 2) + (c \div 8) + 2))

\* cap after each number of turns.
CapAfter(start) ==
    LET after[k \in 0 .. Units] == IF k = 0 THEN start ELSE GrownCap(after[k - 1])
    IN  after

\* The loop of capacity(min_cap) goes on to turn k.
GrowsUntil(start, minCap, k) ==
    \A j \in 0 .. k - 1 : CapAfter(start)[j] < minCap /\ CapAfter(start)[j + 1] > start

\* capacity(min_cap): a capacity of at least min_cap, or 0 when the growth
\* wraps around below where it began.  A growth that never ends, which takes a
\* request above the largest capacity there is, is counted as one that throws.
Capacity(start, minCap) ==
    LET Ends(k) == GrowsUntil(start, minCap, k) /\ CapAfter(start)[k] >= minCap
    IN  IF \E k \in 0 .. Units : Ends(k)
        THEN CapAfter(start)[CHOOSE k \in 0 .. Units : Ends(k)] ELSE 0

RegionInit ==
    /\ sz = 0
    /\ cap = Capacity(0, StartCap)
    /\ wasted = 0
    /\ given = {}
    /\ thrown = (cap < StartCap)
    /\ vecSize = 0
    /\ vecCap = 0

\* Mutant: the size that wrapped around is not noticed.
AllocUnchecked(size) ==
    LET newCap == Capacity(cap, Wrapped(sz + size))
    IN  /\ ~thrown
        /\ thrown' = (newCap = 0)
        /\ cap' = newCap
        /\ sz' = Wrapped(sz + size)
        /\ given' = given \cup {<<sz, size>>}
        /\ UNCHANGED <<wasted, vectorVars>>

\* The capacity asked for wraps around as the size does: then there is enough
\* of it, and only the new size tells.
Alloc(size) ==
    LET newCap == Capacity(cap, Wrapped(sz + size))
    IN  /\ ~thrown
        /\ thrown' = (newCap = 0 \/ Wrapped(sz + size) < sz)
        /\ cap' = newCap
        /\ sz' = IF newCap = 0 THEN sz ELSE Wrapped(sz + size)
        /\ given' = IF thrown' THEN given ELSE given \cup {<<sz, size>>}
        /\ UNCHANGED <<wasted, vectorVars>>

\* The caller frees a region it has, once: the space is counted, not reused.
Free(r) ==
    /\ ~thrown
    /\ wasted' = Wrapped(wasted + r[2])
    /\ given' = given \ {r}
    /\ UNCHANGED <<sz, cap, thrown, vectorVars>>

\* vec::capacity: by half of it or to what is asked for, the larger, and even.
VecAdd(minCap) == Max({EvenBelow(minCap - vecCap + 1), EvenBelow(vecCap \div 2 + 2)})

VecGrowTo(size) ==
    /\ ~thrown
    /\ vecSize < size
    /\ thrown' = (vecCap < size /\ VecAdd(size) > MaxInt - vecCap)
    /\ vecCap' = IF vecCap >= size \/ thrown' THEN vecCap ELSE vecCap + VecAdd(size)
    /\ vecSize' = IF thrown' THEN vecSize ELSE size
    /\ UNCHANGED blockVars

\* push of one element, whose capacity(sz + 1) may not overflow an int.
VecPush ==
    /\ ~thrown
    /\ thrown' = (vecSize = vecCap /\ VecAdd(vecSize + 1) > MaxInt - vecCap)
    /\ vecCap' = IF vecSize # vecCap \/ thrown' THEN vecCap
                 ELSE vecCap + VecAdd(vecSize + 1)
    /\ vecSize' = IF thrown' THEN vecSize ELSE vecSize + 1
    /\ UNCHANGED blockVars

VecClear(dealloc) ==
    /\ ~thrown
    /\ vecSize' = 0
    /\ vecCap' = IF dealloc THEN 0 ELSE vecCap
    /\ UNCHANGED <<blockVars, thrown>>

\* A region is used, or a vector.
RegionNext ==
    \/ vecCap = 0 /\ \E size \in AllocSizes : Alloc(size)
    \/ vecCap = 0 /\ \E r \in given : Free(r)
    \/ sz = 0 /\ \E size \in VecSizes : VecGrowTo(size)
    \/ sz = 0 /\ VecPush
    \/ sz = 0 /\ \E dealloc \in BOOLEAN : VecClear(dealloc)

RegionSpec == RegionInit /\ [][RegionNext]_memoryVars

-----------------------------------------------------------------------------
UnitsOf(r) == r[1] .. r[1] + r[2] - 1

\* Sizes within the width of a Ref and of an int.
RegionTypeOK ==
    /\ sz \in 0 .. Units - 1
    /\ cap \in 0 .. Units - 1
    /\ wasted \in 0 .. Units - 1
    /\ vecSize \in 0 .. MaxInt
    /\ vecCap \in 0 .. MaxInt

\* Two clauses never share memory, and each lies inside the block: the sizes
\* wrap around at the width of a Ref, in the request and while the capacity
\* grows, and the allocator notices or throws.  What is not given out is
\* wasted, so that the collection of garbage knows how much it can win.  A
\* vector has room for what is in it, and its capacity is even, so that the
\* sz+1 of push cannot overflow (the comment of Vec.h:77).
RegionsAreApart ==
    ~thrown =>
        /\ \A r \in given : UnitsOf(r) \subseteq 0 .. sz - 1
        /\ \A r, s \in given : r # s => UnitsOf(r) \cap UnitsOf(s) = {}
        /\ wasted + Cardinality(UNION {UnitsOf(r) : r \in given}) = sz
        /\ sz <= cap
        /\ vecSize <= vecCap
        /\ vecCap % 2 = 0 /\ vecCap < MaxInt

=============================================================================
