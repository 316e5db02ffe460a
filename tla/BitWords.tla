------------------------------ MODULE BitWords ------------------------------
(***************************************************************************)
(* The functions on words and on arrays of words of include/cosy/Bitset.h  *)
(* and src/Bitset.cc.  A word is the set of its bits, so that & is an      *)
(* intersection and a shift moves the bits and loses those that leave the  *)
(* word.  The code has each function for 64 and for 32 bits; W stands for  *)
(* either.  An array is a function from 0.                                 *)
(***************************************************************************)
EXTENDS Integers, FiniteSetsExt

CONSTANTS W,          \* the bits of a word, a power of 2
          SmallRange  \* FLAGS_bitset_small_bitset_count

WordAssumption == W \in {2, 4, 8, 16, 32, 64} /\ SmallRange \in Nat

Bit == 0 .. W - 1

Word == SUBSET Bit

ShiftUp(w, s) == {b + s : b \in w} \cap Bit

ShiftDown(w, s) == {b - s : b \in {c \in w : c >= s}}

Xor(v, w) == (v \ w) \cup (w \ v)

AllBits == Bit
AllBitsButLsb == Bit \ {0}

\* The number of bits; the code adds them in parallel, in fields of the word.
BitCount(w) == Cardinality(w)

\* __builtin_ctz and __builtin_clz, with 0 for the word without a bit.
LeastSignificantBit(w) == IF w = {} THEN 0 ELSE Min(w)
MostSignificantBit(w)  == IF w = {} THEN 0 ELSE Max(w)

\* The portable versions halve the word in turns, and drop the bits of the half
\* that cannot hold the answer.  Six turns are enough for 64 bits.
Halvings(w, pos) == [word |-> w, pos |-> pos, half |-> W \div 2]

LeastTurn(t) ==
    IF t.half = 0 THEN t
    ELSE IF t.word \cap (0 .. t.half - 1) # {}
    THEN [word |-> t.word, pos |-> t.pos - t.half, half |-> t.half \div 2]
    ELSE [word |-> ShiftDown(t.word, t.half), pos |-> t.pos, half |-> t.half \div 2]

MostTurn(t) ==
    IF t.half = 0 THEN t
    ELSE IF t.word \cap ShiftUp(AllBits, t.half) # {}
    THEN [word |-> ShiftDown(t.word, t.half), pos |-> t.pos + t.half,
          half |-> t.half \div 2]
    ELSE [word |-> t.word, pos |-> t.pos, half |-> t.half \div 2]

LeastSignificantBitDefault(w) ==
    LET turns[k \in 0 .. 6] ==
            IF k = 0 THEN Halvings(w, W - 1) ELSE LeastTurn(turns[k - 1])
    IN  IF w = {} THEN 0 ELSE turns[6].pos

MostSignificantBitDefault(w) ==
    LET turns[k \in 0 .. 6] ==
            IF k = 0 THEN Halvings(w, 0) ELSE MostTurn(turns[k - 1])
    IN  turns[6].pos

\* The bits from s to e.
OneRange(s, e) == Xor(ShiftUp(AllBits, s), ShiftUp(AllBitsButLsb, e))

IntervalUp(s) == ShiftUp(AllBits, s)

IntervalDown(s) == ShiftDown(AllBits, W - 1 - s)

-----------------------------------------------------------------------------
\* Positions in an array.

BitPos(p)    == p % W
BitOffset(p) == p \div W
BitLength(n) == (n + W - 1) \div W
BitShift(v)  == v * W

\* The bits of p and of p ^ 1 in their word.
TwoBitsFromPos(p) == ShiftUp({0, 1}, 2 * (BitPos(p) \div 2))

IsBitSet(d, p) == BitPos(p) \in d[BitOffset(p)]
SetBit(d, p)   == [d EXCEPT ![BitOffset(p)] = @ \cup {BitPos(p)}]
ClearBit(d, p) == [d EXCEPT ![BitOffset(p)] = @ \ {BitPos(p)}]

IsEmptyRange(d, start, end) ==
    LET first == BitOffset(start)
        last  == BitOffset(end)
    IN  IF first = last
        THEN d[first] \cap OneRange(BitPos(start), BitPos(end)) = {}
        ELSE /\ d[first] \cap IntervalUp(BitPos(start)) = {}
             /\ \A o \in first + 1 .. last - 1 : d[o] = {}
             /\ d[last] \cap IntervalDown(BitPos(end)) = {}

\* The bits of the first word from start on, and of the words up to each one.
CountUpTo(d, start, last) ==
    LET first == BitOffset(start)
        count[o \in first .. last] ==
            IF o = first THEN BitCount(d[first] \cap IntervalUp(BitPos(start)))
            ELSE count[o - 1] + BitCount(d[o])
    IN  count[last]

\* A short range is counted bit by bit.
BitCountRange(d, start, end) ==
    LET first == BitOffset(start)
        last  == BitOffset(end)
    IN  IF end - start <= SmallRange
        THEN Cardinality({p \in start .. end : IsBitSet(d, p)})
        ELSE IF first = last
        THEN BitCount(d[first] \cap OneRange(BitPos(start), BitPos(end)))
        ELSE CountUpTo(d, start, last - 1)
             + BitCount(d[last] \cap IntervalDown(BitPos(end)))

\* The words of the offsets that have a bit.
Filled(d, offsets) == {o \in offsets : d[o] # {}}

LowestOf(d, o)  == BitShift(o) + LeastSignificantBit(d[o])
HighestOf(d, o) == BitShift(o) + MostSignificantBit(d[o])

\* The first bit of the range, -1 when there is none.
LeastSignificantBitInRange(d, start, end) ==
    LET first  == BitOffset(start)
        last   == BitOffset(end)
        From(w) == IF w = {} THEN -1 ELSE BitShift(first) + LeastSignificantBit(w)
        inner  == Filled(d, first + 1 .. last - 1)
        tail   == d[last] \cap IntervalDown(BitPos(end))
    IN  IF IsBitSet(d, start) THEN start
        ELSE IF first = last
        THEN From(d[first] \cap OneRange(BitPos(start), BitPos(end)))
        ELSE IF d[first] \cap IntervalUp(BitPos(start)) # {}
        THEN From(d[first] \cap IntervalUp(BitPos(start)))
        ELSE IF inner # {} THEN LowestOf(d, Min(inner))
        ELSE IF tail # {} THEN BitShift(last) + LeastSignificantBit(tail) ELSE -1

\* The last bit of the range.
MostSignificantBitInRange(d, start, end) ==
    LET first  == BitOffset(start)
        last   == BitOffset(end)
        From(w) == IF w = {} THEN -1 ELSE BitShift(last) + MostSignificantBit(w)
        inner  == Filled(d, first + 1 .. last - 1)
        head   == d[first] \cap IntervalUp(BitPos(start))
    IN  IF IsBitSet(d, end) THEN end
        ELSE IF first = last
        THEN From(d[first] \cap OneRange(BitPos(start), BitPos(end)))
        ELSE IF d[last] \cap IntervalDown(BitPos(end)) # {}
        THEN From(d[last] \cap IntervalDown(BitPos(end)))
        ELSE IF inner # {} THEN HighestOf(d, Max(inner))
        ELSE IF head # {} THEN BitShift(first) + MostSignificantBit(head) ELSE -1

\* The versions whose caller knows the bit at the other end: no mask there.
UnsafeLeastSignificantBit(d, start, end) ==
    LET first == BitOffset(start)
        masked == d[first] \cap IntervalUp(BitPos(start))
        later == Filled(d, first + 1 .. BitOffset(end))
    IN  IF IsBitSet(d, start) THEN start
        ELSE IF masked # {} THEN BitShift(first) + LeastSignificantBit(masked)
        ELSE IF later # {} THEN LowestOf(d, Min(later)) ELSE -1

UnsafeMostSignificantBit(d, start, end) ==
    LET last == BitOffset(end)
        masked == d[last] \cap IntervalDown(BitPos(end))
        earlier == Filled(d, BitOffset(start) .. last - 1)
    IN  IF IsBitSet(d, end) THEN end
        ELSE IF masked # {} THEN BitShift(last) + MostSignificantBit(masked)
        ELSE IF earlier # {} THEN HighestOf(d, Max(earlier)) ELSE -1

-----------------------------------------------------------------------------
\* std::vector: resize with words of 0.
Resized(d, n) == [o \in 0 .. n - 1 |-> IF o \in DOMAIN d THEN d[o] ELSE {}]

\* The positions of the bits of an array.
Positions(d) == {p \in 0 .. W * Cardinality(DOMAIN d) - 1 : IsBitSet(d, p)}

\* Every question about a range of the array is answered as by the set of its
\* positions.
RangesAnswerTheSet(d, size) ==
    \A start \in 0 .. size - 1, end \in 0 .. size - 1 :
        LET range == Positions(d) \cap start .. end
        IN  start <= end =>
            /\ IsEmptyRange(d, start, end) <=> range = {}
            /\ BitCountRange(d, start, end) = Cardinality(range)
            /\ LeastSignificantBitInRange(d, start, end) =
                  IF range = {} THEN -1 ELSE Min(range)
            /\ MostSignificantBitInRange(d, start, end) =
                  IF range = {} THEN -1 ELSE Max(range)
            /\ end \in range =>
                  UnsafeLeastSignificantBit(d, start, end) = Min(range)
            /\ start \in range =>
                  UnsafeMostSignificantBit(d, start, end) = Max(range)

=============================================================================
