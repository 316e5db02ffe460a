------------------------------- MODULE Bitset -------------------------------
(***************************************************************************)
(* The bitsets of include/cosy/Bitset.h.                                   *)
(*                                                                         *)
(* Bitset64 is the container of Assignment: some bitsets, each the target  *)
(* and the argument of the operations.  SparseBitset has a list of the     *)
(* positions that were set, so that clearing it costs the length of the    *)
(* list and not its size.  BitQueue64 knows its last bit; ClearTop alone   *)
(* looks for it, from the word of the old one downwards.                   *)
(*                                                                         *)
(* A bit may lie past the size, in the last word: Resize to a smaller size *)
(* inside a word leaves the bits there, and CopyBucket, Union and          *)
(* SetContentFromBitset take whole words of a longer bitset.  When the     *)
(* size grows such a bit is below it again, although the comment of Resize *)
(* says that new bits are 0.  The positions that the DCHECKs ask for are   *)
(* the caller's to keep, and guards.                                       *)
(***************************************************************************)
EXTENDS BitWords, SequencesExt

CONSTANTS Bitsets,           \* the bitsets
          MaxBits,           \* the largest size
          MaxListed,         \* the longest list
          SparseThreshold    \* kSparseThreshold

ASSUME BitsetAssumption == WordAssumption /\ MaxBits \in Nat

VARIABLES bits,         \* size_ and data_ of each bitset
          sparseSize,   \* the size of the sparse bitset
          sparseData,   \* its words
          toClear,      \* to_clear_
          queueSize,    \* size_ of the queue
          queueData,    \* its data_
          top           \* its top_

sparseVars == <<sparseSize, sparseData, toClear>>
queueVars  == <<queueSize, queueData, top>>
bitsetsVars == <<bits, sparseVars, queueVars>>

Size(x) == bits[x].size
Data(x) == bits[x].data

Empty == [size |-> 0, data |-> [o \in {} |-> {}]]

BitsetInit == bits = [x \in Bitsets |-> Empty]

Becomes(x, size, data) == bits' = [bits EXCEPT ![x] = [size |-> size, data |-> data]]

DataBecomes(x, data) == Becomes(x, Size(x), data)

PutBit(d, i, value) == IF value THEN SetBit(d, i) ELSE ClearBit(d, i)

\* PushBack and Set of a value.
PushBack(x, value) ==
    /\ Size(x) < MaxBits
    /\ Becomes(x, Size(x) + 1,
               PutBit(Resized(Data(x), BitLength(Size(x) + 1)), Size(x), value))

\* Only whole words are dropped, and those added are 0.
Resize(x, n) == Becomes(x, n, Resized(Data(x), BitLength(n)))

\* The words kept are cleared, those that Resize adds are 0.
ClearAndResize(x, n) ==
    LET kept == Min({Cardinality(DOMAIN Data(x)), BitLength(n)})
        data == Resized(Data(x), BitLength(n))
    IN  Becomes(x, n, [o \in DOMAIN data |-> IF o < kept THEN {} ELSE data[o]])

ClearAll(x) == DataBecomes(x, [o \in DOMAIN Data(x) |-> {}])

Set(x, i) == i < Size(x) /\ DataBecomes(x, SetBit(Data(x), i))

Clear(x, i) == i < Size(x) /\ DataBecomes(x, ClearBit(Data(x), i))

ClearBucket(x, i) ==
    /\ i < Size(x)
    /\ DataBecomes(x, [Data(x) EXCEPT ![BitOffset(i)] = {}])

ClearTwoBits(x, i) ==
    /\ i < Size(x)
    /\ DataBecomes(x, [Data(x) EXCEPT ![BitOffset(i)] = @ \ TwoBitsFromPos(i)])

AreOneOfTwoBitsSet(x, i) == Data(x)[BitOffset(i)] \cap TwoBitsFromPos(i) # {}

-----------------------------------------------------------------------------
\* Two bitsets.

Common(x, y) == DOMAIN Data(x) \cap DOMAIN Data(y)

CopyBucket(x, y, i) ==
    /\ BitOffset(i) \in Common(x, y)
    /\ DataBecomes(x, [Data(x) EXCEPT ![BitOffset(i)] = Data(y)[BitOffset(i)]])

\* The words that both have are copied; in the last word of a shorter argument
\* the bits past its size stay.
Content(x, y) ==
    LET copied == [o \in DOMAIN Data(x) |->
                      IF o \in Common(x, y) THEN Data(y)[o] ELSE Data(x)[o]]
        last == Max(Common(x, y))
        high == ShiftUp(AllBitsButLsb, BitPos(Size(y) - 1))
    IN  IF Cardinality(DOMAIN Data(x)) >= Cardinality(DOMAIN Data(y))
        THEN [copied EXCEPT ![last] = (@ \ high) \cup (Data(x)[last] \cap high)]
        ELSE copied

SetContentFromBitset(x, y) ==
    /\ Common(x, y) # {}
    /\ DataBecomes(x, Content(x, y))

\* The words that a shorter argument lacks become 0.
Intersection(x, y) ==
    DataBecomes(x, [o \in DOMAIN Data(x) |->
                      IF o \in Common(x, y) THEN Data(x)[o] \cap Data(y)[o] ELSE {}])

UnionWith(x, y) ==
    DataBecomes(x, [o \in DOMAIN Data(x) |->
                      IF o \in Common(x, y) THEN Data(x)[o] \cup Data(y)[o] ELSE Data(x)[o]])

\* The bit becomes (y[i] && use1) XOR (z[i] && use2): the word is changed by its
\* own bit, which clears it, and by the two others.
SetBitFromOtherBitSets(x, i, y, use1, z, use2) ==
    /\ BitOffset(i) \in DOMAIN Data(x)
    /\ DOMAIN Data(x) = DOMAIN Data(y) /\ DOMAIN Data(x) = DOMAIN Data(z)
    /\ LET o == BitOffset(i)
           Bits(d, use) == IF use THEN {BitPos(i)} \cap d[o] ELSE {}
       IN  DataBecomes(x, [Data(x) EXCEPT ![o] =
               Xor(Xor(Xor(@, Bits(Data(x), TRUE)), Bits(Data(y), use1)),
                   Bits(Data(z), use2))])

-----------------------------------------------------------------------------
\* The iterator: the position it is at, the base of the word it has cached, and
\* the bits of that word not yet visited.

AtEnd(it) == [it EXCEPT !.index = -1]

IteratorNext(d, it) ==
    LET later == Filled(d, {o \in DOMAIN d : o > BitOffset(it.base)})
    IN  IF it.current # {}
        THEN [it EXCEPT !.index = it.base + LeastSignificantBit(it.current),
                        !.current = @ \ {Min(@)}]
        ELSE IF later = {} THEN AtEnd(it)
        ELSE [index   |-> LowestOf(d, Min(later)), base |-> BitShift(Min(later)),
              current |-> d[Min(later)] \ {Min(d[Min(later)])}]

IteratorBegin(d) ==
    LET start == [index |-> 0, base |-> 0, current |-> IF 0 \in DOMAIN d THEN d[0] ELSE {}]
    IN  IF DOMAIN d = {} THEN AtEnd(start) ELSE IteratorNext(d, start)

-----------------------------------------------------------------------------
Change(x) ==
    \/ \E value \in BOOLEAN : PushBack(x, value)
    \/ \E n \in 0 .. MaxBits : Resize(x, n) \/ ClearAndResize(x, n)
    \/ ClearAll(x)
    \/ \E i \in 0 .. MaxBits - 1 :
          Set(x, i) \/ Clear(x, i) \/ ClearBucket(x, i) \/ ClearTwoBits(x, i)

Combine(x, y) ==
    \/ SetContentFromBitset(x, y) \/ Intersection(x, y) \/ UnionWith(x, y)
    \/ \E i \in 0 .. MaxBits - 1 :
          \/ CopyBucket(x, y, i)
          \/ \E z \in Bitsets, use1, use2 \in BOOLEAN :
                SetBitFromOtherBitSets(x, i, y, use1, z, use2)

BitsetNext == \E x \in Bitsets : Change(x) \/ \E y \in Bitsets : Combine(x, y)

-----------------------------------------------------------------------------
\* SparseBitset.

SparseInit ==
    /\ sparseSize = 0
    /\ sparseData = [o \in {} |-> {}]
    /\ toClear = << >>

Zeros(n) == [o \in 0 .. n - 1 |-> {}]

\* The words of the positions in the list become 0.
SparselyCleared(d) ==
    [o \in DOMAIN d |-> IF \E i \in ToSet(toClear) : BitOffset(i) = o THEN {} ELSE d[o]]

SparseClearAll ==
    /\ sparseData' = SparselyCleared(sparseData)
    /\ toClear' = << >>
    /\ UNCHANGED sparseSize

SparseFullClear ==
    /\ sparseData' = Zeros(BitLength(sparseSize))
    /\ toClear' = << >>
    /\ UNCHANGED sparseSize

\* A short list is gone through, a long one is not.
SparseClearAndResize(n) ==
    /\ sparseSize' = n
    /\ sparseData' = IF Len(toClear) * SparseThreshold < n
                     THEN Resized(SparselyCleared(sparseData), BitLength(n))
                     ELSE Zeros(BitLength(n))
    /\ toClear' = << >>

\* The positions of the list below n.
ListedBelow(n) ==
    LET kept[k \in 0 .. Len(toClear)] ==
            IF k = 0 THEN << >>
            ELSE IF toClear[k] < n THEN Append(kept[k - 1], toClear[k])
            ELSE kept[k - 1]
    IN  kept[Len(toClear)]

\* Mutant: a position at the new size stays, one below it leaves.
SparseResizeOffByOne(n) ==
    /\ sparseSize' = n
    /\ sparseData' = Resized(sparseData, BitLength(n))
    /\ toClear' = IF n < sparseSize THEN ListedBelow(n - 1) ELSE toClear

\* The positions from the new size on leave the list; their bits stay in the
\* last word, and nothing lists them when the size grows again.
SparseResize(n) ==
    /\ sparseSize' = n
    /\ sparseData' = Resized(sparseData, BitLength(n))
    /\ toClear' = IF n < sparseSize THEN ListedBelow(n) ELSE toClear

\* A position is listed when its bit was not set: once more after a Clear.
SparseSet(i) ==
    /\ i < sparseSize
    /\ Len(toClear) < MaxListed
    /\ sparseData' = SetBit(sparseData, i)
    /\ toClear' = IF IsBitSet(sparseData, i) THEN toClear ELSE Append(toClear, i)
    /\ UNCHANGED sparseSize

SparseClear(i) ==
    /\ i < sparseSize
    /\ sparseData' = ClearBit(sparseData, i)
    /\ UNCHANGED <<sparseSize, toClear>>

\* The caller has cleared every bit.
NotifyAllClear ==
    /\ \A i \in ToSet(toClear) : ~IsBitSet(sparseData, i)
    /\ toClear' = << >>
    /\ UNCHANGED <<sparseSize, sparseData>>

SparseNext ==
    \/ SparseClearAll \/ SparseFullClear \/ NotifyAllClear
    \/ \E n \in 0 .. MaxBits : SparseClearAndResize(n) \/ SparseResize(n)
    \/ \E i \in 0 .. MaxBits - 1 : SparseSet(i) \/ SparseClear(i)

-----------------------------------------------------------------------------
\* BitQueue64.

QueueInit ==
    /\ queueSize = 0
    /\ queueData = [o \in {} |-> {}]
    /\ top = -1

\* The CHECK_GE of the code stops the program otherwise.
IncreaseSize(n) ==
    /\ n >= queueSize
    /\ queueSize' = n
    /\ queueData' = Resized(queueData, BitLength(n))
    /\ UNCHANGED top

QueueClearAndResize(n) ==
    /\ queueSize' = n
    /\ queueData' = [o \in 0 .. BitLength(n) - 1 |-> {}]
    /\ top' = -1

QueueSet(i) ==
    /\ i < queueSize
    /\ top' = Max({top, i})
    /\ queueData' = SetBit(queueData, i)
    /\ UNCHANGED queueSize

\* The last bit of the word, or of the nearest word below that has one.
NextTop(d, start) ==
    LET filled == Filled(d, 0 .. start)
    IN  IF filled = {} THEN -1 ELSE HighestOf(d, Max(filled))

ClearTop ==
    /\ top # -1
    /\ queueData' = ClearBit(queueData, top)
    /\ top' = NextTop(queueData', BitOffset(top))
    /\ UNCHANGED queueSize

QueueNext ==
    \/ ClearTop
    \/ \E n \in 0 .. MaxBits : IncreaseSize(n) \/ QueueClearAndResize(n)
    \/ \E i \in 0 .. MaxBits - 1 : QueueSet(i)

-----------------------------------------------------------------------------
BitsetsInit == BitsetInit /\ SparseInit /\ QueueInit

BitsetsNext ==
    \/ BitsetNext /\ UNCHANGED <<sparseVars, queueVars>>
    \/ SparseNext /\ UNCHANGED <<bits, queueVars>>
    \/ QueueNext /\ UNCHANGED <<bits, sparseVars>>

BitsetsSpec == BitsetsInit /\ [][BitsetsNext]_bitsetsVars

-----------------------------------------------------------------------------
Words(n) == [0 .. BitLength(n) - 1 -> Word]

BitsetTypeOK ==
    bits \in [Bitsets -> UNION {[size : {n}, data : Words(n)] : n \in 0 .. MaxBits}]

SparseTypeOK ==
    /\ sparseSize \in 0 .. MaxBits
    /\ sparseData \in Words(sparseSize)
    /\ toClear \in Seq(0 .. sparseSize - 1)

QueueTypeOK ==
    /\ queueSize \in 0 .. MaxBits
    /\ queueData \in Words(queueSize)
    /\ top \in -1 .. queueSize - 1

\* Sizes, words, list and top.
BitsetsTypeOK == BitsetTypeOK /\ SparseTypeOK /\ QueueTypeOK

\* A loop begins at the first of the positions, and goes from each to the next
\* one or, from the last, to the end.
LoopVisits(d, set) ==
    LET After(i) == {j \in set : j > i}
        Goes(it, rest) == it.index = IF rest = {} THEN -1 ELSE Min(rest)
        At(i) == [index |-> i, base |-> BitShift(BitOffset(i)),
                  current |-> {b \in d[BitOffset(i)] : b > BitPos(i)}]
    IN  /\ Goes(IteratorBegin(d), set)
        /\ set # {} => IteratorBegin(d) = At(Min(set))
        /\ \A i \in set :
              /\ Goes(IteratorNext(d, At(i)), After(i))
              /\ After(i) # {} => IteratorNext(d, At(i)) = At(Min(After(i)))

Members(x) == Positions(Data(x))

\* What the bitset says is what the set of positions of its words says, across
\* word boundaries: ranges, pairs of bits, and the loop over it, which visits
\* each position once in increasing order, those past the size as well, and
\* ends; the portable bit searches agree with the built-in ones.
QueriesAnswerTheSet ==
    \A x \in Bitsets :
        /\ RangesAnswerTheSet(Data(x), Size(x))
        /\ LoopVisits(Data(x), Members(x))
        /\ \A i \in 0 .. Size(x) - 1 :
              AreOneOfTwoBitsSet(x, i) <=>
                  \E j \in Members(x) : j \div 2 = i \div 2
        /\ \A o \in DOMAIN Data(x) :
              LET w == Data(x)[o]
              IN  /\ LeastSignificantBitDefault(w) = LeastSignificantBit(w)
                  /\ MostSignificantBitDefault(w) = MostSignificantBit(w)

\* The positions set in the sparse bitset that its list does not have: no
\* clearing that goes through the list is sure to reach them.
Unlisted == Positions(sparseData) \ ToSet(toClear)

\* Setting, clearing and resizing in any order, a position that is set drops out
\* of the list in one way only: a Resize to a smaller size left it past the end.
OnlyResizeUnlists == Unlisted' \subseteq Unlisted \cup sparseSize' .. sparseSize - 1

\* top_ is the last position set, whatever was set, cleared and resized.
TopIsLast ==
    LET set == Positions(queueData) IN top = IF set = {} THEN -1 ELSE Max(set)

\* What the bitsets of the three kinds say of their positions is right, and the
\* sparse bitset loses none of those it has to clear but by a Resize.
BitsetsAnswerTheSet ==
    /\ [](QueriesAnswerTheSet /\ TopIsLast)
    /\ [][OnlyResizeUnlists]_sparseVars

\* The bitsets implement sets of numbers that have room in their words.
AsSets == INSTANCE BoundedSets WITH
    Names <- Bitsets, Bound <- MaxBits, Width <- W,
    size <- [x \in Bitsets |-> Size(x)], members <- [x \in Bitsets |-> Members(x)]

\* A step of this module, seen as one of the abstract specification.
AsSetsStep == [AsSets!Next]_(AsSets!vars)

\* Every operation changes the positions in the words as the same operation on
\* sets does, and none of the others: masks, word counts, the words a shorter
\* argument lacks, and the bits left past the size.
ImplementsBoundedSets == AsSets!Spec

=============================================================================
