---------------------------- MODULE BitsetProofs ----------------------------
(***************************************************************************)
(* Theorems about the bitsets of include/cosy/Bitset.h: for every width of *)
(* a word that a build can have, every collection of bitsets and every     *)
(* size, they change as sets of numbers do and answer as sets of numbers   *)
(* would; the queue knows its last bit, and the list of the sparse bitset  *)
(* loses a position that is set only when a Resize leaves it past the end. *)
(***************************************************************************)
EXTENDS Bitset, TLAPS, FiniteSetTheorems, SequenceTheorems, NaturalsInduction

-----------------------------------------------------------------------------
\* Positions: a position is a word and a bit of it.

At(o, b) == BitShift(o) + b

LEMMA Division ==
    ASSUME WordAssumption, NEW p \in Nat
    PROVE  /\ BitOffset(p) \in Nat
           /\ BitPos(p) \in Bit
           /\ At(BitOffset(p), BitPos(p)) = p
<1>1. CASE W = 2
  BY <1>1 DEF BitOffset, BitPos, Bit, At, BitShift
<1>2. CASE W = 4
  BY <1>2 DEF BitOffset, BitPos, Bit, At, BitShift
<1>3. CASE W = 8
  BY <1>3 DEF BitOffset, BitPos, Bit, At, BitShift
<1>4. CASE W = 16
  BY <1>4 DEF BitOffset, BitPos, Bit, At, BitShift
<1>5. CASE W = 32
  BY <1>5 DEF BitOffset, BitPos, Bit, At, BitShift
<1>6. CASE W = 64
  BY <1>6 DEF BitOffset, BitPos, Bit, At, BitShift
<1> QED
  BY <1>1, <1>2, <1>3, <1>4, <1>5, <1>6 DEF WordAssumption

LEMMA Composition ==
    ASSUME WordAssumption, NEW o \in Nat, NEW b \in Bit
    PROVE  /\ At(o, b) \in Nat
           /\ BitOffset(At(o, b)) = o
           /\ BitPos(At(o, b)) = b
<1>1. CASE W = 2
  BY <1>1 DEF BitOffset, BitPos, Bit, At, BitShift
<1>2. CASE W = 4
  BY <1>2 DEF BitOffset, BitPos, Bit, At, BitShift
<1>3. CASE W = 8
  BY <1>3 DEF BitOffset, BitPos, Bit, At, BitShift
<1>4. CASE W = 16
  BY <1>4 DEF BitOffset, BitPos, Bit, At, BitShift
<1>5. CASE W = 32
  BY <1>5 DEF BitOffset, BitPos, Bit, At, BitShift
<1>6. CASE W = 64
  BY <1>6 DEF BitOffset, BitPos, Bit, At, BitShift
<1> QED
  BY <1>1, <1>2, <1>3, <1>4, <1>5, <1>6 DEF WordAssumption

LEMMA PositionOrder ==
    ASSUME WordAssumption, NEW o \in Nat, NEW b \in Bit,
           NEW p \in Nat, NEW c \in Bit
    PROVE  /\ o < p => At(o, b) < At(p, c)
           /\ At(o, b) < At(o, c) <=> b < c
<1>1. CASE W = 2
  BY <1>1 DEF Bit, At, BitShift
<1>2. CASE W = 4
  BY <1>2 DEF Bit, At, BitShift
<1>3. CASE W = 8
  BY <1>3 DEF Bit, At, BitShift
<1>4. CASE W = 16
  BY <1>4 DEF Bit, At, BitShift
<1>5. CASE W = 32
  BY <1>5 DEF Bit, At, BitShift
<1>6. CASE W = 64
  BY <1>6 DEF Bit, At, BitShift
<1> QED
  BY <1>1, <1>2, <1>3, <1>4, <1>5, <1>6 DEF WordAssumption

\* The words of n positions hold them all, and begin below n.
LEMMA Lengths ==
    ASSUME WordAssumption, NEW n \in Nat
    PROVE  /\ BitLength(n) \in Nat
           /\ \A o \in Nat : o < BitLength(n) <=> BitShift(o) < n
           /\ n > 0 => BitLength(n) = BitOffset(n - 1) + 1
           /\ n = 0 => BitLength(n) = 0
<1>1. CASE W = 2
  BY <1>1 DEF BitOffset, BitLength, BitShift
<1>2. CASE W = 4
  BY <1>2 DEF BitOffset, BitLength, BitShift
<1>3. CASE W = 8
  BY <1>3 DEF BitOffset, BitLength, BitShift
<1>4. CASE W = 16
  BY <1>4 DEF BitOffset, BitLength, BitShift
<1>5. CASE W = 32
  BY <1>5 DEF BitOffset, BitLength, BitShift
<1>6. CASE W = 64
  BY <1>6 DEF BitOffset, BitLength, BitShift
<1> QED
  BY <1>1, <1>2, <1>3, <1>4, <1>5, <1>6 DEF WordAssumption

LEMMA Reach ==
    ASSUME WordAssumption, NEW p \in Nat, NEW m \in Nat
    PROVE  p \in 0 .. W * m - 1 <=> BitOffset(p) \in 0 .. m - 1
<1>1. CASE W = 2
  BY <1>1 DEF BitOffset
<1>2. CASE W = 4
  BY <1>2 DEF BitOffset
<1>3. CASE W = 8
  BY <1>3 DEF BitOffset
<1>4. CASE W = 16
  BY <1>4 DEF BitOffset
<1>5. CASE W = 32
  BY <1>5 DEF BitOffset
<1>6. CASE W = 64
  BY <1>6 DEF BitOffset
<1> QED
  BY <1>1, <1>2, <1>3, <1>4, <1>5, <1>6 DEF WordAssumption

\* Two positions are the same when their word and bit are, and are ordered as
\* their words are, and in a word as their bits are.
LEMMA Ordered ==
    ASSUME WordAssumption, NEW p \in Nat, NEW q \in Nat
    PROVE  /\ p = q <=> BitOffset(p) = BitOffset(q) /\ BitPos(p) = BitPos(q)
           /\ p < q <=> \/ BitOffset(p) < BitOffset(q)
                        \/ BitOffset(p) = BitOffset(q) /\ BitPos(p) < BitPos(q)
           /\ BitOffset(p) < BitOffset(q) => BitOffset(p) \in 0 .. BitOffset(q) - 1
<1> DEFINE o == BitOffset(p)
           b == BitPos(p)
           r == BitOffset(q)
           c == BitPos(q)
<1>1. o \in Nat /\ b \in Bit /\ At(o, b) = p
  BY Division
<1>2. r \in Nat /\ c \in Bit /\ At(r, c) = q
  BY Division
<1>3. b \in Int /\ c \in Int
  BY <1>1, <1>2 DEF Bit
<1> HIDE DEF o, b, r, c
<1>4. /\ o < r => p < q
      /\ r < o => q < p
      /\ o = r => (p < q <=> b < c)
  BY <1>1, <1>2, PositionOrder
<1>5. o = r /\ b = c <=> p = q
  <2>1. o = r /\ b = c => p = q
    BY <1>1, <1>2
  <2>2. p = q => o = r /\ b = c
    BY DEF o, b, r, c
  <2> QED
    BY <2>1, <2>2
<1>6. p < q <=> o < r \/ (o = r /\ b < c)
  BY <1>1, <1>2, <1>3, <1>4, <1>5
<1>7. o < r => o \in 0 .. r - 1
  BY <1>1, <1>2
<1> QED
  BY <1>5, <1>6, <1>7 DEF o, b, r, c

-----------------------------------------------------------------------------
\* Masks.

LEMMA Masks ==
    ASSUME WordAssumption, NEW s \in Bit, NEW e \in Bit
    PROVE  /\ IntervalUp(s) = {b \in Bit : b >= s}
           /\ IntervalDown(s) = {b \in Bit : b <= s}
           /\ s <= e => OneRange(s, e) = {b \in Bit : s <= b /\ b <= e}
           /\ ShiftUp(AllBitsButLsb, e) = {b \in Bit : b > e}
<1>0. W \in Nat
  BY DEF WordAssumption
<1>1. ShiftUp(AllBits, s) = {b \in Bit : b >= s}
  <2>1. ASSUME NEW b \in Bit, b >= s PROVE b \in ShiftUp(AllBits, s)
    <3>1. b - s \in Bit /\ (b - s) + s = b
      BY <1>0, <2>1 DEF Bit
    <3> QED
      BY <3>1 DEF ShiftUp, AllBits
  <2>2. ASSUME NEW b \in ShiftUp(AllBits, s) PROVE b \in Bit /\ b >= s
    BY <1>0 DEF ShiftUp, AllBits, Bit
  <2> QED
    BY <2>1, <2>2
<1>2. ShiftUp(AllBitsButLsb, e) = {b \in Bit : b > e}
  <2>1. ASSUME NEW b \in Bit, b > e PROVE b \in ShiftUp(AllBitsButLsb, e)
    <3>1. b - e \in AllBitsButLsb /\ (b - e) + e = b
      BY <1>0, <2>1 DEF Bit, AllBitsButLsb
    <3> QED
      BY <3>1 DEF ShiftUp
  <2>2. ASSUME NEW b \in ShiftUp(AllBitsButLsb, e) PROVE b \in Bit /\ b > e
    BY <1>0 DEF ShiftUp, AllBitsButLsb, Bit
  <2> QED
    BY <2>1, <2>2
<1>3. IntervalDown(s) = {b \in Bit : b <= s}
  <2>1. ASSUME NEW b \in Bit, b <= s PROVE b \in IntervalDown(s)
    <3> DEFINE c == b + (W - 1 - s)
    <3>1. c \in AllBits /\ c >= W - 1 - s /\ c - (W - 1 - s) = b
      BY <1>0, <2>1 DEF Bit, AllBits
    <3> HIDE DEF c
    <3> QED
      BY <3>1 DEF IntervalDown, ShiftDown
  <2>2. ASSUME NEW b \in IntervalDown(s) PROVE b \in Bit /\ b <= s
    BY <1>0 DEF IntervalDown, ShiftDown, AllBits, Bit
  <2> QED
    BY <2>1, <2>2
<1>4. ASSUME s <= e PROVE OneRange(s, e) = {b \in Bit : s <= b /\ b <= e}
  <2>1. \A b \in Bit : b > e => b >= s
    BY <1>0, <1>4 DEF Bit
  <2>2. \A b \in Bit : b > e <=> ~(b <= e)
    BY <1>0 DEF Bit
  <2> QED
    BY <1>1, <1>2, <2>1, <2>2 DEF OneRange, Xor
<1> QED
  BY <1>1, <1>2, <1>3, <1>4 DEF IntervalUp

LEMMA TwoBits ==
    ASSUME WordAssumption, NEW p \in Nat
    PROVE  \A q \in Nat :
               q \div 2 = p \div 2 <=>
                   BitOffset(q) = BitOffset(p) /\ BitPos(q) \in TwoBitsFromPos(p)
<1> SUFFICES ASSUME NEW q \in Nat
             PROVE  q \div 2 = p \div 2 <=>
                        BitOffset(q) = BitOffset(p) /\ BitPos(q) \in TwoBitsFromPos(p)
  OBVIOUS
<1> DEFINE h == BitPos(p) \div 2
<1>1. h \in Nat
  BY Division DEF Bit
<1>2. \A b \in Bit : b \in TwoBitsFromPos(p) <=> b = 2 * h \/ b = 2 * h + 1
  <2> HIDE DEF h
  <2>1. \A b \in Bit : b \in ShiftUp({0, 1}, 2 * h) <=> b = 2 * h \/ b = 2 * h + 1
    BY <1>1 DEF ShiftUp, Bit
  <2> QED
    BY <2>1 DEF TwoBitsFromPos, h
<1>3. BitPos(q) \in Bit
  BY Division
<1>4. BitPos(q) \in TwoBitsFromPos(p) <=> BitPos(q) \div 2 = BitPos(p) \div 2
  BY <1>1, <1>2, <1>3 DEF Bit
<1>5. q \div 2 = p \div 2 <=>
          BitOffset(q) = BitOffset(p) /\ BitPos(q) \div 2 = BitPos(p) \div 2
  <2>1. CASE W = 2
    BY <2>1 DEF BitOffset, BitPos
  <2>2. CASE W = 4
    BY <2>2 DEF BitOffset, BitPos
  <2>3. CASE W = 8
    BY <2>3 DEF BitOffset, BitPos
  <2>4. CASE W = 16
    BY <2>4 DEF BitOffset, BitPos
  <2>5. CASE W = 32
    BY <2>5 DEF BitOffset, BitPos
  <2>6. CASE W = 64
    BY <2>6 DEF BitOffset, BitPos
  <2> QED
    BY <2>1, <2>2, <2>3, <2>4, <2>5, <2>6 DEF WordAssumption
<1> QED
  BY <1>4, <1>5

-----------------------------------------------------------------------------
\* Arrays of words, and the positions they have after each change.

Arrays(m) == [0 .. m - 1 -> Word]

LEMMA PositionsOf ==
    ASSUME WordAssumption, NEW m \in Nat, NEW d \in Arrays(m)
    PROVE  /\ Positions(d) \subseteq Nat
           /\ Positions(d) \subseteq 0 .. W * m - 1
           /\ Cardinality(DOMAIN d) = m
           /\ \A p \in Nat :
                 p \in Positions(d) <=>
                     BitOffset(p) \in 0 .. m - 1 /\ BitPos(p) \in d[BitOffset(p)]
<1>1. DOMAIN d = 0 .. m - 1
  BY DEF Arrays
<1>2. Cardinality(DOMAIN d) = m
  <2>1. Cardinality(0 .. m - 1) = IF 0 > m - 1 THEN 0 ELSE (m - 1) - 0 + 1
    BY FS_Interval, 0 \in Int, m - 1 \in Int
  <2> QED
    BY <1>1, <2>1
<1>3. Positions(d) = {p \in 0 .. W * m - 1 : IsBitSet(d, p)}
  BY <1>2, Zenon DEF Positions
<1>4. 0 .. W * m - 1 \subseteq Nat
  OBVIOUS
<1>5. ASSUME NEW p \in Nat
      PROVE  p \in Positions(d) <=>
                 BitOffset(p) \in 0 .. m - 1 /\ BitPos(p) \in d[BitOffset(p)]
  BY <1>3, Reach, Zenon DEF IsBitSet
<1> QED
  BY <1>2, <1>3, <1>4, <1>5, Zenon

\* An array has the positions of a set when it has them one by one.
LEMMA SamePositions ==
    ASSUME WordAssumption, NEW m \in Nat, NEW d \in Arrays(m), NEW S \in SUBSET Nat,
           \A p \in Nat :
               p \in S <=> BitOffset(p) \in 0 .. m - 1 /\ BitPos(p) \in d[BitOffset(p)]
    PROVE  Positions(d) = S
BY PositionsOf, Zenon

\* The words of a size hold the positions below it.
LEMMA Holds ==
    ASSUME WordAssumption, NEW n \in Nat, NEW p \in 0 .. n - 1
    PROVE  p \in Nat /\ BitOffset(p) \in 0 .. BitLength(n) - 1
<1>1. p \in Nat /\ BitOffset(p) \in Nat /\ BitPos(p) \in Nat
  BY Division DEF Bit
<1>2. BitShift(BitOffset(p)) + BitPos(p) = p
  BY <1>1, Division DEF At
<1>3. BitShift(BitOffset(p)) \in Int
  BY <1>1 DEF BitShift, WordAssumption
<1>4. BitShift(BitOffset(p)) < n
  BY <1>1, <1>2, <1>3
<1>5. BitLength(n) \in Nat /\ BitOffset(p) < BitLength(n)
  BY <1>1, <1>4, Lengths
<1> QED
  BY <1>1, <1>5

\* One word becomes another set of bits.
Put(d, o, w) == [d EXCEPT ![o] = w]

Within(o, w) == {p \in Nat : BitOffset(p) = o /\ BitPos(p) \in w}
Outside(S, o) == {p \in S : BitOffset(p) # o}

LEMMA OneWord ==
    ASSUME WordAssumption, NEW m \in Nat, NEW d \in Arrays(m),
           NEW o \in 0 .. m - 1, NEW w \in Word
    PROVE  /\ Put(d, o, w) \in Arrays(m)
           /\ Positions(Put(d, o, w)) = Outside(Positions(d), o) \cup Within(o, w)
<1> DEFINE new == [d EXCEPT ![o] = w]
           S == {p \in Positions(d) : BitOffset(p) # o}
                \cup {p \in Nat : BitOffset(p) = o /\ BitPos(p) \in w}
<1>1. new \in Arrays(m)
  BY DEF Arrays
<1>2. \A i \in 0 .. m - 1 : new[i] = IF i = o THEN w ELSE d[i]
  BY DEF Arrays
<1>3. ASSUME NEW p \in Nat
      PROVE  p \in S <=> BitOffset(p) \in 0 .. m - 1 /\ BitPos(p) \in new[BitOffset(p)]
  <2>1. p \in Positions(d) <=> BitOffset(p) \in 0 .. m - 1 /\ BitPos(p) \in d[BitOffset(p)]
    BY PositionsOf
  <2> HIDE DEF new
  <2> QED
    BY <1>2, <2>1, Zenon
<1>4. S \in SUBSET Nat
  BY PositionsOf
<1> HIDE DEF new, S
<1>5. Positions(new) = S
  BY <1>1, <1>3, <1>4, SamePositions
<1> QED
  BY <1>1, <1>5 DEF new, S, Put, Outside, Within

LEMMA BitChanges ==
    ASSUME WordAssumption, NEW m \in Nat, NEW d \in Arrays(m), NEW p \in Nat,
           BitOffset(p) \in 0 .. m - 1
    PROVE  /\ SetBit(d, p) \in Arrays(m)
           /\ Positions(SetBit(d, p)) = Positions(d) \cup {p}
           /\ ClearBit(d, p) \in Arrays(m)
           /\ Positions(ClearBit(d, p)) = Positions(d) \ {p}
<1> DEFINE o == BitOffset(p)
<1>1. d[o] \in Word /\ BitPos(p) \in Bit
  BY Division DEF Arrays
<1>2. \A q \in Nat : q = p <=> BitOffset(q) = o /\ BitPos(q) = BitPos(p)
  BY Ordered
<1>3. \A q \in Nat : q \in Positions(d) <=>
                         BitOffset(q) \in 0 .. m - 1 /\ BitPos(q) \in d[BitOffset(q)]
  BY PositionsOf
<1>4. Positions(d) \subseteq Nat
  BY PositionsOf
<1>5. /\ SetBit(d, p) \in Arrays(m)
      /\ Positions(SetBit(d, p)) = Positions(d) \cup {p}
  <2> DEFINE w == d[o] \cup {BitPos(p)}
  <2>1. SetBit(d, p) = Put(d, o, w)
    BY DEF SetBit, Put
  <2>2. w \in Word
    BY <1>1 DEF Word
  <2>3. /\ Put(d, o, w) \in Arrays(m)
        /\ Positions(Put(d, o, w)) = Outside(Positions(d), o) \cup Within(o, w)
    <3>1. o \in 0 .. m - 1
      OBVIOUS
    <3> HIDE DEF w, o
    <3> QED
      BY <2>2, <3>1, OneWord
  <2>4. Within(o, w) = {q \in Positions(d) : BitOffset(q) = o} \cup {p}
    BY <1>2, <1>3, <1>4, Zenon DEF Within
  <2> HIDE DEF w
  <2> QED
    BY <2>1, <2>3, <2>4, Zenon DEF Outside
<1>6. /\ ClearBit(d, p) \in Arrays(m)
      /\ Positions(ClearBit(d, p)) = Positions(d) \ {p}
  <2> DEFINE w == d[o] \ {BitPos(p)}
  <2>1. ClearBit(d, p) = Put(d, o, w)
    BY DEF ClearBit, Put
  <2>2. w \in Word
    BY <1>1 DEF Word
  <2>3. /\ Put(d, o, w) \in Arrays(m)
        /\ Positions(Put(d, o, w)) = Outside(Positions(d), o) \cup Within(o, w)
    <3>1. o \in 0 .. m - 1
      OBVIOUS
    <3> HIDE DEF w, o
    <3> QED
      BY <2>2, <3>1, OneWord
  <2>4. Within(o, w) = {q \in Positions(d) : BitOffset(q) = o} \ {p}
    BY <1>2, <1>3, <1>4, Zenon DEF Within
  <2> HIDE DEF w
  <2> QED
    BY <2>1, <2>3, <2>4, Zenon DEF Outside
<1> QED
  BY <1>5, <1>6

\* More words, or fewer.
LEMMA ResizedPositions ==
    ASSUME WordAssumption, NEW m \in Nat, NEW d \in Arrays(m), NEW k \in Nat
    PROVE  /\ Resized(d, k) \in Arrays(k)
           /\ Positions(Resized(d, k)) = {p \in Positions(d) : BitOffset(p) \in 0 .. k - 1}
<1>1. DOMAIN d = 0 .. m - 1 /\ \A o \in 0 .. m - 1 : d[o] \in Word
  BY DEF Arrays
<1>2. {} \in Word
  BY DEF Word
<1>3. Resized(d, k) \in Arrays(k)
  BY <1>1, <1>2 DEF Resized, Arrays
<1>4. \A o \in 0 .. k - 1 : Resized(d, k)[o] = IF o \in 0 .. m - 1 THEN d[o] ELSE {}
  BY <1>1 DEF Resized
<1>5. ASSUME NEW p \in Nat
      PROVE  p \in {q \in Positions(d) : BitOffset(q) \in 0 .. k - 1} <=>
                 BitOffset(p) \in 0 .. k - 1 /\ BitPos(p) \in Resized(d, k)[BitOffset(p)]
  <2>1. p \in Positions(d) <=> BitOffset(p) \in 0 .. m - 1 /\ BitPos(p) \in d[BitOffset(p)]
    BY PositionsOf
  <2> QED
    BY <1>4, <2>1, Zenon
<1>6. {q \in Positions(d) : BitOffset(q) \in 0 .. k - 1} \in SUBSET Nat
  BY PositionsOf
<1>7. Positions(Resized(d, k)) = {p \in Positions(d) : BitOffset(p) \in 0 .. k - 1}
  <2> DEFINE S == {q \in Positions(d) : BitOffset(q) \in 0 .. k - 1}
             e == Resized(d, k)
  <2>1. e \in Arrays(k) /\ S \in SUBSET Nat
    BY <1>3, <1>6
  <2>2. \A p \in Nat : p \in S <=> BitOffset(p) \in 0 .. k - 1 /\ BitPos(p) \in e[BitOffset(p)]
    BY <1>5
  <2> HIDE DEF S, e
  <2>3. Positions(e) = S
    BY <2>1, <2>2, SamePositions
  <2> QED
    BY <2>3 DEF S, e
<1> QED
  BY <1>3, <1>7

\* No words, or words without a bit.
LEMMA NoPositions ==
    ASSUME WordAssumption, NEW m \in Nat
    PROVE  /\ [o \in 0 .. m - 1 |-> {}] \in Arrays(m)
           /\ Positions([o \in 0 .. m - 1 |-> {}]) = {}
<1> DEFINE d == [o \in 0 .. m - 1 |-> {}]
<1>1. d \in Arrays(m) /\ \A o \in 0 .. m - 1 : d[o] = {}
  BY DEF Arrays, Word
<1> HIDE DEF d
<1>2. Positions(d) = {}
  BY <1>1, PositionsOf, Zenon
<1> QED
  BY <1>1, <1>2 DEF d

-----------------------------------------------------------------------------
\* The bitsets, as sets.

\* A size has room for the positions that its words hold.
LEMMA RoomIs ==
    ASSUME WordAssumption, NEW n \in Nat
    PROVE  /\ AsSets!Room(n) \subseteq Nat
           /\ \A p \in Nat :
                 p \in AsSets!Room(n) <=> BitOffset(p) \in 0 .. BitLength(n) - 1
<1>1. AsSets!Room(n) = 0 .. W * BitLength(n) - 1
  BY DEF AsSets!Room, AsSets!Below, BitLength
<1>2. BitLength(n) \in Nat
  BY Lengths
<1>3. \A p \in Nat :
          p \in 0 .. W * BitLength(n) - 1 <=> BitOffset(p) \in 0 .. BitLength(n) - 1
  BY <1>2, Reach
<1>4. 0 .. W * BitLength(n) - 1 \subseteq Nat
  OBVIOUS
<1> QED
  BY <1>1, <1>3, <1>4, Zenon

\* A larger size has room for more.
LEMMA RoomGrows ==
    ASSUME WordAssumption, NEW n \in Nat, NEW m \in Nat, n <= m
    PROVE  AsSets!Room(n) \subseteq AsSets!Room(m)
<1> SUFFICES ASSUME NEW p \in AsSets!Room(n) PROVE p \in AsSets!Room(m)
  OBVIOUS
<1>1. p \in Nat /\ BitOffset(p) \in 0 .. BitLength(n) - 1
  BY RoomIs
<1>2. BitOffset(p) \in Nat /\ BitLength(n) \in Nat /\ BitLength(m) \in Nat
  BY <1>1, Division, Lengths
<1>3. BitShift(BitOffset(p)) \in Int
  BY <1>2 DEF BitShift, WordAssumption
<1>4. BitShift(BitOffset(p)) < n
  BY <1>1, <1>2, Lengths
<1>5. BitOffset(p) < BitLength(m)
  BY <1>2, <1>3, <1>4, Lengths
<1> QED
  BY <1>1, <1>2, <1>5, RoomIs

LEMMA OneBitset ==
    ASSUME WordAssumption, MaxBits \in Nat, BitsetTypeOK, NEW x \in Bitsets
    PROVE  /\ Size(x) \in 0 .. MaxBits
           /\ Size(x) \in Nat
           /\ BitLength(Size(x)) \in Nat
           /\ Data(x) \in Arrays(BitLength(Size(x)))
           /\ DOMAIN Data(x) = 0 .. BitLength(Size(x)) - 1
           /\ Positions(Data(x)) \subseteq Nat
           /\ Members(x) = Positions(Data(x))
<1>1. PICK n \in 0 .. MaxBits : bits[x] \in [size : {n}, data : Words(n)]
  BY DEF BitsetTypeOK
<1>2. Size(x) = n /\ Data(x) \in Words(n)
  BY <1>1 DEF Size, Data
<1>3. Size(x) \in 0 .. MaxBits /\ Size(x) \in Nat /\ Data(x) \in Arrays(BitLength(Size(x)))
  BY <1>2 DEF Words, Arrays
<1>4. BitLength(Size(x)) \in Nat
  BY <1>3, Lengths
<1>5. Positions(Data(x)) \subseteq Nat
  BY <1>3, <1>4, PositionsOf
<1>6. Members(x) = Positions(Data(x))
  BY DEF Members
<1> QED
  BY <1>3, <1>4, <1>5, <1>6 DEF Arrays

LEMMA AbstractState ==
    ASSUME WordAssumption, MaxBits \in Nat, BitsetTypeOK, NEW x \in Bitsets
    PROVE  /\ [y \in Bitsets |-> Size(y)][x] = Size(x)
           /\ [y \in Bitsets |-> Members(y)][x] = Positions(Data(x))
BY OneBitset

\* A bitset becomes a size and an array: so do the sets.
LEMMA BecomesSet ==
    ASSUME WordAssumption, MaxBits \in Nat, BitsetTypeOK, NEW x \in Bitsets,
           NEW n \in 0 .. MaxBits, NEW d \in Arrays(BitLength(n)),
           Becomes(x, n, d)
    PROVE  /\ BitsetTypeOK'
           /\ AsSets!Resized(x, n, Positions(d))
<1>1. bits \in [Bitsets -> UNION {[size : {k}, data : Words(k)] : k \in 0 .. MaxBits}]
  BY DEF BitsetTypeOK
<1>2. [size |-> n, data |-> d] \in UNION {[size : {k}, data : Words(k)] : k \in 0 .. MaxBits}
  <2>1. d \in Words(n)
    BY DEF Words, Arrays
  <2>2. [size |-> n, data |-> d] \in [size : {n}, data : Words(n)]
    BY <2>1
  <2> QED
    BY <2>2
<1>3. BitsetTypeOK'
  BY <1>1, <1>2 DEF BitsetTypeOK, Becomes
<1>4. /\ Size(x)' = n /\ Data(x)' = d
      /\ \A y \in Bitsets : y # x => Size(y)' = Size(y) /\ Data(y)' = Data(y)
  BY <1>1 DEF Becomes, Size, Data
<1>5. /\ Members(x)' = Positions(d)
      /\ \A y \in Bitsets : y # x => Members(y)' = Members(y)
  <2>1. Members(x)' = Positions(d)
    BY <1>4 DEF Members, Positions, IsBitSet
  <2>2. \A y \in Bitsets : y # x => Members(y)' = Members(y)
    BY <1>4 DEF Members, Positions, IsBitSet
  <2> QED
    BY <2>1, <2>2
<1>6. [y \in Bitsets |-> Size(y)]' = [[y \in Bitsets |-> Size(y)] EXCEPT ![x] = n]
  BY <1>4
<1>7. [y \in Bitsets |-> Members(y)]' = [[y \in Bitsets |-> Members(y)] EXCEPT ![x] = Positions(d)]
  BY <1>5
<1> QED
  BY <1>3, <1>6, <1>7 DEF AsSets!Resized

\* The size stays.
LEMMA ChangesSet ==
    ASSUME WordAssumption, MaxBits \in Nat, BitsetTypeOK, NEW x \in Bitsets,
           NEW d \in Arrays(BitLength(Size(x))), DataBecomes(x, d)
    PROVE  /\ BitsetTypeOK'
           /\ AsSets!Changed(x, Positions(d))
<1>1. Size(x) \in 0 .. MaxBits /\ Becomes(x, Size(x), d)
  BY OneBitset DEF DataBecomes
<1>2. BitsetTypeOK' /\ AsSets!Resized(x, Size(x), Positions(d))
  BY <1>1, BecomesSet
<1> QED
  BY <1>2, AbstractState DEF AsSets!Changed

LEMMA PushBackStep ==
    ASSUME WordAssumption, MaxBits \in Nat, BitsetTypeOK, NEW x \in Bitsets,
           NEW value \in BOOLEAN, PushBack(x, value)
    PROVE  BitsetTypeOK' /\ AsSets!Change(x)
<1> DEFINE n == Size(x)
           S == Positions(Data(x))
           d == Resized(Data(x), BitLength(n + 1))
<1>1. n \in Nat /\ n + 1 \in 0 .. MaxBits /\ n + 1 \in Nat
  BY OneBitset DEF PushBack
<1>2. BitLength(n) \in Nat /\ Data(x) \in Arrays(BitLength(n)) /\ S \subseteq Nat
  BY OneBitset
<1>3. BitLength(n + 1) \in Nat
  BY <1>1, Lengths
<1>4. n \in 0 .. (n + 1) - 1
  BY <1>1
<1>5. BitOffset(n) \in 0 .. BitLength(n + 1) - 1
  BY <1>1, <1>4, Holds
<1>6. d \in Arrays(BitLength(n + 1))
  BY <1>2, <1>3, ResizedPositions
<1>7. Positions(d) = S
  <2>1. \A p \in S : BitOffset(p) \in 0 .. BitLength(n) - 1
    BY <1>2, PositionsOf
  <2>2. AsSets!Room(n) \subseteq AsSets!Room(n + 1)
    BY <1>1, RoomGrows
  <2>3. Positions(d) = {p \in S : BitOffset(p) \in 0 .. BitLength(n + 1) - 1}
    BY <1>2, <1>3, ResizedPositions
  <2> HIDE DEF S, d, n
  <2>4. \A p \in S : BitOffset(p) \in 0 .. BitLength(n + 1) - 1
    BY <1>1, <1>2, <2>1, <2>2, RoomIs, Zenon
  <2> QED
    BY <2>3, <2>4, Zenon
<1>8. Becomes(x, n + 1, PutBit(d, n, value))
  BY DEF PushBack
<1>9. /\ [y \in Bitsets |-> Size(y)][x] = n
      /\ [y \in Bitsets |-> Members(y)][x] = S
  BY AbstractState
<1> HIDE DEF n, S, d
<1>10. CASE value
  <2>1. SetBit(d, n) \in Arrays(BitLength(n + 1)) /\ Positions(SetBit(d, n)) = S \cup {n}
    BY <1>1, <1>3, <1>5, <1>6, <1>7, BitChanges
  <2>2. Becomes(x, n + 1, SetBit(d, n))
    BY <1>8, <1>10 DEF PutBit
  <2>3. BitsetTypeOK' /\ AsSets!Resized(x, n + 1, S \cup {n})
    BY <1>1, <2>1, <2>2, BecomesSet
  <2> QED
    BY <1>9, <2>3, Zenon DEF AsSets!Change
<1>11. CASE ~value
  <2>1. ClearBit(d, n) \in Arrays(BitLength(n + 1)) /\ Positions(ClearBit(d, n)) = S \ {n}
    BY <1>1, <1>3, <1>5, <1>6, <1>7, BitChanges
  <2>2. Becomes(x, n + 1, ClearBit(d, n))
    BY <1>8, <1>11 DEF PutBit
  <2>3. BitsetTypeOK' /\ AsSets!Resized(x, n + 1, S \ {n})
    BY <1>1, <2>1, <2>2, BecomesSet
  <2> QED
    BY <1>9, <2>3, Zenon DEF AsSets!Change
<1> QED
  BY <1>10, <1>11

LEMMA ResizeStep ==
    ASSUME WordAssumption, MaxBits \in Nat, BitsetTypeOK, NEW x \in Bitsets,
           NEW n \in 0 .. MaxBits, Resize(x, n)
    PROVE  BitsetTypeOK' /\ AsSets!Change(x)
<1> DEFINE S == Positions(Data(x))
           m == Size(x)
           d == Resized(Data(x), BitLength(n))
<1>1. n \in Nat /\ BitLength(n) \in Nat
  BY Lengths
<1>2. /\ m \in Nat /\ BitLength(m) \in Nat /\ Data(x) \in Arrays(BitLength(m))
      /\ S \subseteq Nat
  BY OneBitset
<1>3. d \in Arrays(BitLength(n))
  BY <1>1, <1>2, ResizedPositions
<1>4. Positions(d) = {p \in S : BitOffset(p) \in 0 .. BitLength(n) - 1}
  BY <1>1, <1>2, ResizedPositions
<1>5. Becomes(x, n, d)
  BY DEF Resize
<1>6. [y \in Bitsets |-> Members(y)][x] = S
  BY AbstractState
<1> HIDE DEF S, m, d
<1>7. Positions(d) = S \cap AsSets!Room(n)
  BY <1>1, <1>2, <1>4, RoomIs, Zenon
<1>8. BitsetTypeOK' /\ AsSets!Resized(x, n, Positions(d))
  BY <1>3, <1>5, BecomesSet
<1> QED
  BY <1>6, <1>7, <1>8, Zenon DEF AsSets!Change

LEMMA ClearAndResizeStep ==
    ASSUME WordAssumption, MaxBits \in Nat, BitsetTypeOK, NEW x \in Bitsets,
           NEW n \in 0 .. MaxBits, ClearAndResize(x, n)
    PROVE  BitsetTypeOK' /\ AsSets!Change(x)
<1> DEFINE k == BitLength(n)
           m == BitLength(Size(x))
           kept == Min({Cardinality(DOMAIN Data(x)), k})
           data == Resized(Data(x), k)
           d == [o \in DOMAIN data |-> IF o < kept THEN {} ELSE data[o]]
           zeros == [o \in 0 .. k - 1 |-> {}]
<1>1. k \in Nat /\ m \in Nat
  BY Lengths, OneBitset
<1>2. Cardinality(DOMAIN Data(x)) = m /\ DOMAIN Data(x) = 0 .. m - 1
  BY <1>1, OneBitset, PositionsOf
<1>3. DOMAIN data = 0 .. k - 1
      /\ \A o \in 0 .. k - 1 : data[o] = IF o \in 0 .. m - 1 THEN Data(x)[o] ELSE {}
  BY <1>2 DEF Resized
<1>4. kept = IF m <= k THEN m ELSE k
  <2>1. kept = Min({m, k})
    BY <1>2
  <2> HIDE DEF kept
  <2> QED
    BY <1>1, <2>1 DEF Min
<1>5. d = zeros
  <2>1. \A o \in 0 .. k - 1 : ~(o < kept) => o \notin 0 .. m - 1
    <3> HIDE DEF kept
    <3> QED
      BY <1>1, <1>4
  <2> HIDE DEF kept, data
  <2> QED
    BY <1>3, <2>1
<1>6. zeros \in Arrays(k) /\ Positions(zeros) = {}
  BY <1>1, NoPositions
<1>7. Becomes(x, n, d)
  BY DEF ClearAndResize
<1> HIDE DEF d, zeros
<1>8. BitsetTypeOK' /\ AsSets!Resized(x, n, {})
  BY <1>5, <1>6, <1>7, BecomesSet
<1> QED
  BY <1>8, Zenon DEF AsSets!Change

\* A position that the size has room for, as one below it, has a word.
LEMMA HasRoom ==
    ASSUME WordAssumption, MaxBits \in Nat, BitsetTypeOK, NEW x \in Bitsets, NEW i \in Nat
    PROVE  /\ i < Size(x) => BitOffset(i) \in 0 .. BitLength(Size(x)) - 1
           /\ BitOffset(i) \in 0 .. BitLength(Size(x)) - 1
                 <=> i \in AsSets!Room([y \in Bitsets |-> Size(y)][x])
<1>1. Size(x) \in Nat
  BY OneBitset
<1>2. [y \in Bitsets |-> Size(y)][x] = Size(x)
  BY AbstractState
<1>3. i < Size(x) => i \in 0 .. Size(x) - 1
  BY <1>1
<1>4. i < Size(x) => BitOffset(i) \in 0 .. BitLength(Size(x)) - 1
  BY <1>1, <1>3, Holds
<1> QED
  BY <1>1, <1>2, <1>4, RoomIs

\* The three widths of what is cleared at once: a bit, a pair, a word.
LEMMA Groups ==
    ASSUME WordAssumption, MaxBits \in Nat, NEW S \in SUBSET AsSets!Room(MaxBits), NEW i \in Nat
    PROVE  /\ S \ AsSets!Group(i, 1) = S \ {i}
           /\ S \ AsSets!Group(i, 2) = {p \in S : ~(p \div 2 = i \div 2)}
           /\ S \ AsSets!Group(i, W) = {p \in S : BitOffset(p) # BitOffset(i)}
<1>0. S \subseteq Nat
  BY RoomIs
<1>1. \A p \in S : p \in AsSets!Group(i, 1) <=> p = i
  <2>1. \A p \in Nat : p \div 1 = p
    OBVIOUS
  <2> QED
    BY <1>0, <2>1, Zenon DEF AsSets!Group
<1>2. \A p \in S : p \in AsSets!Group(i, 2) <=> p \div 2 = i \div 2
  BY Zenon DEF AsSets!Group
<1>3. \A p \in S : p \in AsSets!Group(i, W) <=> BitOffset(p) = BitOffset(i)
  BY Zenon DEF AsSets!Group, BitOffset
<1> QED
  BY <1>1, <1>2, <1>3, Zenon

LEMMA PositionsInBound ==
    ASSUME WordAssumption, MaxBits \in Nat, BitsetTypeOK, NEW x \in Bitsets
    PROVE  Positions(Data(x)) \in SUBSET AsSets!Room(MaxBits)
<1>1. /\ Size(x) \in Nat /\ Size(x) <= MaxBits
      /\ BitLength(Size(x)) \in Nat /\ Data(x) \in Arrays(BitLength(Size(x)))
  BY OneBitset
<1>2. \A p \in Positions(Data(x)) : p \in Nat /\ BitOffset(p) \in 0 .. BitLength(Size(x)) - 1
  BY <1>1, PositionsOf
<1>3. Positions(Data(x)) \subseteq AsSets!Room(Size(x))
  BY <1>1, <1>2, RoomIs
<1> QED
  BY <1>1, <1>3, RoomGrows

LEMMA SetStep ==
    ASSUME WordAssumption, MaxBits \in Nat, BitsetTypeOK, NEW x \in Bitsets, NEW i \in Nat,
           BitOffset(i) \in 0 .. BitLength(Size(x)) - 1, DataBecomes(x, SetBit(Data(x), i))
    PROVE  BitsetTypeOK' /\ AsSets!Change(x)
<1> DEFINE S == Positions(Data(x))
           d == SetBit(Data(x), i)
<1>1. i \in AsSets!Room([y \in Bitsets |-> Size(y)][x])
  BY HasRoom
<1>2. BitLength(Size(x)) \in Nat /\ Data(x) \in Arrays(BitLength(Size(x)))
  BY OneBitset
<1>3. d \in Arrays(BitLength(Size(x))) /\ Positions(d) = S \cup {i}
  BY <1>2, BitChanges
<1>4. BitsetTypeOK' /\ AsSets!Changed(x, S \cup {i})
  BY <1>3, ChangesSet
<1>5. [y \in Bitsets |-> Members(y)][x] = S
  BY AbstractState
<1> HIDE DEF S, d
<1> QED
  BY <1>1, <1>4, <1>5, Zenon DEF AsSets!Change

\* What is cleared is a group of positions.
LEMMA ClearedGroup ==
    ASSUME WordAssumption, MaxBits \in Nat, BitsetTypeOK, NEW x \in Bitsets,
           NEW i \in Nat, BitOffset(i) \in 0 .. BitLength(Size(x)) - 1, NEW width \in {1, 2, W},
           NEW d \in Arrays(BitLength(Size(x))), DataBecomes(x, d),
           Positions(d) = Positions(Data(x)) \ AsSets!Group(i, width)
    PROVE  BitsetTypeOK' /\ AsSets!Change(x)
<1>1. i \in AsSets!Room([y \in Bitsets |-> Size(y)][x])
  BY HasRoom
<1>2. BitsetTypeOK' /\ AsSets!Changed(x, Positions(Data(x)) \ AsSets!Group(i, width))
  BY ChangesSet
<1>3. [y \in Bitsets |-> Members(y)][x] = Positions(Data(x))
  BY AbstractState
<1> QED
  BY <1>1, <1>2, <1>3, Zenon DEF AsSets!Change

LEMMA ClearStep ==
    ASSUME WordAssumption, MaxBits \in Nat, BitsetTypeOK, NEW x \in Bitsets, NEW i \in Nat,
           BitOffset(i) \in 0 .. BitLength(Size(x)) - 1, DataBecomes(x, ClearBit(Data(x), i))
    PROVE  BitsetTypeOK' /\ AsSets!Change(x)
<1> DEFINE d == ClearBit(Data(x), i)
<1>1. BitLength(Size(x)) \in Nat /\ Data(x) \in Arrays(BitLength(Size(x)))
  BY OneBitset
<1>2. d \in Arrays(BitLength(Size(x))) /\ Positions(d) = Positions(Data(x)) \ {i}
  BY <1>1, BitChanges
<1>3. Positions(Data(x)) \ AsSets!Group(i, 1) = Positions(Data(x)) \ {i}
  BY Groups, PositionsInBound
<1> HIDE DEF d
<1> QED
  BY <1>2, <1>3, ClearedGroup, 1 \in {1, 2, W} DEF d

LEMMA ClearBucketStep ==
    ASSUME WordAssumption, MaxBits \in Nat, BitsetTypeOK, NEW x \in Bitsets,
           NEW i \in 0 .. MaxBits - 1, ClearBucket(x, i)
    PROVE  BitsetTypeOK' /\ AsSets!Change(x)
<1> DEFINE d == Put(Data(x), BitOffset(i), {})
           S == Positions(Data(x))
<1>1. i < Size(x) /\ DataBecomes(x, d)
  BY DEF ClearBucket, Put
<1>2. i \in Nat /\ BitOffset(i) \in 0 .. BitLength(Size(x)) - 1
  BY <1>1, HasRoom
<1>3. BitLength(Size(x)) \in Nat /\ Data(x) \in Arrays(BitLength(Size(x)))
  BY OneBitset
<1>4. {} \in Word
  BY DEF Word
<1>5. /\ d \in Arrays(BitLength(Size(x)))
      /\ Positions(d) = Outside(S, BitOffset(i)) \cup Within(BitOffset(i), {})
  BY <1>2, <1>3, <1>4, OneWord
<1>6. Within(BitOffset(i), {}) = {}
  BY DEF Within
<1>7. S \ AsSets!Group(i, W) = Outside(S, BitOffset(i))
  BY <1>2, Groups, PositionsInBound DEF Outside
<1>8. W \in {1, 2, W}
  OBVIOUS
<1> HIDE DEF d, S
<1>9. Positions(d) = S \ AsSets!Group(i, W)
  BY <1>5, <1>6, <1>7
<1> QED
  BY <1>1, <1>2, <1>5, <1>8, <1>9, ClearedGroup DEF S

LEMMA ClearTwoBitsStep ==
    ASSUME WordAssumption, MaxBits \in Nat, BitsetTypeOK, NEW x \in Bitsets,
           NEW i \in 0 .. MaxBits - 1, ClearTwoBits(x, i)
    PROVE  BitsetTypeOK' /\ AsSets!Change(x)
<1> DEFINE o == BitOffset(i)
           w == Data(x)[o] \ TwoBitsFromPos(i)
           d == Put(Data(x), o, w)
           S == Positions(Data(x))
<1>1. i < Size(x) /\ DataBecomes(x, d)
  BY DEF ClearTwoBits, Put
<1>2. i \in Nat /\ o \in 0 .. BitLength(Size(x)) - 1
  BY <1>1, HasRoom
<1>3. BitLength(Size(x)) \in Nat /\ Data(x) \in Arrays(BitLength(Size(x)))
  BY OneBitset
<1>4. w \in Word
  BY <1>2, <1>3 DEF Word, Arrays
<1>5. /\ d \in Arrays(BitLength(Size(x)))
      /\ Positions(d) = Outside(S, o) \cup Within(o, w)
  <2> HIDE DEF w, o
  <2> QED
    BY <1>2, <1>3, <1>4, OneWord
<1>6. S \subseteq Nat
      /\ \A p \in Nat : p \in S <=>
            BitOffset(p) \in 0 .. BitLength(Size(x)) - 1 /\ BitPos(p) \in Data(x)[BitOffset(p)]
  BY <1>3, PositionsOf
<1>7. \A p \in Nat : p \div 2 = i \div 2 <=> BitOffset(p) = o /\ BitPos(p) \in TwoBitsFromPos(i)
  BY <1>2, TwoBits
<1>8. S \ AsSets!Group(i, 2) = {p \in S : ~(p \div 2 = i \div 2)}
  BY <1>2, Groups, PositionsInBound
<1>9. Outside(S, o) \cup Within(o, w) = {p \in S : ~(p \div 2 = i \div 2)}
  <2>1. ASSUME NEW p \in Nat
        PROVE  p \in Outside(S, o) \cup Within(o, w) <=> p \in S /\ ~(p \div 2 = i \div 2)
    <3>1. CASE BitOffset(p) = o
      <4>1. p \in S <=> BitPos(p) \in Data(x)[o]
        BY <1>2, <1>6, <3>1
      <4>2. p \div 2 = i \div 2 <=> BitPos(p) \in TwoBitsFromPos(i)
        BY <1>7, <3>1
      <4>3. p \in Outside(S, o) \cup Within(o, w) <=> BitPos(p) \in w
        BY <3>1, Zenon DEF Outside, Within
      <4> QED
        BY <4>1, <4>2, <4>3
    <3>2. CASE BitOffset(p) # o
      <4>1. ~(p \div 2 = i \div 2)
        BY <1>7, <3>2
      <4>2. p \in Outside(S, o) \cup Within(o, w) <=> p \in S
        BY <3>2, Zenon DEF Outside, Within
      <4> QED
        BY <4>1, <4>2
    <3> QED
      BY <3>1, <3>2
  <2>2. Outside(S, o) \cup Within(o, w) \subseteq Nat
    BY <1>6 DEF Outside, Within
  <2> HIDE DEF S, o, w
  <2> QED
    BY <1>6, <2>1, <2>2, Zenon
<1> HIDE DEF d, S, o, w
<1>10. Positions(d) = S \ AsSets!Group(i, 2)
  BY <1>5, <1>8, <1>9
<1> QED
  BY <1>1, <1>2, <1>5, <1>10, ClearedGroup, 2 \in {1, 2, W} DEF S, o

LEMMA ClearAllStep ==
    ASSUME WordAssumption, MaxBits \in Nat, BitsetTypeOK, NEW x \in Bitsets, ClearAll(x)
    PROVE  BitsetTypeOK' /\ AsSets!Change(x)
<1> DEFINE k == BitLength(Size(x))
           zeros == [o \in 0 .. k - 1 |-> {}]
<1>1. k \in Nat /\ DOMAIN Data(x) = 0 .. k - 1 /\ Size(x) \in 0 .. MaxBits
  BY OneBitset
<1>2. zeros \in Arrays(k) /\ Positions(zeros) = {}
  BY <1>1, NoPositions
<1>3. Becomes(x, Size(x), zeros)
  BY <1>1 DEF ClearAll, DataBecomes
<1> HIDE DEF zeros
<1>4. BitsetTypeOK' /\ AsSets!Resized(x, Size(x), {})
  BY <1>1, <1>2, <1>3, BecomesSet
<1> QED
  BY <1>1, <1>4, Zenon DEF AsSets!Change

LEMMA ChangeStep ==
    ASSUME WordAssumption, MaxBits \in Nat, BitsetTypeOK, NEW x \in Bitsets, Change(x)
    PROVE  BitsetTypeOK' /\ AsSets!Change(x)
<1>1. ASSUME NEW i \in 0 .. MaxBits - 1, Set(x, i) PROVE BitsetTypeOK' /\ AsSets!Change(x)
  BY <1>1, HasRoom, SetStep DEF Set
<1>2. ASSUME NEW i \in 0 .. MaxBits - 1, Clear(x, i) PROVE BitsetTypeOK' /\ AsSets!Change(x)
  BY <1>2, HasRoom, ClearStep DEF Clear
<1> QED
  BY <1>1, <1>2, PushBackStep, ResizeStep, ClearAndResizeStep, ClearAllStep,
     ClearBucketStep, ClearTwoBitsStep, Zenon DEF Change

-----------------------------------------------------------------------------
\* Two bitsets.

LEMMA CommonWords ==
    ASSUME WordAssumption, MaxBits \in Nat, BitsetTypeOK, NEW x \in Bitsets, NEW y \in Bitsets
    PROVE  Common(x, y) = 0 .. BitLength(Size(x)) - 1 \cap 0 .. BitLength(Size(y)) - 1
BY OneBitset DEF Common

\* What one of two bitsets becomes, position by position.
LEMMA CombinesSet ==
    ASSUME WordAssumption, MaxBits \in Nat, BitsetTypeOK, NEW x \in Bitsets,
           NEW d \in Arrays(BitLength(Size(x))), DataBecomes(x, d), NEW T \in SUBSET Nat,
           \A p \in Nat : p \in T <=> /\ BitOffset(p) \in 0 .. BitLength(Size(x)) - 1
                                      /\ BitPos(p) \in d[BitOffset(p)]
    PROVE  BitsetTypeOK' /\ AsSets!Changed(x, T)
<1>1. BitLength(Size(x)) \in Nat
  BY OneBitset
<1>2. Positions(d) = T
  BY <1>1, SamePositions
<1> QED
  BY <1>2, ChangesSet

LEMMA IntersectionStep ==
    ASSUME WordAssumption, MaxBits \in Nat, BitsetTypeOK, NEW x \in Bitsets, NEW y \in Bitsets,
           Intersection(x, y)
    PROVE  BitsetTypeOK' /\ AsSets!Combine(x, y)
<1> DEFINE k == BitLength(Size(x))
           j == BitLength(Size(y))
           S == Positions(Data(x))
           T == Positions(Data(y))
           d == [o \in DOMAIN Data(x) |->
                    IF o \in Common(x, y) THEN Data(x)[o] \cap Data(y)[o] ELSE {}]
<1>1. /\ k \in Nat /\ Data(x) \in Arrays(k) /\ DOMAIN Data(x) = 0 .. k - 1
      /\ S \subseteq Nat
  BY OneBitset
<1>2. j \in Nat /\ Data(y) \in Arrays(j)
  BY OneBitset
<1>3. \A o \in 0 .. k - 1 : o \in Common(x, y) <=> o \in 0 .. j - 1
  BY CommonWords
<1>4. d \in Arrays(k) /\ \A o \in 0 .. k - 1 :
          d[o] = IF o \in 0 .. j - 1 THEN Data(x)[o] \cap Data(y)[o] ELSE {}
  <2>1. \A o \in 0 .. k - 1 : Data(x)[o] \in Word
    BY <1>1 DEF Arrays
  <2> QED
    BY <1>1, <1>3, <2>1 DEF Arrays, Word
<1>5. \A p \in Nat : p \in S <=> BitOffset(p) \in 0 .. k - 1 /\ BitPos(p) \in Data(x)[BitOffset(p)]
  BY <1>1, PositionsOf
<1>6. \A p \in Nat : p \in T <=> BitOffset(p) \in 0 .. j - 1 /\ BitPos(p) \in Data(y)[BitOffset(p)]
  BY <1>2, PositionsOf
<1>7. DataBecomes(x, d)
  BY DEF Intersection
<1>8. /\ [z \in Bitsets |-> Members(z)][x] = S
      /\ [z \in Bitsets |-> Members(z)][y] = T
  BY AbstractState
<1>9. S \cap T \in SUBSET Nat
  BY <1>1
<1> HIDE DEF d, S, T
<1>10. \A p \in Nat : p \in S \cap T <=>
           BitOffset(p) \in 0 .. k - 1 /\ BitPos(p) \in d[BitOffset(p)]
  <2> HIDE DEF k, j
  <2> QED
    BY <1>4, <1>5, <1>6, Zenon
<1>11. BitsetTypeOK' /\ AsSets!Changed(x, S \cap T)
  BY <1>4, <1>7, <1>9, <1>10, CombinesSet
<1> QED
  BY <1>8, <1>11, Zenon DEF AsSets!Combine

\* What the other bitset shares are the positions in the words of this one.
LEMMA SharedIs ==
    ASSUME WordAssumption, MaxBits \in Nat, BitsetTypeOK, NEW x \in Bitsets, NEW y \in Bitsets
    PROVE  /\ AsSets!Shared(x, y) = {p \in Positions(Data(y)) :
                                          BitOffset(p) \in 0 .. BitLength(Size(x)) - 1}
           /\ AsSets!Shared(x, y) \in SUBSET Nat
<1>1. Size(x) \in Nat /\ Positions(Data(y)) \subseteq Nat
  BY OneBitset
<1>2. AsSets!Shared(x, y) = Positions(Data(y)) \cap AsSets!Room(Size(x))
  BY AbstractState, Zenon DEF AsSets!Shared
<1> QED
  BY <1>1, <1>2, RoomIs, Zenon

LEMMA UnionStep ==
    ASSUME WordAssumption, MaxBits \in Nat, BitsetTypeOK, NEW x \in Bitsets, NEW y \in Bitsets,
           UnionWith(x, y)
    PROVE  BitsetTypeOK' /\ AsSets!Combine(x, y)
<1> DEFINE k == BitLength(Size(x))
           j == BitLength(Size(y))
           S == Positions(Data(x))
           T == Positions(Data(y))
           d == [o \in DOMAIN Data(x) |->
                    IF o \in Common(x, y) THEN Data(x)[o] \cup Data(y)[o] ELSE Data(x)[o]]
           R == AsSets!Shared(x, y)
<1>1. /\ k \in Nat /\ Data(x) \in Arrays(k) /\ DOMAIN Data(x) = 0 .. k - 1
      /\ S \subseteq Nat
  BY OneBitset
<1>2. j \in Nat /\ Data(y) \in Arrays(j)
  BY OneBitset
<1>3. \A o \in 0 .. k - 1 : o \in Common(x, y) <=> o \in 0 .. j - 1
  BY CommonWords
<1>4. d \in Arrays(k) /\ \A o \in 0 .. k - 1 :
          d[o] = IF o \in 0 .. j - 1 THEN Data(x)[o] \cup Data(y)[o] ELSE Data(x)[o]
  <2>1. /\ \A o \in 0 .. k - 1 : Data(x)[o] \in Word
        /\ \A o \in 0 .. j - 1 : Data(y)[o] \in Word
    BY <1>1, <1>2 DEF Arrays
  <2> QED
    BY <1>1, <1>3, <2>1 DEF Arrays, Word
<1>5. \A p \in Nat : p \in S <=> BitOffset(p) \in 0 .. k - 1 /\ BitPos(p) \in Data(x)[BitOffset(p)]
  BY <1>1, PositionsOf
<1>6. \A p \in Nat : p \in T <=> BitOffset(p) \in 0 .. j - 1 /\ BitPos(p) \in Data(y)[BitOffset(p)]
  BY <1>2, PositionsOf
<1>7. DataBecomes(x, d)
  BY DEF UnionWith
<1>8. [z \in Bitsets |-> Members(z)][x] = S
  BY AbstractState
<1>9. R = {p \in T : BitOffset(p) \in 0 .. k - 1} /\ R \in SUBSET Nat
  BY SharedIs
<1>10. S \cup R \in SUBSET Nat
  BY <1>1, <1>9
<1> HIDE DEF d, S, T, R
<1>11. \A p \in Nat : p \in S \cup R <=>
           BitOffset(p) \in 0 .. k - 1 /\ BitPos(p) \in d[BitOffset(p)]
  <2> HIDE DEF k, j
  <2> QED
    BY <1>4, <1>5, <1>6, <1>9, Zenon
<1>12. BitsetTypeOK' /\ AsSets!Changed(x, S \cup R)
  BY <1>4, <1>7, <1>10, <1>11, CombinesSet
<1> QED
  BY <1>8, <1>12, Zenon DEF AsSets!Combine, R

LEMMA CopyBucketStep ==
    ASSUME WordAssumption, MaxBits \in Nat, BitsetTypeOK, NEW x \in Bitsets, NEW y \in Bitsets,
           NEW i \in 0 .. MaxBits - 1, CopyBucket(x, y, i)
    PROVE  BitsetTypeOK' /\ AsSets!Combine(x, y)
<1> DEFINE k == BitLength(Size(x))
           j == BitLength(Size(y))
           o == BitOffset(i)
           S == Positions(Data(x))
           T == Positions(Data(y))
           w == Data(y)[o]
           d == Put(Data(x), o, w)
           R == AsSets!Shared(x, y)
           G == AsSets!Group(i, W)
<1>1. k \in Nat /\ Data(x) \in Arrays(k) /\ S \subseteq Nat
  BY OneBitset
<1>2. j \in Nat /\ Data(y) \in Arrays(j)
  BY OneBitset
<1>3. o \in 0 .. k - 1 /\ o \in 0 .. j - 1
  BY CommonWords DEF CopyBucket
<1>4. DataBecomes(x, d)
  BY DEF CopyBucket, Put
<1>5. w \in Word
  BY <1>2, <1>3 DEF Arrays
<1>6. d \in Arrays(k) /\ Positions(d) = Outside(S, o) \cup Within(o, w)
  <2> HIDE DEF w, o
  <2> QED
    BY <1>1, <1>3, <1>5, OneWord
<1>7. \A p \in Nat : p \in T <=> BitOffset(p) \in 0 .. j - 1 /\ BitPos(p) \in Data(y)[BitOffset(p)]
  BY <1>2, PositionsOf
<1>8. R = {p \in T : BitOffset(p) \in 0 .. k - 1} /\ R \in SUBSET Nat
  BY SharedIs
<1>9. T \in SUBSET AsSets!Room(MaxBits) /\ i \in Nat
  BY PositionsInBound
<1>10. S \ G = Outside(S, o)
  BY <1>9, Groups, PositionsInBound DEF Outside
<1>11. R \cap G = {p \in R : BitOffset(p) = o}
  BY <1>8, <1>9, Zenon DEF AsSets!Group, BitOffset
<1>12. T \subseteq Nat
  BY OneBitset
<1>13. [z \in Bitsets |-> Members(z)][x] = S
  BY AbstractState
<1>14. i \in AsSets!Below(MaxBits)
  BY Zenon DEF AsSets!Below
<1>15. Within(o, w) = {p \in R : BitOffset(p) = o}
  <2> HIDE DEF R, T, k, j, o
  <2> QED
    BY <1>3, <1>7, <1>8, <1>12, Zenon DEF Within
<1>16. Positions(d) = (S \ G) \cup (R \cap G)
  BY <1>6, <1>10, <1>11, <1>15, Zenon
<1> HIDE DEF d, S, R, G
<1>17. BitsetTypeOK' /\ AsSets!Changed(x, (S \ G) \cup (R \cap G))
  BY <1>4, <1>6, <1>16, ChangesSet
<1> QED
  BY <1>13, <1>14, <1>17, Zenon DEF AsSets!Combine, R, G

\* The words that are copied.
Copied(x, y) ==
    [o \in DOMAIN Data(x) |-> IF o \in Common(x, y) THEN Data(y)[o] ELSE Data(x)[o]]

\* The argument has at least as many words: all of them are copied.
LEMMA LongerContent ==
    ASSUME WordAssumption, MaxBits \in Nat, BitsetTypeOK, NEW x \in Bitsets, NEW y \in Bitsets,
           SetContentFromBitset(x, y), BitLength(Size(x)) < BitLength(Size(y))
    PROVE  BitsetTypeOK' /\ AsSets!Combine(x, y)
<1> DEFINE k == BitLength(Size(x))
           j == BitLength(Size(y))
           n == Size(x)
           m == Size(y)
           S == Positions(Data(x))
           T == Positions(Data(y))
           d == Copied(x, y)
           R == AsSets!Shared(x, y)
<1>1. /\ k \in Nat /\ Data(x) \in Arrays(k) /\ DOMAIN Data(x) = 0 .. k - 1
      /\ S \subseteq Nat /\ n \in Nat /\ Cardinality(DOMAIN Data(x)) = k
  BY OneBitset, PositionsOf
<1>2. j \in Nat /\ Data(y) \in Arrays(j) /\ m \in Nat /\ Cardinality(DOMAIN Data(y)) = j
  BY OneBitset, PositionsOf
<1>3. \A o \in 0 .. k - 1 : o \in Common(x, y) <=> o \in 0 .. j - 1
  BY CommonWords
<1>4. Common(x, y) # {}
  BY DEF SetContentFromBitset
<1>5. k > 0
  BY <1>1, <1>4, CommonWords
<1>6. d \in Arrays(k) /\ \A o \in 0 .. k - 1 : d[o] = Data(y)[o] /\ o \in 0 .. j - 1
  <2>1. \A o \in 0 .. j - 1 : Data(y)[o] \in Word
    BY <1>2 DEF Arrays
  <2>2. \A o \in 0 .. k - 1 : o \in 0 .. j - 1
    BY <1>1, <1>2
  <2> QED
    BY <1>1, <1>3, <2>1, <2>2 DEF Copied, Arrays
<1>7. DataBecomes(x, d)
  <2>1. ~(Cardinality(DOMAIN Data(x)) >= Cardinality(DOMAIN Data(y)))
    BY <1>1, <1>2
  <2>2. Content(x, y) = d
    BY <2>1, Zenon DEF Content, Copied
  <2> QED
    BY <2>2 DEF SetContentFromBitset
<1>8. R = {p \in T : BitOffset(p) \in 0 .. k - 1} /\ R \in SUBSET Nat
  BY SharedIs
<1>9. ASSUME NEW p \in Nat, BitOffset(p) \in 0 .. k - 1 PROVE p \in 0 .. m - 1
  <2>1. m > 0
    <3>1. m = 0 => j = 0
      BY <1>2, Lengths
    <3> QED
      BY <1>1, <1>2, <1>5, <3>1
  <2>2. m - 1 \in Nat /\ j = BitOffset(m - 1) + 1
    BY <1>2, <2>1, Lengths
  <2>3. BitOffset(p) \in Nat /\ BitOffset(m - 1) \in Nat
    BY <2>2, Division
  <2>4. BitOffset(p) < BitOffset(m - 1)
    BY <1>1, <1>9, <2>2, <2>3
  <2>5. p < m - 1
    BY <2>2, <2>4, Ordered
  <2> QED
    BY <1>2, <2>5
<1>10. S \ (0 .. m - 1) = {} /\ R \subseteq 0 .. m - 1
  <2>1. \A p \in S : BitOffset(p) \in 0 .. k - 1
    BY <1>1, PositionsOf
  <2> HIDE DEF S, R, k
  <2> QED
    BY <1>1, <1>8, <1>9, <2>1, Zenon
<1>11. \A p \in Nat : p \in T <=> BitOffset(p) \in 0 .. j - 1 /\ BitPos(p) \in Data(y)[BitOffset(p)]
  BY <1>2, PositionsOf
<1>12. /\ [z \in Bitsets |-> Members(z)][x] = S
       /\ [z \in Bitsets |-> Size(z)][y] = m
  BY AbstractState
<1> HIDE DEF d, S, T, R
<1>13. \A p \in Nat : p \in R <=>
           BitOffset(p) \in 0 .. k - 1 /\ BitPos(p) \in d[BitOffset(p)]
  <2> HIDE DEF k, j
  <2> QED
    BY <1>6, <1>8, <1>11, Zenon
<1>14. BitsetTypeOK' /\ AsSets!Changed(x, R)
  BY <1>6, <1>7, <1>8, <1>13, CombinesSet
<1>15. (R \cap (0 .. m - 1)) \cup (S \ (0 .. m - 1)) = R
  BY <1>10, Zenon
<1>16. AsSets!Below(m) = 0 .. m - 1
  BY DEF AsSets!Below
<1> QED
  BY <1>12, <1>14, <1>15, <1>16, Zenon DEF AsSets!Combine, R

\* The argument has no more words: of its last one, the bits below its size.
LEMMA ShorterContent ==
    ASSUME WordAssumption, MaxBits \in Nat, BitsetTypeOK, NEW x \in Bitsets, NEW y \in Bitsets,
           SetContentFromBitset(x, y), ~(BitLength(Size(x)) < BitLength(Size(y)))
    PROVE  BitsetTypeOK' /\ AsSets!Combine(x, y)
<1> DEFINE k == BitLength(Size(x))
           j == BitLength(Size(y))
           n == Size(x)
           m == Size(y)
           S == Positions(Data(x))
           T == Positions(Data(y))
           last == Max(Common(x, y))
           high == ShiftUp(AllBitsButLsb, BitPos(m - 1))
           w == (Copied(x, y)[last] \ high) \cup (Data(x)[last] \cap high)
           d == Put(Copied(x, y), last, w)
           R == AsSets!Shared(x, y)
           U == (R \cap (0 .. m - 1)) \cup (S \ (0 .. m - 1))
<1>1. /\ k \in Nat /\ Data(x) \in Arrays(k) /\ DOMAIN Data(x) = 0 .. k - 1
      /\ S \subseteq Nat /\ n \in Nat /\ Cardinality(DOMAIN Data(x)) = k
  BY OneBitset, PositionsOf
<1>2. /\ j \in Nat /\ Data(y) \in Arrays(j) /\ m \in Nat /\ Cardinality(DOMAIN Data(y)) = j
      /\ T \subseteq Nat
  BY OneBitset, PositionsOf
<1>3. Common(x, y) = 0 .. j - 1
  <2>1. \A o \in 0 .. j - 1 : o \in 0 .. k - 1
    BY <1>1, <1>2
  <2> QED
    BY <2>1, CommonWords
<1>4. Common(x, y) # {}
  BY DEF SetContentFromBitset
<1>5. j > 0 /\ m > 0
  <2>1. j > 0
    BY <1>2, <1>3, <1>4
  <2>2. m # 0
    BY <1>2, <2>1, Lengths
  <2> QED
    BY <1>2, <2>1, <2>2
<1>6. last = j - 1 /\ last \in 0 .. k - 1 /\ last \in 0 .. j - 1
  <2>1. j - 1 \in 0 .. j - 1 /\ \A o \in 0 .. j - 1 : o <= j - 1
    BY <1>2, <1>5
  <2>2. \A o \in 0 .. j - 1 : (\A i \in 0 .. j - 1 : o >= i) => o = j - 1
    BY <1>2, <2>1
  <2>3. Max(0 .. j - 1) = j - 1
    BY <2>1, <2>2 DEF Max
  <2> QED
    BY <1>1, <1>2, <1>3, <1>5, <2>3
<1>7. m - 1 \in Nat /\ last = BitOffset(m - 1) /\ BitPos(m - 1) \in Bit
  <2>1. m - 1 \in Nat
    BY <1>2, <1>5
  <2>2. j = BitOffset(m - 1) + 1 /\ BitOffset(m - 1) \in Nat /\ BitPos(m - 1) \in Bit
    BY <1>2, <1>5, <2>1, Lengths, Division
  <2> QED
    BY <1>6, <2>1, <2>2
<1>8. high = {b \in Bit : b > BitPos(m - 1)}
  BY <1>7, Masks
<1>9. /\ Copied(x, y) \in Arrays(k)
      /\ \A o \in 0 .. k - 1 :
            Copied(x, y)[o] = IF o \in 0 .. j - 1 THEN Data(y)[o] ELSE Data(x)[o]
  <2>1. /\ \A o \in 0 .. k - 1 : Data(x)[o] \in Word
        /\ \A o \in 0 .. j - 1 : Data(y)[o] \in Word
    BY <1>1, <1>2 DEF Arrays
  <2> QED
    BY <1>1, <1>3, <2>1 DEF Copied, Arrays
<1>10. DataBecomes(x, d)
  <2>1. Cardinality(DOMAIN Data(x)) >= Cardinality(DOMAIN Data(y))
    BY <1>1, <1>2
  <2>2. Content(x, y) = d
    BY <2>1, Zenon DEF Content, Copied, Put
  <2> QED
    BY <2>2 DEF SetContentFromBitset
<1>11. R = {p \in T : BitOffset(p) \in 0 .. k - 1} /\ R \in SUBSET Nat
  BY SharedIs
<1>12. U \in SUBSET Nat
  BY <1>1, <1>11, Zenon
<1>13. \A p \in Nat : p \in S <=> BitOffset(p) \in 0 .. k - 1 /\ BitPos(p) \in Data(x)[BitOffset(p)]
  BY <1>1, PositionsOf
<1>14. \A p \in Nat : p \in T <=> BitOffset(p) \in 0 .. j - 1 /\ BitPos(p) \in Data(y)[BitOffset(p)]
  BY <1>2, PositionsOf
<1>15. /\ [z \in Bitsets |-> Members(z)][x] = S
       /\ [z \in Bitsets |-> Size(z)][y] = m
  BY AbstractState
<1>16. /\ Data(x)[last] \in Word /\ Data(y)[last] \in Word
       /\ w = (Data(y)[last] \ high) \cup (Data(x)[last] \cap high)
  BY <1>1, <1>2, <1>6, <1>9 DEF Arrays
<1>17. d \in Arrays(k) /\ \A o \in 0 .. k - 1 : d[o] = IF o = last THEN w ELSE Copied(x, y)[o]
  <2>1. w \in Word
    BY <1>16 DEF Word
  <2> HIDE DEF w, last
  <2> QED
    BY <1>6, <1>9, <2>1 DEF Arrays, Put
<1> HIDE DEF d, S, T, R, w, high, last
<1>18. ASSUME NEW p \in Nat
       PROVE  p \in U <=> BitOffset(p) \in 0 .. k - 1 /\ BitPos(p) \in d[BitOffset(p)]
  <2> DEFINE o == BitOffset(p)
             b == BitPos(p)
  <2>1. o \in Nat /\ b \in Bit
    BY Division
  <2>2. p \in 0 .. m - 1 <=> p < m
    BY <1>2
  <2>3. p \in R <=> p \in T /\ o \in 0 .. k - 1
    BY <1>11, Zenon
  <2>4. p \in U <=> (p \in T /\ o \in 0 .. k - 1 /\ p < m) \/ (p \in S /\ ~(p < m))
    BY <2>2, <2>3, Zenon
  <2> HIDE DEF U
  <2>5. CASE o = last
    <3>1. p < m - 1 \/ p = m - 1 <=> b < BitPos(m - 1) \/ b = BitPos(m - 1)
      BY <1>7, <2>5, Ordered
    <3>2. p < m <=> b \notin high
      <4>1. p < m <=> p < m - 1 \/ p = m - 1
        BY <1>2
      <4>2. b \notin high <=> b < BitPos(m - 1) \/ b = BitPos(m - 1)
        BY <1>7, <1>8, <2>1 DEF Bit, WordAssumption
      <4> QED
        BY <3>1, <4>1, <4>2
    <3>3. o \in 0 .. k - 1 /\ o \in 0 .. j - 1 /\ d[o] = w
      BY <1>6, <1>17, <2>5
    <3>4. b \in w <=> (b \in Data(y)[o] /\ b \notin high) \/ (b \in Data(x)[o] /\ b \in high)
      BY <1>16, <2>5
    <3> QED
      BY <1>13, <1>14, <2>4, <3>2, <3>3, <3>4, Zenon
  <2>6. CASE o # last /\ o < last
    <3>1. o \in 0 .. k - 1 /\ o \in 0 .. j - 1
      BY <1>1, <1>2, <1>6, <2>1, <2>6
    <3>2. d[o] = Data(y)[o]
      BY <1>9, <1>17, <2>6, <3>1
    <3>3. p < m
      <4>1. p < m - 1
        BY <1>7, <2>6, Ordered
      <4> QED
        BY <1>2, <4>1
    <3> QED
      BY <1>14, <2>4, <3>1, <3>2, <3>3, Zenon
  <2>7. CASE o # last /\ ~(o < last)
    <3>1. o \notin 0 .. j - 1 /\ last < o
      BY <1>2, <1>6, <2>1, <2>7
    <3>2. o \in 0 .. k - 1 => d[o] = Data(x)[o]
      BY <1>9, <1>17, <2>7, <3>1
    <3>3. ~(p < m)
      <4>1. m - 1 < p
        BY <1>7, <3>1, Ordered
      <4> QED
        BY <1>2, <4>1
    <3> QED
      BY <1>13, <1>14, <2>4, <3>1, <3>2, <3>3, Zenon
  <2> QED
    BY <2>5, <2>6, <2>7
<1>19. BitsetTypeOK' /\ AsSets!Changed(x, U)
  <2> HIDE DEF U
  <2> QED
    BY <1>10, <1>12, <1>17, <1>18, CombinesSet
<1>20. AsSets!Below(m) = 0 .. m - 1
  BY DEF AsSets!Below
<1> QED
  BY <1>15, <1>19, <1>20, Zenon DEF AsSets!Combine, R

\* The bit is put in or out: a step of one bitset.
LEMMA SetBitFromOthersStep ==
    ASSUME WordAssumption, MaxBits \in Nat, BitsetTypeOK, NEW x \in Bitsets, NEW y \in Bitsets,
           NEW i \in 0 .. MaxBits - 1, NEW z \in Bitsets, NEW use1 \in BOOLEAN,
           NEW use2 \in BOOLEAN, SetBitFromOtherBitSets(x, i, y, use1, z, use2)
    PROVE  BitsetTypeOK' /\ AsSets!Change(x)
<1> DEFINE o == BitOffset(i)
           b == BitPos(i)
           v == Data(x)[o]
           Bits(u, use) == IF use THEN {b} \cap u ELSE {}
           w == Xor(Xor(Xor(v, Bits(v, TRUE)), Bits(Data(y)[o], use1)),
                    Bits(Data(z)[o], use2))
<1>1. DataBecomes(x, [Data(x) EXCEPT ![o] = w])
  BY DEF SetBitFromOtherBitSets
<1>2. i \in Nat /\ o \in 0 .. BitLength(Size(x)) - 1
  BY OneBitset DEF SetBitFromOtherBitSets
<1>3. w = v \cup {b} \/ w = v \ {b}
  <2>1. Xor(v, Bits(v, TRUE)) = v \ {b}
    BY DEF Xor
  <2>2. ASSUME NEW u PROVE Bits(u, use1) \in {{}, {b}} /\ Bits(u, use2) \in {{}, {b}}
    OBVIOUS
  <2>3. ASSUME NEW t \in {{}, {b}}
        PROVE  /\ Xor(v \ {b}, t) \in {v \ {b}, v \cup {b}}
               /\ Xor(v \cup {b}, t) \in {v \ {b}, v \cup {b}}
    BY DEF Xor
  <2> HIDE DEF Bits
  <2> QED
    BY <2>1, <2>2, <2>3
<1>4. ASSUME w = v \cup {b} PROVE BitsetTypeOK' /\ AsSets!Change(x)
  <2>1. DataBecomes(x, SetBit(Data(x), i))
    BY <1>1, <1>4 DEF SetBit
  <2> QED
    BY <1>2, <2>1, SetStep
<1>5. ASSUME w = v \ {b} PROVE BitsetTypeOK' /\ AsSets!Change(x)
  <2>1. DataBecomes(x, ClearBit(Data(x), i))
    BY <1>1, <1>5 DEF ClearBit
  <2> QED
    BY <1>2, <2>1, ClearStep
<1> QED
  BY <1>3, <1>4, <1>5

LEMMA CombineStep ==
    ASSUME WordAssumption, MaxBits \in Nat, BitsetTypeOK, NEW x \in Bitsets, NEW y \in Bitsets,
           Combine(x, y)
    PROVE  BitsetTypeOK' /\ (AsSets!Change(x) \/ AsSets!Combine(x, y))
<1>1. CASE SetContentFromBitset(x, y)
  BY <1>1, LongerContent, ShorterContent
<1>2. CASE Intersection(x, y)
  BY <1>2, IntersectionStep
<1>3. CASE UnionWith(x, y)
  BY <1>3, UnionStep
<1>4. CASE \E i \in 0 .. MaxBits - 1 : CopyBucket(x, y, i)
  BY <1>4, CopyBucketStep
<1>5. ASSUME NEW i \in 0 .. MaxBits - 1, NEW z \in Bitsets, NEW use1 \in BOOLEAN,
             NEW use2 \in BOOLEAN, SetBitFromOtherBitSets(x, i, y, use1, z, use2)
      PROVE  BitsetTypeOK' /\ AsSets!Change(x)
  BY <1>5, SetBitFromOthersStep
<1> QED
  BY <1>1, <1>2, <1>3, <1>4, <1>5, Zenon DEF Combine

-----------------------------------------------------------------------------
\* Sets of natural numbers have a least element, and a bounded one a greatest.
LEMMA LeastElement ==
    ASSUME NEW T, T \subseteq Nat, T # {}
    PROVE  \E x \in T : \A y \in T : x <= y
<1>1. PICK x \in T : \A y \in T : <<y, x>> \notin OpToRel(<, Nat)
  BY WFMin, NatLessThanWellFounded, Zenon
<1>2. \A y \in T : ~(y < x)
  BY <1>1, T \subseteq Nat, Zenon DEF OpToRel
<1> QED
  BY <1>2

LEMMA MinIs ==
    ASSUME NEW T, T \subseteq Int, NEW v \in T, \A y \in T : v <= y
    PROVE  Min(T) = v
<1>1. \A x \in T : (\A y \in T : x <= y) => x = v
  OBVIOUS
<1> QED
  BY <1>1 DEF Min

LEMMA MaxIs ==
    ASSUME NEW T, T \subseteq Int, NEW v \in T, \A y \in T : y <= v
    PROVE  Max(T) = v
<1>1. \A x \in T : (\A y \in T : x >= y) => x = v
  OBVIOUS
<1>2. \A y \in T : v >= y
  OBVIOUS
<1> QED
  BY <1>1, <1>2 DEF Max

LEMMA Ends ==
    ASSUME NEW b \in Nat, NEW T, T \subseteq 0 .. b, T # {}
    PROVE  /\ Min(T) \in T /\ \A y \in T : Min(T) <= y
           /\ Max(T) \in T /\ \A y \in T : y <= Max(T)
<1>0. T \subseteq Nat /\ T \subseteq Int
  OBVIOUS
<1>1. PICK x \in T : \A y \in T : x <= y
  BY <1>0, LeastElement
<1>2. Min(T) = x
  BY <1>0, <1>1, MinIs
<1> DEFINE D == {d \in 0 .. b : b - d \in T}
<1>3. D \subseteq Nat /\ D # {}
  <2>1. b - x \in 0 .. b /\ b - (b - x) = x
    OBVIOUS
  <2>2. b - x \in D
    BY <2>1
  <2>3. D \subseteq Nat
    OBVIOUS
  <2> HIDE DEF D
  <2> QED
    BY <2>2, <2>3
<1>4. PICK d \in D : \A e \in D : d <= e
  <2> HIDE DEF D
  <2> QED
    BY <1>3, LeastElement
<1>5. b - d \in T /\ d \in 0 .. b
  BY <1>4
<1>6. ASSUME NEW y \in T PROVE y <= b - d
  <2>1. y \in 0 .. b /\ b - y \in 0 .. b /\ b - (b - y) = y
    OBVIOUS
  <2>2. d <= b - y
    BY <1>4, <2>1
  <2> QED
    BY <1>5, <2>1, <2>2
<1>7. Max(T) = b - d
  BY <1>0, <1>5, <1>6, MaxIs
<1> QED
  BY <1>1, <1>2, <1>5, <1>6, <1>7

\* Induction up to a number, for a set.
LEMMA UpTo ==
    ASSUME NEW n \in Nat, NEW T, 0 \in T,
           \A k \in 0 .. n : k # n /\ k \in T => k + 1 \in T
    PROVE  \A k \in 0 .. n : k \in T
<1> DEFINE Out == {k \in 0 .. n : k \notin T}
<1>1. SUFFICES ASSUME Out # {} PROVE FALSE
  OBVIOUS
<1>2. PICK k \in Out : \A i \in Out : k <= i
  <2>1. Out \subseteq Nat
    OBVIOUS
  <2> HIDE DEF Out
  <2> QED
    BY <1>1, <2>1, LeastElement
<1>3. k \in 0 .. n /\ k \notin T /\ k # 0
  BY <1>2
<1>4. k - 1 \in 0 .. n /\ k - 1 # n /\ ~(k <= k - 1) /\ (k - 1) + 1 = k
  BY <1>3
<1>5. k - 1 \in T
  BY <1>2, <1>4
<1> QED
  BY <1>3, <1>4, <1>5

-----------------------------------------------------------------------------
\* The sparse bitset: the list of what was set.

LEMMA ListedBelowIs ==
    ASSUME NEW N \in Nat, toClear \in Seq(0 .. N - 1), NEW n \in Nat
    PROVE  /\ ListedBelow(n) \in Seq(0 .. n - 1)
           /\ ToSet(ListedBelow(n)) = {i \in ToSet(toClear) : i < n}
<1> DEFINE L == Len(toClear)
           Step(f, k) == IF k = 0 THEN << >>
                         ELSE IF toClear[k] < n THEN Append(f[k - 1], toClear[k])
                         ELSE f[k - 1]
           Good == {m \in 0 .. L : \E f : f = [k \in 0 .. m |-> Step(f, k)]}
<1>0. L \in Nat
  BY LenProperties
<1>1. 0 \in Good
  <2> DEFINE f == [k \in 0 .. 0 |-> << >>]
  <2>1. f = [k \in 0 .. 0 |-> Step(f, k)]
    OBVIOUS
  <2>2. 0 \in 0 .. L
    BY <1>0
  <2> HIDE DEF f, Step, L
  <2> QED
    BY <2>1, <2>2
<1>2. ASSUME NEW m \in 0 .. L, m # L, m \in Good PROVE m + 1 \in Good
  <2>1. PICK g : g = [k \in 0 .. m |-> Step(g, k)]
    BY <1>2
  <2> DEFINE f == [k \in 0 .. m + 1 |-> IF k = m + 1 THEN Step(g, m + 1) ELSE g[k]]
  <2>2. ASSUME NEW k \in 0 .. m + 1 PROVE f[k] = Step(f, k)
    <3>1. f[k] = Step(g, k)
      <4>1. CASE k = m + 1
        BY <4>1
      <4>2. CASE k # m + 1
        <5>1. k \in 0 .. m
          BY <1>0, <4>2
        <5> HIDE DEF Step
        <5> QED
          BY <2>1, <4>2, <5>1
      <4> QED
        BY <4>1, <4>2
    <3>2. CASE k = 0
      BY <3>1, <3>2
    <3>3. CASE k # 0
      <4>1. k - 1 \in 0 .. m + 1 /\ k - 1 # m + 1
        BY <1>0, <3>3
      <4>2. f[k - 1] = g[k - 1]
        BY <4>1
      <4>3. Step(f, k) = Step(g, k)
        <5> HIDE DEF f
        <5> QED
          BY <3>3, <4>2
      <4> QED
        BY <3>1, <4>3
    <3> QED
      BY <3>2, <3>3
  <2>3. f = [k \in 0 .. m + 1 |-> Step(f, k)]
    <3> DEFINE h == [k \in 0 .. m + 1 |-> Step(f, k)]
    <3>1. \A k \in 0 .. m + 1 : f[k] = h[k]
      <4> HIDE DEF f, Step
      <4> QED
        BY <2>2
    <3>2. DOMAIN f = 0 .. m + 1 /\ DOMAIN h = 0 .. m + 1
      OBVIOUS
    <3>3. f = [k \in DOMAIN f |-> f[k]] /\ h = [k \in DOMAIN h |-> h[k]]
      OBVIOUS
    <3> HIDE DEF f, h
    <3>4. f = h
      BY <3>1, <3>2, <3>3
    <3> QED
      BY <3>4 DEF h
  <2>4. m + 1 \in 0 .. L
    BY <1>0, <1>2
  <2> HIDE DEF f, Step, L
  <2> QED
    BY <2>3, <2>4
<1>3. L \in Good
  <2>1. \A k \in 0 .. L : k \in Good
    <3> HIDE DEF Good, L
    <3> QED
      BY <1>0, <1>1, <1>2, UpTo
  <2>2. L \in 0 .. L
    BY <1>0
  <2> QED
    BY <2>1, <2>2
<1> DEFINE F == CHOOSE f : f = [k \in 0 .. L |-> Step(f, k)]
<1>4. F = [k \in 0 .. L |-> Step(F, k)]
  <2>1. \E f : f = [k \in 0 .. L |-> Step(f, k)]
    BY <1>3
  <2> HIDE DEF Step, L
  <2> QED
    BY <2>1
<1>5. ListedBelow(n) = F[L]
  BY DEF ListedBelow
<1> HIDE DEF F
<1>6. \A k \in 0 .. L : F[k] = Step(F, k)
  <2> HIDE DEF Step, L
  <2> QED
    BY <1>4
<1>7. \A k \in 1 .. L : toClear[k] \in 0 .. N - 1
  BY ElementOfSeq
<1> DEFINE Right == {k \in 0 .. L : /\ F[k] \in Seq(0 .. n - 1)
                                    /\ ToSet(F[k]) = {i \in 0 .. n - 1 :
                                          \E q \in 1 .. k : toClear[q] = i}}
<1>8. 0 \in Right
  <2>1. 0 \in 0 .. L /\ F[0] = << >>
    BY <1>0, <1>6
  <2>2. << >> \in Seq(0 .. n - 1) /\ ToSet(<< >>) = {}
    BY DEF ToSet
  <2>3. {i \in 0 .. n - 1 : \E q \in 1 .. 0 : toClear[q] = i} = {}
    OBVIOUS
  <2> HIDE DEF L
  <2> QED
    BY <2>1, <2>2, <2>3
<1>9. ASSUME NEW k \in 0 .. L, k # L, k \in Right PROVE k + 1 \in Right
  <2>1. k + 1 \in 0 .. L /\ k + 1 # 0 /\ (k + 1) - 1 = k /\ k + 1 \in 1 .. L
    BY <1>0, <1>9
  <2> DEFINE c == toClear[k + 1]
  <2>2. c \in Nat
    BY <1>7, <2>1
  <2>3. /\ F[k] \in Seq(0 .. n - 1)
        /\ ToSet(F[k]) = {i \in 0 .. n - 1 : \E q \in 1 .. k : toClear[q] = i}
    BY <1>9
  <2>4. \A i : (\E q \in 1 .. k + 1 : toClear[q] = i) <=> (\E q \in 1 .. k : toClear[q] = i) \/ c = i
    <3>1. \A q : q \in 1 .. k + 1 <=> q \in 1 .. k \/ q = k + 1
      BY <1>0, <2>1
    <3> QED
      BY <3>1, Zenon
  <2>5. F[k + 1] = IF c < n THEN Append(F[k], c) ELSE F[k]
    BY <1>6, <2>1
  <2> HIDE DEF c, L
  <2>6. CASE c < n
    <3>1. c \in 0 .. n - 1
      BY <2>2, <2>6
    <3>2. Append(F[k], c) \in Seq(0 .. n - 1)
      BY <2>3, <3>1, AppendProperties
    <3>3. ToSet(Append(F[k], c)) = ToSet(F[k]) \cup {c}
      <4>1. /\ Len(Append(F[k], c)) = Len(F[k]) + 1
            /\ \A q \in 1 .. Len(F[k]) : Append(F[k], c)[q] = F[k][q]
            /\ Append(F[k], c)[Len(F[k]) + 1] = c
            /\ Len(F[k]) \in Nat
        BY <2>3, <3>1, AppendProperties
      <4>2. DOMAIN F[k] = 1 .. Len(F[k]) /\ DOMAIN Append(F[k], c) = 1 .. Len(Append(F[k], c))
        BY <2>3, <3>2, LenProperties
      <4> QED
        BY <4>1, <4>2 DEF ToSet
    <3> QED
      BY <2>1, <2>3, <2>4, <2>5, <2>6, <3>1, <3>2, <3>3
  <2>7. CASE ~(c < n)
    <3>1. c \notin 0 .. n - 1
      BY <2>2, <2>7
    <3> QED
      BY <2>1, <2>3, <2>4, <2>5, <2>7, <3>1
  <2> QED
    BY <2>6, <2>7
<1>10. L \in Right
  <2>1. \A k \in 0 .. L : k \in Right
    <3> HIDE DEF Right, L
    <3> QED
      BY <1>0, <1>8, <1>9, UpTo
  <2>2. L \in 0 .. L
    BY <1>0
  <2> QED
    BY <2>1, <2>2
<1>11. ToSet(toClear) = {toClear[q] : q \in 1 .. L}
  BY LenProperties DEF ToSet
<1>12. {i \in 0 .. n - 1 : \E q \in 1 .. L : toClear[q] = i} = {i \in ToSet(toClear) : i < n}
  <2>1. \A q \in 1 .. L : toClear[q] \in 0 .. n - 1 <=> toClear[q] < n
    BY <1>7
  <2> HIDE DEF L
  <2> QED
    BY <1>11, <2>1
<1> QED
  BY <1>5, <1>10, <1>12

\* What is kept of the sparse bitset: its list has positions below its size.
IsSparse(n, d, list) ==
    /\ n \in 0 .. MaxBits
    /\ d \in Arrays(BitLength(n))
    /\ list \in Seq(0 .. n - 1)

SparseInv == IsSparse(sparseSize, sparseData, toClear)

LEMMA SparseFacts ==
    ASSUME WordAssumption, MaxBits \in Nat, SparseInv
    PROVE  /\ sparseSize \in Nat /\ sparseSize \in 0 .. MaxBits
           /\ BitLength(sparseSize) \in Nat
           /\ sparseData \in Arrays(BitLength(sparseSize))
           /\ DOMAIN sparseData = 0 .. BitLength(sparseSize) - 1
           /\ toClear \in Seq(0 .. sparseSize - 1)
           /\ ToSet(toClear) \subseteq 0 .. sparseSize - 1
           /\ Positions(sparseData) \subseteq Nat
           /\ \A p \in Nat : p \in Positions(sparseData) <=>
                 /\ BitOffset(p) \in 0 .. BitLength(sparseSize) - 1
                 /\ BitPos(p) \in sparseData[BitOffset(p)]
<1>1. sparseSize \in Nat /\ sparseSize \in 0 .. MaxBits
  BY DEF SparseInv, IsSparse
<1>2. /\ sparseData \in Arrays(BitLength(sparseSize))
      /\ toClear \in Seq(0 .. sparseSize - 1)
  BY DEF SparseInv, IsSparse
<1>3. BitLength(sparseSize) \in Nat
  BY <1>1, Lengths
<1>4. DOMAIN sparseData = 0 .. BitLength(sparseSize) - 1
  BY <1>2 DEF Arrays
<1>5. ToSet(toClear) \subseteq 0 .. sparseSize - 1
  <2>1. DOMAIN toClear = 1 .. Len(toClear)
    BY <1>2, LenProperties
  <2>2. \A q \in 1 .. Len(toClear) : toClear[q] \in 0 .. sparseSize - 1
    BY <1>2, ElementOfSeq
  <2> QED
    BY <2>1, <2>2 DEF ToSet
<1> QED
  BY <1>1, <1>2, <1>3, <1>4, <1>5, PositionsOf

LEMMA EmptyList ==
    ASSUME NEW S
    PROVE  << >> \in Seq(S) /\ ToSet(<< >>) = {}
BY DEF ToSet

LEMMA ZerosOf ==
    ASSUME WordAssumption, NEW n \in 0 .. MaxBits, MaxBits \in Nat
    PROVE  /\ IsSparse(n, Zeros(BitLength(n)), << >>)
           /\ Positions(Zeros(BitLength(n))) = {}
<1>1. n \in Nat /\ BitLength(n) \in Nat
  BY Lengths
<1>2. Zeros(BitLength(n)) \in Arrays(BitLength(n)) /\ Positions(Zeros(BitLength(n))) = {}
  BY <1>1, NoPositions DEF Zeros
<1> QED
  BY <1>2, EmptyList DEF IsSparse

\* What is in the sparse bitset afterwards, and the positions that are set and
\* not listed: a Resize alone adds to these.
LEMMA SparseBecomes ==
    ASSUME NEW n, NEW d, NEW list, IsSparse(n, d, list),
           sparseSize' = n, sparseData' = d, toClear' = list,
           \A p \in Positions(d) :
               p \in ToSet(list) \/ p \in Unlisted \/ p \in n .. sparseSize - 1
    PROVE  SparseInv' /\ OnlyResizeUnlists
<1>1. SparseInv'
  BY DEF SparseInv, IsSparse
<1>2. Unlisted' = Positions(d) \ ToSet(list)
  BY DEF Unlisted, Positions, IsBitSet, ToSet
<1>3. \A p \in Unlisted' : p \in Unlisted \/ p \in n .. sparseSize - 1
  BY <1>2, Zenon
<1> QED
  BY <1>1, <1>3, Zenon DEF OnlyResizeUnlists

\* Clearing the words of the listed positions leaves none but unlisted ones.
LEMMA SparselyClearedIs ==
    ASSUME WordAssumption, MaxBits \in Nat, SparseInv
    PROVE  /\ SparselyCleared(sparseData) \in Arrays(BitLength(sparseSize))
           /\ Positions(SparselyCleared(sparseData)) \subseteq Unlisted
<1> DEFINE k == BitLength(sparseSize)
           e == SparselyCleared(sparseData)
<1>1. k \in Nat /\ DOMAIN sparseData = 0 .. k - 1
  BY SparseFacts
<1>2. \A o \in 0 .. k - 1 : sparseData[o] \in Word
  BY SparseFacts DEF Arrays
<1>3. /\ e \in Arrays(k)
      /\ \A o \in 0 .. k - 1 :
            e[o] = IF \E i \in ToSet(toClear) : BitOffset(i) = o THEN {} ELSE sparseData[o]
  BY <1>1, <1>2 DEF SparselyCleared, Arrays, Word
<1> HIDE DEF e
<1>4. ASSUME NEW p \in Positions(e) PROVE p \in Unlisted
  <2>1. p \in Nat /\ BitOffset(p) \in 0 .. k - 1 /\ BitPos(p) \in e[BitOffset(p)]
    BY <1>1, <1>3, PositionsOf
  <2>2. /\ ~\E i \in ToSet(toClear) : BitOffset(i) = BitOffset(p)
        /\ BitPos(p) \in sparseData[BitOffset(p)]
    <3> HIDE DEF k
    <3> QED
      BY <1>3, <2>1, Zenon
  <2>3. p \notin ToSet(toClear)
    BY <2>2, Zenon
  <2>4. p \in Positions(sparseData)
    BY <2>1, <2>2, SparseFacts
  <2> QED
    BY <2>3, <2>4, Zenon DEF Unlisted
<1>5. Positions(e) \subseteq Unlisted
  BY <1>4, Zenon
<1> QED
  BY <1>3, <1>5 DEF e

LEMMA SparseResizeStep ==
    ASSUME WordAssumption, MaxBits \in Nat, SparseInv, NEW n \in 0 .. MaxBits, SparseResize(n)
    PROVE  SparseInv' /\ OnlyResizeUnlists
<1> DEFINE k == BitLength(n)
           S == Positions(sparseData)
           d == Resized(sparseData, k)
<1>1. n \in Nat /\ k \in Nat
  BY Lengths
<1>2. d \in Arrays(k) /\ Positions(d) \subseteq S
  <2>1. sparseData \in Arrays(BitLength(sparseSize)) /\ BitLength(sparseSize) \in Nat
    BY SparseFacts
  <2>2. /\ Resized(sparseData, k) \in Arrays(k)
        /\ Positions(Resized(sparseData, k))
               = {p \in Positions(sparseData) : BitOffset(p) \in 0 .. k - 1}
    <3> HIDE DEF k
    <3> QED
      BY <1>1, <2>1, ResizedPositions
  <2> QED
    BY <2>2
<1>3. \A p \in S : p \notin ToSet(toClear) => p \in Unlisted
  BY Zenon DEF Unlisted
<1>4. sparseSize' = n /\ sparseData' = d
  BY DEF SparseResize
<1> HIDE DEF d, S
<1>5. CASE n < sparseSize
  <2>1. toClear' = ListedBelow(n)
    BY <1>5 DEF SparseResize
  <2>2. /\ ListedBelow(n) \in Seq(0 .. n - 1)
        /\ ToSet(ListedBelow(n)) = {i \in ToSet(toClear) : i < n}
    BY <1>1, SparseFacts, ListedBelowIs
  <2>3. IsSparse(n, d, ListedBelow(n))
    BY <1>2, <2>2 DEF IsSparse
  <2>4. \A p \in ToSet(toClear) : p < n \/ p \in n .. sparseSize - 1
    BY <1>1, SparseFacts
  <2>5. \A p \in Positions(d) :
            p \in ToSet(ListedBelow(n)) \/ p \in Unlisted \/ p \in n .. sparseSize - 1
    BY <1>2, <1>3, <2>2, <2>4, Zenon
  <2> QED
    BY <1>4, <2>1, <2>3, <2>5, SparseBecomes
<1>6. CASE ~(n < sparseSize)
  <2>1. toClear' = toClear
    BY <1>6 DEF SparseResize
  <2>2. 0 .. sparseSize - 1 \subseteq 0 .. n - 1
    BY <1>1, <1>6, SparseFacts
  <2>3. toClear \in Seq(0 .. n - 1)
    BY <2>2, SparseFacts, SeqMonotonic
  <2>4. IsSparse(n, d, toClear)
    BY <1>2, <2>3 DEF IsSparse
  <2>5. \A p \in Positions(d) : p \in ToSet(toClear) \/ p \in Unlisted
    BY <1>2, <1>3, Zenon
  <2> QED
    BY <1>4, <2>1, <2>4, <2>5, SparseBecomes
<1> QED
  BY <1>5, <1>6

LEMMA SparseSetStep ==
    ASSUME WordAssumption, MaxBits \in Nat, SparseInv, NEW i \in 0 .. MaxBits - 1, SparseSet(i)
    PROVE  SparseInv' /\ OnlyResizeUnlists
<1> DEFINE S == Positions(sparseData)
           d == SetBit(sparseData, i)
<1>1. i \in 0 .. sparseSize - 1 /\ i \in Nat
  BY SparseFacts DEF SparseSet
<1>2. BitOffset(i) \in 0 .. BitLength(sparseSize) - 1
  BY <1>1, SparseFacts, Holds
<1>3. d \in Arrays(BitLength(sparseSize)) /\ Positions(d) = S \cup {i}
  BY <1>1, <1>2, SparseFacts, BitChanges
<1>4. sparseSize' = sparseSize /\ sparseData' = d
  BY DEF SparseSet
<1>5. \A p \in S : p \in ToSet(toClear) \/ p \in Unlisted
  BY Zenon DEF Unlisted
<1> HIDE DEF d
<1>6. CASE IsBitSet(sparseData, i)
  <2>1. i \in S
    BY <1>1, <1>2, <1>6, SparseFacts DEF IsBitSet
  <2>2. toClear' = toClear
    BY <1>6 DEF SparseSet
  <2>3. IsSparse(sparseSize, d, toClear)
    BY <1>3, SparseFacts DEF IsSparse
  <2>4. \A p \in Positions(d) : p \in ToSet(toClear) \/ p \in Unlisted
    BY <1>3, <1>5, <2>1
  <2> QED
    BY <1>4, <2>2, <2>3, <2>4, SparseBecomes
<1>7. CASE ~IsBitSet(sparseData, i)
  <2>1. toClear' = Append(toClear, i)
    BY <1>7 DEF SparseSet
  <2>2. toClear \in Seq(0 .. sparseSize - 1)
    BY SparseFacts
  <2>3. /\ Append(toClear, i) \in Seq(0 .. sparseSize - 1)
        /\ Len(Append(toClear, i)) = Len(toClear) + 1
        /\ \A q \in 1 .. Len(toClear) : Append(toClear, i)[q] = toClear[q]
        /\ Append(toClear, i)[Len(toClear) + 1] = i
        /\ Len(toClear) \in Nat
    BY <1>1, <2>2, AppendProperties
  <2>4. ToSet(Append(toClear, i)) = ToSet(toClear) \cup {i}
    <3>1. /\ DOMAIN toClear = 1 .. Len(toClear)
          /\ DOMAIN Append(toClear, i) = 1 .. Len(Append(toClear, i))
      BY <2>2, <2>3, LenProperties
    <3> QED
      BY <2>3, <3>1 DEF ToSet
  <2>5. \A p \in Positions(d) : p \in ToSet(Append(toClear, i)) \/ p \in Unlisted
    BY <1>3, <1>5, <2>4
  <2>6. IsSparse(sparseSize, d, Append(toClear, i))
    <3>1. sparseSize \in 0 .. MaxBits
      BY SparseFacts
    <3> QED
      BY <1>3, <2>3, <3>1 DEF IsSparse
  <2> QED
    BY <1>4, <2>1, <2>5, <2>6, SparseBecomes
<1> QED
  BY <1>6, <1>7

LEMMA SparseStep ==
    ASSUME WordAssumption, MaxBits \in Nat, SparseInv, SparseNext
    PROVE  SparseInv' /\ OnlyResizeUnlists
<1>1. ASSUME SparseClearAll PROVE SparseInv' /\ OnlyResizeUnlists
  <2>1. IsSparse(sparseSize, SparselyCleared(sparseData), << >>)
    BY SparseFacts, SparselyClearedIs, EmptyList DEF IsSparse
  <2>2. \A p \in Positions(SparselyCleared(sparseData)) : p \in Unlisted
    BY SparselyClearedIs
  <2> QED
    BY <1>1, <2>1, <2>2, SparseBecomes DEF SparseClearAll
<1>2. ASSUME SparseFullClear PROVE SparseInv' /\ OnlyResizeUnlists
  <2>1. /\ IsSparse(sparseSize, Zeros(BitLength(sparseSize)), << >>)
        /\ Positions(Zeros(BitLength(sparseSize))) = {}
    BY SparseFacts, ZerosOf
  <2> QED
    BY <1>2, <2>1, SparseBecomes DEF SparseFullClear
<1>3. ASSUME NotifyAllClear PROVE SparseInv' /\ OnlyResizeUnlists
  <2>1. \A p \in Positions(sparseData) : p \in Unlisted
    <3>1. \A p \in ToSet(toClear) : ~IsBitSet(sparseData, p)
      BY <1>3 DEF NotifyAllClear
    <3>2. \A p \in Positions(sparseData) : IsBitSet(sparseData, p)
      BY DEF Positions
    <3> QED
      BY <3>1, <3>2, Zenon DEF Unlisted
  <2>2. IsSparse(sparseSize, sparseData, << >>)
    BY SparseFacts, EmptyList DEF IsSparse
  <2> QED
    BY <1>3, <2>1, <2>2, SparseBecomes DEF NotifyAllClear
<1>4. ASSUME NEW n \in 0 .. MaxBits, SparseClearAndResize(n)
      PROVE  SparseInv' /\ OnlyResizeUnlists
  <2> DEFINE e == SparselyCleared(sparseData)
             d == Resized(e, BitLength(n))
             short == Len(toClear) * SparseThreshold < n
  <2>1. n \in Nat /\ BitLength(n) \in Nat
    BY Lengths
  <2>2. /\ e \in Arrays(BitLength(sparseSize)) /\ Positions(e) \subseteq Unlisted
        /\ BitLength(sparseSize) \in Nat
    BY SparseFacts, SparselyClearedIs
  <2> HIDE DEF e
  <2>3. d \in Arrays(BitLength(n)) /\ Positions(d) \subseteq Positions(e)
    BY <2>1, <2>2, ResizedPositions
  <2>4. IsSparse(n, d, << >>)
    BY <2>3, EmptyList DEF IsSparse
  <2>5. IsSparse(n, Zeros(BitLength(n)), << >>) /\ Positions(Zeros(BitLength(n))) = {}
    BY ZerosOf
  <2>6. /\ sparseSize' = n /\ toClear' = << >>
        /\ sparseData' = IF short THEN d ELSE Zeros(BitLength(n))
    BY <1>4 DEF SparseClearAndResize, e
  <2> HIDE DEF d, short
  <2>7. CASE short
    BY <2>2, <2>3, <2>4, <2>6, <2>7, SparseBecomes
  <2>8. CASE ~short
    BY <2>5, <2>6, <2>8, SparseBecomes
  <2> QED
    BY <2>7, <2>8
<1>5. ASSUME NEW n \in 0 .. MaxBits, SparseResize(n) PROVE SparseInv' /\ OnlyResizeUnlists
  BY <1>5, SparseResizeStep
<1>6. ASSUME NEW i \in 0 .. MaxBits - 1, SparseSet(i) PROVE SparseInv' /\ OnlyResizeUnlists
  BY <1>6, SparseSetStep
<1>7. ASSUME NEW i \in 0 .. MaxBits - 1, SparseClear(i) PROVE SparseInv' /\ OnlyResizeUnlists
  <2>1. i \in 0 .. sparseSize - 1 /\ i \in Nat
    BY <1>7, SparseFacts DEF SparseClear
  <2>2. BitOffset(i) \in 0 .. BitLength(sparseSize) - 1
    BY <2>1, SparseFacts, Holds
  <2>3. /\ ClearBit(sparseData, i) \in Arrays(BitLength(sparseSize))
        /\ Positions(ClearBit(sparseData, i)) = Positions(sparseData) \ {i}
    BY <2>1, <2>2, SparseFacts, BitChanges
  <2>4. IsSparse(sparseSize, ClearBit(sparseData, i), toClear)
    BY <2>3, SparseFacts DEF IsSparse
  <2>5. \A p \in Positions(ClearBit(sparseData, i)) : p \in ToSet(toClear) \/ p \in Unlisted
    BY <2>3, Zenon DEF Unlisted
  <2> QED
    BY <1>7, <2>4, <2>5, SparseBecomes DEF SparseClear
<1> QED
  BY <1>1, <1>2, <1>3, <1>4, <1>5, <1>6, <1>7, Zenon DEF SparseNext

-----------------------------------------------------------------------------
\* The ends of a word, and of an array from a word on.

LEMMA WordEnds ==
    ASSUME WordAssumption, NEW w \in Word, w # {}
    PROVE  /\ LeastSignificantBit(w) \in w /\ LeastSignificantBit(w) \in Bit
           /\ MostSignificantBit(w) \in w /\ MostSignificantBit(w) \in Bit
           /\ \A b \in w : LeastSignificantBit(w) <= b /\ b <= MostSignificantBit(w)
<1>1. W - 1 \in Nat /\ w \subseteq 0 .. W - 1
  BY DEF WordAssumption, Word, Bit
<1>2. /\ Min(w) \in w /\ \A y \in w : Min(w) <= y
      /\ Max(w) \in w /\ \A y \in w : y <= Max(w)
  BY <1>1, Ends
<1> QED
  BY <1>1, <1>2 DEF LeastSignificantBit, MostSignificantBit, Bit

\* A bit of a word against a position.
LEMMA AgainstPosition ==
    ASSUME WordAssumption, NEW o \in Nat, NEW b \in Bit, NEW p \in Nat
    PROVE  /\ At(o, b) \in Nat
           /\ At(o, b) = BitShift(o) + b
           /\ BitOffset(At(o, b)) = o /\ BitPos(At(o, b)) = b
           /\ BitOffset(p) \in Nat /\ BitPos(p) \in Bit
           /\ At(o, b) <= p <=> o < BitOffset(p) \/ (o = BitOffset(p) /\ b <= BitPos(p))
           /\ p <= At(o, b) <=> BitOffset(p) < o \/ (o = BitOffset(p) /\ BitPos(p) <= b)
<1> DEFINE q == At(o, b)
<1>1. q \in Nat /\ BitOffset(q) = o /\ BitPos(q) = b
  BY Composition
<1>2. BitOffset(p) \in Nat /\ BitPos(p) \in Bit /\ b \in Int /\ BitPos(p) \in Int
  BY Division DEF Bit
<1> HIDE DEF q
<1>3. /\ q = p <=> o = BitOffset(p) /\ b = BitPos(p)
      /\ q < p <=> o < BitOffset(p) \/ (o = BitOffset(p) /\ b < BitPos(p))
      /\ p < q <=> BitOffset(p) < o \/ (BitOffset(p) = o /\ BitPos(p) < b)
  BY <1>1, Ordered
<1>4. /\ q <= p <=> o < BitOffset(p) \/ (o = BitOffset(p) /\ b <= BitPos(p))
      /\ p <= q <=> BitOffset(p) < o \/ (o = BitOffset(p) /\ BitPos(p) <= b)
  BY <1>1, <1>2, <1>3
<1> QED
  BY <1>1, <1>2, <1>4 DEF q, At

-----------------------------------------------------------------------------
\* The queue: its last bit.

\* t is the last position of a set, -1 when it is empty.
IsLast(t, S) == (t = -1 \/ t \in S) /\ \A p \in S : p <= t

LEMMA LastIs ==
    ASSUME NEW n \in Nat, NEW S \in SUBSET (0 .. n - 1), NEW t
    PROVE  t = (IF S = {} THEN -1 ELSE Max(S)) <=> IsLast(t, S)
<1>1. CASE S = {}
  BY <1>1 DEF IsLast
<1>2. CASE S # {}
  <2>1. Max(S) \in S /\ \A y \in S : y <= Max(S)
    <3>1. S \subseteq 0 .. n
      OBVIOUS
    <3> QED
      BY <1>2, <3>1, Ends
  <2>2. IsLast(Max(S), S)
    BY <2>1 DEF IsLast
  <2>3. ASSUME IsLast(t, S) PROVE t = Max(S)
    <3>1. t \in S
      <4>1. Max(S) \in 0 .. n - 1 /\ Max(S) <= t
        BY <2>1, <2>3 DEF IsLast
      <4>2. t # -1
        BY <4>1
      <4> QED
        BY <2>3, <4>2 DEF IsLast
    <3>2. Max(S) \in 0 .. n - 1 /\ t \in 0 .. n - 1
      BY <2>1, <3>1
    <3>3. Max(S) <= t /\ t <= Max(S)
      BY <2>1, <2>3, <3>1 DEF IsLast
    <3> QED
      BY <3>2, <3>3
  <2> QED
    BY <1>2, <2>2, <2>3
<1> QED
  BY <1>1, <1>2

IsBitQueue(n, d, t) ==
    /\ n \in 0 .. MaxBits
    /\ d \in Arrays(BitLength(n))
    /\ t \in -1 .. n - 1
    /\ IsLast(t, Positions(d))

BitQueueInv == IsBitQueue(queueSize, queueData, top)

LEMMA BitQueueFacts ==
    ASSUME WordAssumption, MaxBits \in Nat, BitQueueInv
    PROVE  /\ queueSize \in Nat /\ queueSize \in 0 .. MaxBits
           /\ BitLength(queueSize) \in Nat
           /\ queueData \in Arrays(BitLength(queueSize))
           /\ top \in -1 .. queueSize - 1
           /\ IsLast(top, Positions(queueData))
           /\ Positions(queueData) \subseteq 0 .. queueSize - 1
           /\ Positions(queueData) \subseteq Nat
<1>1. queueSize \in Nat /\ queueSize \in 0 .. MaxBits
  BY DEF BitQueueInv, IsBitQueue
<1>2. /\ queueData \in Arrays(BitLength(queueSize))
      /\ top \in -1 .. queueSize - 1
      /\ IsLast(top, Positions(queueData))
  BY DEF BitQueueInv, IsBitQueue
<1>3. BitLength(queueSize) \in Nat
  BY <1>1, Lengths
<1>4. Positions(queueData) \subseteq Nat
  BY <1>2, <1>3, PositionsOf
<1>5. Positions(queueData) \subseteq 0 .. queueSize - 1
  BY <1>1, <1>2, <1>4 DEF IsLast
<1> QED
  BY <1>1, <1>2, <1>3, <1>4, <1>5

\* The last bit of the words up to one.
LEMMA NextTopIs ==
    ASSUME WordAssumption, NEW m \in Nat, NEW d \in Arrays(m), NEW o \in 0 .. m - 1,
           \A p \in Positions(d) : BitOffset(p) <= o
    PROVE  IsLast(NextTop(d, o), Positions(d))
<1> DEFINE filled == Filled(d, 0 .. o)
           S == Positions(d)
<1>1. S \subseteq Nat /\ \A p \in Nat :
          p \in S <=> BitOffset(p) \in 0 .. m - 1 /\ BitPos(p) \in d[BitOffset(p)]
  BY PositionsOf
<1>2. \A p \in S : BitOffset(p) \in filled
  BY <1>1 DEF Filled
<1>3. CASE filled = {}
  <2>1. S = {}
    BY <1>2, <1>3
  <2> QED
    BY <1>3, <2>1 DEF IsLast, NextTop
<1>4. CASE filled # {}
  <2> DEFINE f == Max(filled)
             b == MostSignificantBit(d[f])
  <2>1. f \in filled /\ \A r \in filled : r <= f
    <3>1. filled \subseteq 0 .. o /\ o \in Nat
      BY DEF Filled
    <3> HIDE DEF filled
    <3> QED
      BY <1>4, <3>1, Ends
  <2>2. f \in 0 .. m - 1 /\ f \in Nat /\ d[f] \in Word /\ d[f] # {}
    <3>1. f \in 0 .. o /\ d[f] # {}
      BY <2>1 DEF Filled
    <3> HIDE DEF f
    <3>2. f \in 0 .. m - 1 /\ f \in Nat
      BY <3>1
    <3> QED
      BY <3>1, <3>2 DEF Arrays
  <2>3. b \in d[f] /\ b \in Bit /\ \A c \in d[f] : c <= b
    BY <2>2, WordEnds
  <2>4. NextTop(d, o) = BitShift(f) + b
    BY <1>4 DEF NextTop, HighestOf
  <2>5. BitShift(f) + b = At(f, b)
    BY DEF At
  <2> HIDE DEF f, b, filled
  <2>6. At(f, b) \in S
    BY <1>1, <2>2, <2>3, Composition
  <2>7. ASSUME NEW p \in S PROVE p <= At(f, b)
    <3>1. p \in Nat /\ BitOffset(p) \in Nat
      BY <1>1, Division
    <3>2. BitOffset(p) <= f /\ BitPos(p) \in d[BitOffset(p)]
      BY <1>1, <1>2, <2>1, <2>7
    <3>3. BitOffset(p) < f \/ (f = BitOffset(p) /\ BitPos(p) <= b)
      BY <2>2, <2>3, <3>1, <3>2
    <3> QED
      BY <2>2, <2>3, <3>1, <3>3, AgainstPosition
  <2> QED
    BY <2>4, <2>5, <2>6, <2>7 DEF IsLast
<1> QED
  BY <1>3, <1>4

LEMMA QueueStep ==
    ASSUME WordAssumption, MaxBits \in Nat, BitQueueInv, QueueNext
    PROVE  BitQueueInv'
<1> DEFINE S == Positions(queueData)
<1>1. ASSUME ClearTop PROVE BitQueueInv'
  <2> DEFINE d == ClearBit(queueData, top)
             o == BitOffset(top)
             k == BitLength(queueSize)
  <2>1. top \in S /\ top \in Nat /\ top \in 0 .. queueSize - 1
    BY <1>1, BitQueueFacts DEF ClearTop, IsLast
  <2>2. o \in 0 .. k - 1
    BY <2>1, BitQueueFacts, Holds
  <2>3. d \in Arrays(k) /\ Positions(d) = S \ {top}
    BY <2>1, <2>2, BitQueueFacts, BitChanges
  <2>4. k \in Nat /\ S \subseteq 0 .. queueSize - 1 /\ queueSize \in 0 .. MaxBits
    BY BitQueueFacts
  <2>5. ASSUME NEW p \in Positions(d) PROVE BitOffset(p) <= o
    <3>1. p \in Nat /\ p < top
      <4>1. p \in S /\ p # top
        BY <2>3
      <4>2. p \in Nat /\ p <= top
        BY <2>1, <4>1, BitQueueFacts DEF IsLast
      <4> QED
        BY <2>1, <4>1, <4>2
    <3>2. BitOffset(p) \in Nat /\ o \in Nat
      BY <2>1, <3>1, Division
    <3> QED
      BY <2>1, <3>1, <3>2, Ordered
  <2> HIDE DEF d, o, k, S
  <2>6. IsLast(NextTop(d, o), Positions(d))
    BY <2>2, <2>3, <2>4, <2>5, NextTopIs
  <2>7. NextTop(d, o) \in -1 .. queueSize - 1
    <3>1. NextTop(d, o) = -1 \/ NextTop(d, o) \in S
      BY <2>3, <2>6 DEF IsLast
    <3>2. NextTop(d, o) \in S => NextTop(d, o) \in 0 .. queueSize - 1
      BY <2>4
    <3>3. queueSize \in Nat
      BY BitQueueFacts
    <3> QED
      BY <3>1, <3>2, <3>3
  <2>8. IsBitQueue(queueSize, d, NextTop(d, o))
    BY <2>3, <2>4, <2>6, <2>7 DEF IsBitQueue, k
  <2>9. queueData' = d /\ top' = NextTop(d, o) /\ queueSize' = queueSize
    BY <1>1 DEF ClearTop, d, o
  <2> QED
    BY <2>8, <2>9 DEF BitQueueInv
<1>2. ASSUME NEW n \in 0 .. MaxBits, IncreaseSize(n) PROVE BitQueueInv'
  <2> DEFINE d == Resized(queueData, BitLength(n))
  <2>1. n \in Nat /\ BitLength(n) \in Nat
    BY Lengths
  <2>2. n >= queueSize /\ queueSize' = n /\ queueData' = d /\ top' = top
    BY <1>2 DEF IncreaseSize
  <2>3. d \in Arrays(BitLength(n))
        /\ Positions(d) = {p \in S : BitOffset(p) \in 0 .. BitLength(n) - 1}
    BY <2>1, BitQueueFacts, ResizedPositions
  <2>4. \A p \in S : BitOffset(p) \in 0 .. BitLength(n) - 1
    <3>1. S \subseteq 0 .. n - 1
      BY <2>1, <2>2, BitQueueFacts
    <3> QED
      BY <2>1, <3>1, Holds
  <2>5. Positions(d) = S
    <3> HIDE DEF d, S
    <3> QED
      BY <2>3, <2>4, Zenon
  <2>6. top \in -1 .. n - 1
    BY <2>1, <2>2, BitQueueFacts
  <2>7. IsBitQueue(n, d, top)
    BY <2>3, <2>5, <2>6, BitQueueFacts DEF IsBitQueue
  <2> QED
    BY <2>2, <2>7 DEF BitQueueInv
<1>3. ASSUME NEW n \in 0 .. MaxBits, QueueClearAndResize(n) PROVE BitQueueInv'
  <2> DEFINE d == [o \in 0 .. BitLength(n) - 1 |-> {}]
  <2>1. n \in Nat /\ BitLength(n) \in Nat
    BY Lengths
  <2>2. d \in Arrays(BitLength(n)) /\ Positions(d) = {}
    BY <2>1, NoPositions
  <2>3. queueSize' = n /\ queueData' = d /\ top' = -1
    BY <1>3 DEF QueueClearAndResize
  <2> HIDE DEF d
  <2>4. IsBitQueue(n, d, -1)
    BY <2>1, <2>2 DEF IsBitQueue, IsLast
  <2> QED
    BY <2>3, <2>4 DEF BitQueueInv
<1>4. ASSUME NEW i \in 0 .. MaxBits - 1, QueueSet(i) PROVE BitQueueInv'
  <2> DEFINE d == SetBit(queueData, i)
             t == Max({top, i})
  <2>1. i \in Nat /\ i \in 0 .. queueSize - 1
    BY <1>4, BitQueueFacts DEF QueueSet
  <2>2. BitOffset(i) \in 0 .. BitLength(queueSize) - 1
    BY <2>1, BitQueueFacts, Holds
  <2>3. d \in Arrays(BitLength(queueSize)) /\ Positions(d) = S \cup {i}
    BY <2>1, <2>2, BitQueueFacts, BitChanges
  <2>4. top \in -1 .. queueSize - 1 /\ queueSize \in Nat
    BY BitQueueFacts
  <2>5. t = IF top <= i THEN i ELSE top
    <3>1. ASSUME top <= i PROVE t = i
      BY <2>1, <2>4, <3>1, MaxIs
    <3>2. ASSUME ~(top <= i) PROVE t = top
      BY <2>1, <2>4, <3>2, MaxIs
    <3> QED
      BY <3>1, <3>2
  <2>6. queueSize' = queueSize /\ queueData' = d /\ top' = t
    BY <1>4 DEF QueueSet
  <2>7. (top = -1 \/ top \in S) /\ (\A p \in S : p <= top) /\ S \subseteq Nat
    BY BitQueueFacts DEF IsLast
  <2> HIDE DEF d, t, S
  <2>8. IsLast(t, S \cup {i})
    BY <2>1, <2>4, <2>5, <2>7 DEF IsLast
  <2>9. t \in -1 .. queueSize - 1
    BY <2>1, <2>4, <2>5
  <2>10. IsBitQueue(queueSize, d, t)
    BY <2>3, <2>8, <2>9, BitQueueFacts DEF IsBitQueue
  <2> QED
    BY <2>6, <2>10 DEF BitQueueInv
<1> QED
  BY <1>1, <1>2, <1>3, <1>4, Zenon DEF QueueNext

-----------------------------------------------------------------------------
\* The invariant of the three kinds, and the theorems about what they become.

BitsetsInv == BitsetTypeOK /\ SparseInv /\ BitQueueInv

LEMMA InitialBitsets ==
    ASSUME WordAssumption, MaxBits \in Nat, BitsetsInit
    PROVE  BitsetsInv /\ AsSets!Init
<1> DEFINE none == [o \in {} |-> {}]
<1>1. BitLength(0) = 0
  BY Lengths
<1>2. none \in Arrays(BitLength(0)) /\ Positions(none) = {} /\ none \in Words(0)
  <2>1. 0 .. 0 - 1 = {}
    OBVIOUS
  <2>2. none = [o \in 0 .. 0 - 1 |-> {}]
    BY <2>1
  <2>3. none \in Arrays(0) /\ Positions(none) = {}
    BY <2>2, NoPositions
  <2> QED
    BY <1>1, <2>3 DEF Words, Arrays
<1> HIDE DEF none
<1>3. bits = [x \in Bitsets |-> [size |-> 0, data |-> none]]
  BY DEF BitsetsInit, BitsetInit, Empty, none
<1>4. [size |-> 0, data |-> none] \in UNION {[size : {n}, data : Words(n)] : n \in 0 .. MaxBits}
  <2>1. [size |-> 0, data |-> none] \in [size : {0}, data : Words(0)]
    BY <1>2
  <2>2. 0 \in 0 .. MaxBits
    OBVIOUS
  <2> QED
    BY <2>1, <2>2
<1>5. BitsetTypeOK
  BY <1>3, <1>4 DEF BitsetTypeOK
<1>6. \A x \in Bitsets : Size(x) = 0 /\ Data(x) = none
  BY <1>3 DEF Size, Data
<1>7. SparseInv
  BY <1>2, EmptyList DEF BitsetsInit, SparseInit, SparseInv, IsSparse, none
<1>8. BitQueueInv
  BY <1>2 DEF BitsetsInit, QueueInit, BitQueueInv, IsBitQueue, IsLast, none
<1>9. AsSets!Init
  <2>1. \A x \in Bitsets : Members(x) = {}
    BY <1>2, <1>6 DEF Members
  <2> QED
    BY <1>6, <2>1 DEF AsSets!Init
<1> QED
  BY <1>5, <1>7, <1>8, <1>9 DEF BitsetsInv

LEMMA UnchangedBits ==
    ASSUME BitsetTypeOK, UNCHANGED bits
    PROVE  BitsetTypeOK' /\ UNCHANGED AsSets!vars
<1>1. \A x \in Bitsets : Size(x)' = Size(x) /\ Data(x)' = Data(x)
  BY DEF Size, Data
<1>2. BitsetTypeOK'
  BY DEF BitsetTypeOK
<1>3. \A x \in Bitsets : Members(x)' = Members(x)
  BY <1>1 DEF Members, Positions, IsBitSet
<1> QED
  BY <1>1, <1>2, <1>3 DEF AsSets!vars

LEMMA NextBitsets ==
    ASSUME WordAssumption, MaxBits \in Nat, BitsetsInv, [BitsetsNext]_bitsetsVars
    PROVE  /\ BitsetsInv'
           /\ [AsSets!Next]_(AsSets!vars)
           /\ [OnlyResizeUnlists]_sparseVars
<1>1. ASSUME UNCHANGED sparseVars PROVE SparseInv'
  BY <1>1 DEF BitsetsInv, SparseInv, IsSparse, sparseVars
<1>2. ASSUME UNCHANGED queueVars PROVE BitQueueInv'
  BY <1>2 DEF BitsetsInv, BitQueueInv, IsBitQueue, queueVars
<1>3. CASE UNCHANGED bitsetsVars
  BY <1>1, <1>2, <1>3, UnchangedBits DEF bitsetsVars, BitsetsInv
<1>4. CASE BitsetNext /\ UNCHANGED <<sparseVars, queueVars>>
  <2>1. ASSUME NEW x \in Bitsets, Change(x) PROVE BitsetTypeOK' /\ AsSets!Next
    <3>1. BitsetTypeOK' /\ AsSets!Change(x)
      BY <2>1, ChangeStep DEF BitsetsInv
    <3> QED
      BY <3>1, Zenon DEF AsSets!Next
  <2>2. ASSUME NEW x \in Bitsets, NEW y \in Bitsets, Combine(x, y)
        PROVE  BitsetTypeOK' /\ AsSets!Next
    <3>1. BitsetTypeOK' /\ (AsSets!Change(x) \/ AsSets!Combine(x, y))
      BY <2>2, CombineStep DEF BitsetsInv
    <3> QED
      BY <3>1, Zenon DEF AsSets!Next
  <2>3. BitsetTypeOK' /\ AsSets!Next
    BY <1>4, <2>1, <2>2, Zenon DEF BitsetNext
  <2> QED
    BY <1>1, <1>2, <1>4, <2>3 DEF BitsetsInv
<1>5. CASE SparseNext /\ UNCHANGED <<bits, queueVars>>
  BY <1>2, <1>5, UnchangedBits, SparseStep DEF BitsetsInv
<1>6. CASE QueueNext /\ UNCHANGED <<bits, sparseVars>>
  BY <1>1, <1>6, UnchangedBits, QueueStep DEF BitsetsInv
<1> QED
  BY <1>3, <1>4, <1>5, <1>6 DEF BitsetsNext

LEMMA BitsetsInvariance == BitsetsSpec => []BitsetsInv
<1>1. WordAssumption /\ MaxBits \in Nat
  BY BitsetAssumption
<1>2. BitsetsInit => BitsetsInv
  BY <1>1, InitialBitsets
<1>3. BitsetsInv /\ [BitsetsNext]_bitsetsVars => BitsetsInv'
  BY <1>1, NextBitsets
<1> QED
  BY <1>2, <1>3, PTL DEF BitsetsSpec

\* In every state the sizes are within the bound, each bitset has the words of
\* its size, the list of the sparse bitset has positions below its size, and
\* the top of the queue is one of its positions, or -1.
THEOREM BitsetTypeCorrect == BitsetsSpec => []BitsetsTypeOK
<1>1. BitsetsInv => BitsetsTypeOK
  BY DEF BitsetsInv, SparseInv, IsSparse, BitQueueInv, IsBitQueue, BitsetsTypeOK,
         SparseTypeOK, QueueTypeOK, Words, Arrays
<1> QED
  BY <1>1, BitsetsInvariance, PTL

\* The bitsets are sets of numbers that have room in the words of a size, for
\* every width of a word, any number of bitsets and every size: each operation,
\* on one word, a pair of bits, the words two bitsets have in common or all of
\* them, changes the positions as the operation on sets does, those past the
\* size as well.
THEOREM BitsetsImplementSets == BitsetsSpec => ImplementsBoundedSets
<1>1. WordAssumption /\ MaxBits \in Nat
  BY BitsetAssumption
<1>2. BitsetsInit => AsSets!Init
  BY <1>1, InitialBitsets
<1>3. BitsetsInv /\ [BitsetsNext]_bitsetsVars => [AsSets!Next]_(AsSets!vars)
  BY <1>1, NextBitsets
<1> QED
  BY <1>2, <1>3, BitsetsInvariance, PTL DEF BitsetsSpec, ImplementsBoundedSets, AsSets!Spec

-----------------------------------------------------------------------------
\* Ranges of an array.

LEMMA PartEnds ==
    ASSUME WordAssumption, NEW o \in Nat, NEW u \in Word
    PROVE  /\ Within(o, u) \subseteq Nat
           /\ u = {} <=> Within(o, u) = {}
           /\ u # {} => /\ BitShift(o) + LeastSignificantBit(u) \in Within(o, u)
                        /\ BitShift(o) + MostSignificantBit(u) \in Within(o, u)
                        /\ \A p \in Within(o, u) :
                              /\ BitShift(o) + LeastSignificantBit(u) <= p
                              /\ p <= BitShift(o) + MostSignificantBit(u)
<1>1. Within(o, u) \subseteq Nat
  BY DEF Within
<1>2. CASE u = {}
  BY <1>1, <1>2 DEF Within
<1>3. CASE u # {}
  <2> DEFINE l == LeastSignificantBit(u)
             h == MostSignificantBit(u)
  <2>1. l \in u /\ l \in Bit /\ h \in u /\ h \in Bit /\ \A b \in u : l <= b /\ b <= h
    BY <1>3, WordEnds
  <2> HIDE DEF l, h
  <2>2. /\ BitShift(o) + l = At(o, l) /\ BitShift(o) + h = At(o, h)
    BY DEF At
  <2>3. At(o, l) \in Within(o, u) /\ At(o, h) \in Within(o, u)
    BY <2>1, Composition DEF Within
  <2>4. ASSUME NEW p \in Within(o, u) PROVE At(o, l) <= p /\ p <= At(o, h)
    <3>1. p \in Nat /\ BitOffset(p) = o /\ BitPos(p) \in u
      BY DEF Within
    <3>2. l <= BitPos(p) /\ BitPos(p) <= h
      BY <2>1, <3>1
    <3> QED
      BY <2>1, <3>1, <3>2, AgainstPosition
  <2> QED
    BY <1>1, <1>3, <2>2, <2>3, <2>4 DEF l, h
<1> QED
  BY <1>2, <1>3

\* The positions in some of the words.
InWords(d, O) == {p \in Positions(d) : BitOffset(p) \in O}

LEMMA FilledEnds ==
    ASSUME WordAssumption, NEW m \in Nat, NEW d \in Arrays(m), NEW O \in SUBSET (0 .. m - 1)
    PROVE  LET filled == Filled(d, O)
           IN  /\ filled = {} <=> InWords(d, O) = {}
               /\ filled # {} =>
                     /\ LowestOf(d, Min(filled)) \in InWords(d, O)
                     /\ HighestOf(d, Max(filled)) \in InWords(d, O)
                     /\ \A p \in InWords(d, O) :
                           /\ LowestOf(d, Min(filled)) <= p
                           /\ p <= HighestOf(d, Max(filled))
<1> DEFINE filled == Filled(d, O)
           S == Positions(d)
<1>1. S \subseteq Nat /\ \A p \in Nat :
          p \in S <=> BitOffset(p) \in 0 .. m - 1 /\ BitPos(p) \in d[BitOffset(p)]
  BY PositionsOf
<1>2. \A p \in InWords(d, O) : BitOffset(p) \in filled /\ p \in Nat
  BY <1>1 DEF Filled, InWords
<1>3. ASSUME NEW o \in filled
      PROVE  /\ o \in 0 .. m - 1 /\ o \in O /\ o \in Nat /\ d[o] \in Word /\ d[o] # {}
             /\ Within(o, d[o]) \subseteq InWords(d, O)
  <2>1. o \in O /\ o \in 0 .. m - 1 /\ d[o] # {}
    BY DEF Filled
  <2>2. o \in Nat /\ d[o] \in Word
    BY <2>1 DEF Arrays
  <2>3. Within(o, d[o]) \subseteq InWords(d, O)
    BY <1>1, <2>1, Zenon DEF Within, InWords
  <2> QED
    BY <2>1, <2>2, <2>3
<1>4. ASSUME filled # {} PROVE InWords(d, O) # {}
  <2>1. PICK o \in filled : TRUE
    BY <1>4
  <2>2. Within(o, d[o]) # {} /\ Within(o, d[o]) \subseteq InWords(d, O)
    BY <1>3, PartEnds
  <2> QED
    BY <2>2
<1>5. ASSUME filled # {}
      PROVE  /\ LowestOf(d, Min(filled)) \in InWords(d, O)
             /\ HighestOf(d, Max(filled)) \in InWords(d, O)
             /\ \A p \in InWords(d, O) :
                   /\ LowestOf(d, Min(filled)) <= p
                   /\ p <= HighestOf(d, Max(filled))
  <2> DEFINE a == Min(filled)
             z == Max(filled)
             l == LeastSignificantBit(d[a])
             h == MostSignificantBit(d[z])
  <2>1. /\ a \in filled /\ \A o \in filled : a <= o
        /\ z \in filled /\ \A o \in filled : o <= z
    <3>1. filled \subseteq 0 .. m /\ m \in Nat
      <4>1. filled \subseteq O
        BY DEF Filled
      <4>2. 0 .. m - 1 \subseteq 0 .. m
        OBVIOUS
      <4> QED
        BY <4>1, <4>2
    <3> HIDE DEF filled
    <3> QED
      BY <1>5, <3>1, Ends
  <2>2. /\ LowestOf(d, a) = BitShift(a) + l /\ HighestOf(d, z) = BitShift(z) + h
        /\ BitShift(a) + l = At(a, l) /\ BitShift(z) + h = At(z, h)
    BY DEF LowestOf, HighestOf, At
  <2>3. /\ a \in Nat /\ d[a] \in Word /\ d[a] # {} /\ Within(a, d[a]) \subseteq InWords(d, O)
        /\ z \in Nat /\ d[z] \in Word /\ d[z] # {} /\ Within(z, d[z]) \subseteq InWords(d, O)
    BY <1>3, <2>1
  <2> HIDE DEF a, z, filled
  <2>4. /\ BitShift(a) + l \in Within(a, d[a])
        /\ BitShift(z) + h \in Within(z, d[z])
    BY <2>3, PartEnds
  <2>5. /\ l \in Bit /\ \A b \in d[a] : l <= b
        /\ h \in Bit /\ \A b \in d[z] : b <= h
    BY <2>3, WordEnds
  <2> HIDE DEF l, h
  <2>6. ASSUME NEW p \in InWords(d, O) PROVE At(a, l) <= p /\ p <= At(z, h)
    <3>1. p \in Nat /\ BitOffset(p) \in filled /\ BitPos(p) \in d[BitOffset(p)]
      BY <1>1, <1>2 DEF InWords
    <3>2. a <= BitOffset(p) /\ BitOffset(p) <= z /\ BitOffset(p) \in Nat
      BY <2>1, <3>1, Division
    <3>3. a < BitOffset(p) \/ (a = BitOffset(p) /\ l <= BitPos(p))
      BY <2>3, <2>5, <3>1, <3>2
    <3>4. BitOffset(p) < z \/ (z = BitOffset(p) /\ BitPos(p) <= h)
      BY <2>3, <2>5, <3>1, <3>2
    <3> QED
      BY <2>3, <2>5, <3>1, <3>3, <3>4, AgainstPosition
  <2> QED
    BY <2>2, <2>3, <2>4, <2>6 DEF a, z, filled
<1> QED
  BY <1>2, <1>4, <1>5, Zenon

\* A range of positions, by words.
SetIn(d, s, e) == Positions(d) \cap s .. e

LEMMA RangeBounds ==
    ASSUME WordAssumption, NEW m \in Nat, NEW d \in Arrays(m), NEW s \in Nat, NEW e \in Nat,
           s <= e, BitOffset(e) \in 0 .. m - 1
    PROVE  /\ BitOffset(s) \in 0 .. m - 1 /\ BitOffset(s) \in Nat /\ BitOffset(e) \in Nat
           /\ BitOffset(s) <= BitOffset(e)
           /\ BitPos(s) \in Bit /\ BitPos(e) \in Bit
           /\ BitOffset(s) = BitOffset(e) => BitPos(s) <= BitPos(e)
           /\ \A p \in Nat :
                 p \in s .. e <=>
                     /\ \/ BitOffset(s) < BitOffset(p)
                        \/ BitOffset(s) = BitOffset(p) /\ BitPos(s) <= BitPos(p)
                     /\ \/ BitOffset(p) < BitOffset(e)
                        \/ BitOffset(p) = BitOffset(e) /\ BitPos(p) <= BitPos(e)
<1>1. /\ BitOffset(s) \in Nat /\ BitOffset(e) \in Nat /\ BitPos(s) \in Bit /\ BitPos(e) \in Bit
      /\ At(BitOffset(s), BitPos(s)) = s /\ At(BitOffset(e), BitPos(e)) = e
  BY Division
<1>2. ASSUME NEW p \in Nat
      PROVE  /\ s <= p <=> \/ BitOffset(s) < BitOffset(p)
                           \/ BitOffset(s) = BitOffset(p) /\ BitPos(s) <= BitPos(p)
             /\ p <= e <=> \/ BitOffset(p) < BitOffset(e)
                           \/ BitOffset(e) = BitOffset(p) /\ BitPos(p) <= BitPos(e)
  <2>1. At(BitOffset(s), BitPos(s)) <= p <=>
            \/ BitOffset(s) < BitOffset(p)
            \/ BitOffset(s) = BitOffset(p) /\ BitPos(s) <= BitPos(p)
    BY <1>1, AgainstPosition
  <2>2. p <= At(BitOffset(e), BitPos(e)) <=>
            \/ BitOffset(p) < BitOffset(e)
            \/ BitOffset(e) = BitOffset(p) /\ BitPos(p) <= BitPos(e)
    BY <1>1, AgainstPosition
  <2> QED
    BY <1>1, <2>1, <2>2
<1>3. BitOffset(s) < BitOffset(e) \/ (BitOffset(s) = BitOffset(e) /\ BitPos(s) <= BitPos(e))
  BY <1>2
<1>4. BitOffset(s) <= BitOffset(e) /\ BitOffset(s) \in 0 .. m - 1
  BY <1>1, <1>3
<1>5. BitOffset(s) = BitOffset(e) => BitPos(s) <= BitPos(e)
  BY <1>1, <1>3
<1>6. \A p \in Nat : p \in s .. e <=> s <= p /\ p <= e
  OBVIOUS
<1> QED
  BY <1>1, <1>2, <1>4, <1>5, <1>6

\* The bits that a range has in its first word, in its last one and, when these
\* are the same, in its only one.
FirstPart(d, s)   == d[BitOffset(s)] \cap IntervalUp(BitPos(s))
LastPart(d, e)    == d[BitOffset(e)] \cap IntervalDown(BitPos(e))
OnlyPart(d, s, e) == d[BitOffset(s)] \cap OneRange(BitPos(s), BitPos(e))
Between(s, e)     == BitOffset(s) + 1 .. BitOffset(e) - 1

LEMMA RangeParts ==
    ASSUME WordAssumption, NEW m \in Nat, NEW d \in Arrays(m), NEW s \in Nat, NEW e \in Nat,
           s <= e, BitOffset(e) \in 0 .. m - 1
    PROVE  /\ BitOffset(s) \in Nat /\ BitOffset(e) \in Nat
           /\ BitOffset(s) \in 0 .. m - 1
           /\ Between(s, e) \in SUBSET (0 .. m - 1)
           /\ FirstPart(d, s) \in Word /\ LastPart(d, e) \in Word
           /\ BitOffset(s) = BitOffset(e) =>
                 /\ OnlyPart(d, s, e) \in Word
                 /\ SetIn(d, s, e) = Within(BitOffset(s), OnlyPart(d, s, e))
           /\ BitOffset(s) # BitOffset(e) =>
                 /\ BitOffset(s) < BitOffset(e)
                 /\ SetIn(d, s, e) =
                       Within(BitOffset(s), FirstPart(d, s))
                       \cup InWords(d, Between(s, e))
                       \cup Within(BitOffset(e), LastPart(d, e))
<1> DEFINE f == BitOffset(s)
           l == BitOffset(e)
           up == d[f] \cap IntervalUp(BitPos(s))
           down == d[l] \cap IntervalDown(BitPos(e))
           one == d[f] \cap OneRange(BitPos(s), BitPos(e))
           S == Positions(d)
           R == SetIn(d, s, e)
<1>1. S \subseteq Nat /\ \A p \in Nat :
          p \in S <=> BitOffset(p) \in 0 .. m - 1 /\ BitPos(p) \in d[BitOffset(p)]
  BY PositionsOf
<1>2. /\ f \in 0 .. m - 1 /\ l \in 0 .. m - 1 /\ f \in Nat /\ l \in Nat /\ f <= l
      /\ BitPos(s) \in Bit /\ BitPos(e) \in Bit
      /\ f = l => BitPos(s) <= BitPos(e)
  BY RangeBounds
<1>3. \A p \in Nat : p \in s .. e <=>
          /\ f < BitOffset(p) \/ (f = BitOffset(p) /\ BitPos(s) <= BitPos(p))
          /\ BitOffset(p) < l \/ (BitOffset(p) = l /\ BitPos(p) <= BitPos(e))
  BY RangeBounds
<1>4. d[f] \in Word /\ d[l] \in Word
  BY <1>2 DEF Arrays
<1>5. up \in Word /\ down \in Word /\ one \in Word
  BY <1>4 DEF Word
<1>6. \A b \in Bit : /\ b \in IntervalUp(BitPos(s)) <=> BitPos(s) <= b
                     /\ b \in IntervalDown(BitPos(e)) <=> b <= BitPos(e)
                     /\ f = l => (b \in OneRange(BitPos(s), BitPos(e)) <=>
                                      BitPos(s) <= b /\ b <= BitPos(e))
  <2>1. IntervalUp(BitPos(s)) = {b \in Bit : b >= BitPos(s)}
    BY <1>2, Masks
  <2>2. IntervalDown(BitPos(e)) = {b \in Bit : b <= BitPos(e)}
    BY <1>2, Masks
  <2>3. f = l => OneRange(BitPos(s), BitPos(e)) = {b \in Bit : BitPos(s) <= b /\ b <= BitPos(e)}
    BY <1>2, Masks
  <2>4. \A b \in Bit : b >= BitPos(s) <=> BitPos(s) <= b
    OBVIOUS
  <2> QED
    BY <2>1, <2>2, <2>3, <2>4, Zenon
<1>7. \A p \in Nat : BitOffset(p) \in Nat /\ BitPos(p) \in Bit
  BY Division
<1>8. R \subseteq Nat
  BY <1>1 DEF SetIn
<1> HIDE DEF R
<1>9. ASSUME f = l PROVE R = Within(f, one)
  <2>1. ASSUME NEW p \in Nat PROVE p \in R <=> p \in Within(f, one)
    <3>1. p \in s .. e <=> f = BitOffset(p) /\ BitPos(s) <= BitPos(p) /\ BitPos(p) <= BitPos(e)
      BY <1>2, <1>3, <1>7, <1>9
    <3>2. f = BitOffset(p) => (p \in S <=> BitPos(p) \in d[f])
      BY <1>1, <1>2
    <3>3. BitPos(p) \in one <=> BitPos(p) \in d[f] /\ BitPos(s) <= BitPos(p) /\ BitPos(p) <= BitPos(e)
      BY <1>6, <1>7, <1>9
    <3>4. p \in R <=> p \in S /\ p \in s .. e
      BY DEF R, SetIn
    <3> QED
      BY <3>1, <3>2, <3>3, <3>4, Zenon DEF Within
  <2>2. Within(f, one) \subseteq Nat
    BY DEF Within
  <2> QED
    BY <1>8, <2>1, <2>2, Zenon
<1>10. ASSUME f # l PROVE f < l /\ R = Within(f, up) \cup InWords(d, f + 1 .. l - 1) \cup Within(l, down)
  <2> DEFINE Q == Within(f, up) \cup InWords(d, f + 1 .. l - 1) \cup Within(l, down)
  <2>0. f < l
    BY <1>2, <1>10
  <2>1. ASSUME NEW p \in Nat PROVE p \in R <=> p \in Q
    <3> DEFINE o == BitOffset(p)
               b == BitPos(p)
    <3>0. o \in Nat /\ b \in Bit
      BY <1>7
    <3>1. p \in R <=> p \in S /\ p \in s .. e
      BY DEF R, SetIn
    <3>2. p \in Q <=> \/ o = f /\ b \in up
                      \/ p \in S /\ o \in f + 1 .. l - 1
                      \/ o = l /\ b \in down
      BY Zenon DEF Within, InWords
    <3>3. p \in s .. e <=> \/ o = f /\ BitPos(s) <= b
                           \/ o \in f + 1 .. l - 1
                           \/ o = l /\ b <= BitPos(e)
      <4>1. o \in f + 1 .. l - 1 <=> f < o /\ o < l
        BY <1>2, <3>0
      <4>2. p \in s .. e <=> /\ f < o \/ (f = o /\ BitPos(s) <= b)
                             /\ o < l \/ (o = l /\ b <= BitPos(e))
        BY <1>3
      <4> HIDE DEF o, b, f, l
      <4>3. f < o => f # o
        BY <1>2, <3>0
      <4> QED
        BY <1>2, <2>0, <3>0, <4>1, <4>2, <4>3
    <3>4. /\ o = f => (p \in S <=> b \in d[f])
          /\ o = l => (p \in S <=> b \in d[l])
      BY <1>1, <1>2
    <3>5. /\ b \in up <=> b \in d[f] /\ BitPos(s) <= b
          /\ b \in down <=> b \in d[l] /\ b <= BitPos(e)
      BY <1>6, <3>0
    <3> HIDE DEF o, b, up, down, Q, S, f, l
    <3> QED
      BY <3>1, <3>2, <3>3, <3>4, <3>5, Zenon
  <2>2. Q \subseteq Nat
    BY <1>1 DEF Within, InWords
  <2> HIDE DEF Q
  <2>3. R = Q
    BY <1>8, <2>1, <2>2, Zenon
  <2> QED
    BY <2>0, <2>3 DEF Q
<1>11. Between(s, e) \in SUBSET (0 .. m - 1)
  BY <1>2 DEF Between
<1> QED
  BY <1>2, <1>5, <1>9, <1>10, <1>11, Zenon DEF R, FirstPart, LastPart, OnlyPart, Between

LEMMA EmptyRangeIs ==
    ASSUME WordAssumption, NEW m \in Nat, NEW d \in Arrays(m), NEW s \in Nat, NEW e \in Nat,
           s <= e, BitOffset(e) \in 0 .. m - 1
    PROVE  IsEmptyRange(d, s, e) <=> SetIn(d, s, e) = {}
<1> DEFINE f == BitOffset(s)
           l == BitOffset(e)
           inner == InWords(d, Between(s, e))
<1>1. IsEmptyRange(d, s, e) <=>
          IF f = l THEN OnlyPart(d, s, e) = {}
          ELSE /\ FirstPart(d, s) = {}
               /\ \A o \in Between(s, e) : d[o] = {}
               /\ LastPart(d, e) = {}
  BY DEF IsEmptyRange, OnlyPart, FirstPart, LastPart, Between
<1>2. (\A o \in Between(s, e) : d[o] = {}) <=> inner = {}
  <2>1. Between(s, e) \in SUBSET (0 .. m - 1)
    BY RangeParts
  <2>2. Filled(d, Between(s, e)) = {} <=> inner = {}
    BY <2>1, FilledEnds
  <2>3. (\A o \in Between(s, e) : d[o] = {}) <=> Filled(d, Between(s, e)) = {}
    BY Zenon DEF Filled
  <2> QED
    BY <2>2, <2>3
<1>3. CASE f = l
  <2>1. f \in Nat /\ OnlyPart(d, s, e) \in Word
        /\ SetIn(d, s, e) = Within(f, OnlyPart(d, s, e))
    BY <1>3, RangeParts
  <2>2. OnlyPart(d, s, e) = {} <=> Within(f, OnlyPart(d, s, e)) = {}
    BY <2>1, PartEnds
  <2> QED
    BY <1>1, <1>3, <2>1, <2>2
<1>4. CASE f # l
  <2>1. /\ f \in Nat /\ l \in Nat /\ FirstPart(d, s) \in Word /\ LastPart(d, e) \in Word
        /\ SetIn(d, s, e) = Within(f, FirstPart(d, s)) \cup inner \cup Within(l, LastPart(d, e))
    BY <1>4, RangeParts
  <2>2. /\ FirstPart(d, s) = {} <=> Within(f, FirstPart(d, s)) = {}
        /\ LastPart(d, e) = {} <=> Within(l, LastPart(d, e)) = {}
    BY <2>1, PartEnds
  <2> HIDE DEF f, l, inner
  <2> QED
    BY <1>1, <1>2, <1>4, <2>1, <2>2
<1> QED
  BY <1>3, <1>4

\* The parts of a range of several words are in order.
LEMMA PartsInOrder ==
    ASSUME WordAssumption, NEW m \in Nat, NEW d \in Arrays(m), NEW s \in Nat, NEW e \in Nat,
           s <= e, BitOffset(e) \in 0 .. m - 1, BitOffset(s) # BitOffset(e)
    PROVE  LET head == Within(BitOffset(s), FirstPart(d, s))
               inner == InWords(d, Between(s, e))
               tail == Within(BitOffset(e), LastPart(d, e))
           IN  /\ head \subseteq Nat /\ inner \subseteq Nat /\ tail \subseteq Nat
               /\ \A p \in head, q \in inner : p <= q
               /\ \A p \in head, q \in tail : p <= q
               /\ \A p \in inner, q \in tail : p <= q
<1> DEFINE f == BitOffset(s)
           l == BitOffset(e)
           head == Within(f, FirstPart(d, s))
           inner == InWords(d, Between(s, e))
           tail == Within(l, LastPart(d, e))
<1>1. f \in Nat /\ l \in Nat /\ f < l
  BY RangeParts
<1>2. ASSUME NEW p \in Nat, NEW q \in Nat, BitOffset(p) < BitOffset(q) PROVE p <= q
  BY <1>2, Ordered
<1>3. \A p \in head : p \in Nat /\ BitOffset(p) = f
  BY DEF Within
<1>4. \A p \in tail : p \in Nat /\ BitOffset(p) = l
  BY DEF Within
<1>5. \A p \in inner : p \in Nat /\ BitOffset(p) \in f + 1 .. l - 1
  BY PositionsOf DEF InWords, Between
<1>6. \A p \in inner : p \in Nat /\ f < BitOffset(p) /\ BitOffset(p) < l
  BY <1>1, <1>5
<1> HIDE DEF f, l, head, inner, tail
<1>7. /\ \A p \in head, q \in inner : p <= q
      /\ \A p \in head, q \in tail : p <= q
      /\ \A p \in inner, q \in tail : p <= q
  BY <1>1, <1>2, <1>3, <1>4, <1>6
<1> QED
  BY <1>3, <1>4, <1>6, <1>7 DEF f, l, head, inner, tail

LEMMA LeastInRangeIs ==
    ASSUME WordAssumption, NEW m \in Nat, NEW d \in Arrays(m), NEW s \in Nat, NEW e \in Nat,
           s <= e, BitOffset(e) \in 0 .. m - 1
    PROVE  LeastSignificantBitInRange(d, s, e) =
               IF SetIn(d, s, e) = {} THEN -1 ELSE Min(SetIn(d, s, e))
<1> DEFINE f == BitOffset(s)
           l == BitOffset(e)
           only == OnlyPart(d, s, e)
           first == FirstPart(d, s)
           last == LastPart(d, e)
           filled == Filled(d, Between(s, e))
           head == Within(f, first)
           inner == InWords(d, Between(s, e))
           tail == Within(l, last)
           R == SetIn(d, s, e)
           v == LeastSignificantBitInRange(d, s, e)
<1>1. v = IF IsBitSet(d, s) THEN s
          ELSE IF f = l
          THEN IF only = {} THEN -1 ELSE BitShift(f) + LeastSignificantBit(only)
          ELSE IF first # {}
          THEN BitShift(f) + LeastSignificantBit(first)
          ELSE IF filled # {} THEN LowestOf(d, Min(filled))
          ELSE IF last # {} THEN BitShift(l) + LeastSignificantBit(last)
          ELSE -1
  BY Zenon DEF LeastSignificantBitInRange, OnlyPart, FirstPart, LastPart, Between
<1>2. /\ f \in Nat /\ l \in Nat /\ first \in Word /\ last \in Word
      /\ Between(s, e) \in SUBSET (0 .. m - 1)
      /\ f = l => only \in Word /\ R = Within(f, only)
      /\ f # l => R = head \cup inner \cup tail
  BY RangeParts
<1>3. R \subseteq Nat /\ R \subseteq Int /\ \A p \in R : s <= p /\ p <= e
  BY PositionsOf DEF SetIn
<1>4. IsBitSet(d, s) => s \in R
  <2>1. BitOffset(s) \in 0 .. m - 1
    BY RangeParts
  <2>2. IsBitSet(d, s) => s \in Positions(d)
    BY <2>1, PositionsOf DEF IsBitSet
  <2> QED
    BY <2>2 DEF SetIn
<1>5. /\ only \in Word /\ only # {} =>
             /\ BitShift(f) + LeastSignificantBit(only) \in Within(f, only)
             /\ \A p \in Within(f, only) : BitShift(f) + LeastSignificantBit(only) <= p
      /\ only \in Word => (only = {} <=> Within(f, only) = {})
  BY <1>2, PartEnds
<1>6. /\ first # {} =>
             /\ BitShift(f) + LeastSignificantBit(first) \in head
             /\ \A p \in head : BitShift(f) + LeastSignificantBit(first) <= p
      /\ first = {} <=> head = {}
  BY <1>2, PartEnds
<1>7. /\ last # {} =>
             /\ BitShift(l) + LeastSignificantBit(last) \in tail
             /\ \A p \in tail : BitShift(l) + LeastSignificantBit(last) <= p
      /\ last = {} <=> tail = {}
  BY <1>2, PartEnds
<1>8. /\ filled # {} =>
             /\ LowestOf(d, Min(filled)) \in inner
             /\ \A p \in inner : LowestOf(d, Min(filled)) <= p
      /\ filled = {} <=> inner = {}
  BY <1>2, FilledEnds
<1>9. f # l => /\ \A p \in head, q \in inner : p <= q
               /\ \A p \in head, q \in tail : p <= q
               /\ \A p \in inner, q \in tail : p <= q
  BY PartsInOrder, Zenon
<1> HIDE DEF f, l, only, first, last, filled, head, inner, tail, R, v
<1>10. ASSUME v \in R, \A p \in R : v <= p PROVE R # {} /\ v = Min(R)
  BY <1>3, <1>10, MinIs
<1>11. CASE IsBitSet(d, s)
  BY <1>1, <1>3, <1>4, <1>10, <1>11 DEF R, v
<1>12. CASE ~IsBitSet(d, s) /\ f = l
  <2>1. only \in Word /\ R = Within(f, only)
    BY <1>2, <1>12
  <2>2. CASE only = {}
    BY <1>1, <1>5, <1>12, <2>1, <2>2 DEF R, v
  <2>3. CASE only # {}
    <3>1. v = BitShift(f) + LeastSignificantBit(only)
      BY <1>1, <1>12, <2>3
    <3>2. v \in R /\ \A p \in R : v <= p
      BY <1>5, <2>1, <2>3, <3>1
    <3> QED
      BY <1>10, <3>2 DEF R, v
  <2> QED
    BY <2>2, <2>3
<1>13. CASE ~IsBitSet(d, s) /\ f # l
  <2>1. R = head \cup inner \cup tail
    BY <1>2, <1>13
  <2>2. CASE first # {}
    <3>1. v = BitShift(f) + LeastSignificantBit(first)
      BY <1>1, <1>13, <2>2
    <3>2. v \in R /\ \A p \in R : v <= p
      BY <1>6, <1>7, <1>9, <1>13, <2>1, <2>2, <3>1
    <3> QED
      BY <1>10, <3>2 DEF R, v
  <2>3. CASE first = {} /\ filled # {}
    <3>1. v = LowestOf(d, Min(filled))
      BY <1>1, <1>13, <2>3
    <3>2. v \in R /\ \A p \in R : v <= p
      BY <1>6, <1>7, <1>8, <1>9, <1>13, <2>1, <2>3, <3>1
    <3> QED
      BY <1>10, <3>2 DEF R, v
  <2>4. CASE first = {} /\ filled = {} /\ last # {}
    <3>1. v = BitShift(l) + LeastSignificantBit(last)
      BY <1>1, <1>13, <2>4
    <3>2. v \in R /\ \A p \in R : v <= p
      BY <1>6, <1>7, <1>8, <2>1, <2>4, <3>1
    <3> QED
      BY <1>10, <3>2 DEF R, v
  <2>5. CASE first = {} /\ filled = {} /\ last = {}
    BY <1>1, <1>6, <1>7, <1>8, <1>13, <2>1, <2>5 DEF R, v
  <2> QED
    BY <2>2, <2>3, <2>4, <2>5
<1> QED
  BY <1>11, <1>12, <1>13

LEMMA MostInRangeIs ==
    ASSUME WordAssumption, NEW m \in Nat, NEW d \in Arrays(m), NEW s \in Nat, NEW e \in Nat,
           s <= e, BitOffset(e) \in 0 .. m - 1
    PROVE  MostSignificantBitInRange(d, s, e) =
               IF SetIn(d, s, e) = {} THEN -1 ELSE Max(SetIn(d, s, e))
<1> DEFINE f == BitOffset(s)
           l == BitOffset(e)
           only == OnlyPart(d, s, e)
           first == FirstPart(d, s)
           last == LastPart(d, e)
           filled == Filled(d, Between(s, e))
           head == Within(f, first)
           inner == InWords(d, Between(s, e))
           tail == Within(l, last)
           R == SetIn(d, s, e)
           v == MostSignificantBitInRange(d, s, e)
<1>1. v = IF IsBitSet(d, e) THEN e
          ELSE IF f = l
          THEN IF only = {} THEN -1 ELSE BitShift(l) + MostSignificantBit(only)
          ELSE IF last # {}
          THEN BitShift(l) + MostSignificantBit(last)
          ELSE IF filled # {} THEN HighestOf(d, Max(filled))
          ELSE IF first # {} THEN BitShift(f) + MostSignificantBit(first)
          ELSE -1
  BY Zenon DEF MostSignificantBitInRange, OnlyPart, FirstPart, LastPart, Between
<1>2. /\ f \in Nat /\ l \in Nat /\ first \in Word /\ last \in Word
      /\ Between(s, e) \in SUBSET (0 .. m - 1)
      /\ f = l => only \in Word /\ R = Within(f, only)
      /\ f # l => R = head \cup inner \cup tail
  BY RangeParts
<1>3. R \subseteq Nat /\ R \subseteq Int /\ \A p \in R : s <= p /\ p <= e
  BY PositionsOf DEF SetIn
<1>4. IsBitSet(d, e) => e \in R
  <2>1. BitOffset(e) \in 0 .. m - 1
    BY RangeParts
  <2>2. IsBitSet(d, e) => e \in Positions(d)
    BY <2>1, PositionsOf DEF IsBitSet
  <2> QED
    BY <2>2 DEF SetIn
<1>5. /\ only \in Word /\ only # {} =>
             /\ BitShift(l) + MostSignificantBit(only) \in Within(l, only)
             /\ \A p \in Within(l, only) : p <= BitShift(l) + MostSignificantBit(only)
      /\ only \in Word => (only = {} <=> Within(l, only) = {})
  BY <1>2, PartEnds
<1>6. /\ first # {} =>
             /\ BitShift(f) + MostSignificantBit(first) \in head
             /\ \A p \in head : p <= BitShift(f) + MostSignificantBit(first)
      /\ first = {} <=> head = {}
  BY <1>2, PartEnds
<1>7. /\ last # {} =>
             /\ BitShift(l) + MostSignificantBit(last) \in tail
             /\ \A p \in tail : p <= BitShift(l) + MostSignificantBit(last)
      /\ last = {} <=> tail = {}
  BY <1>2, PartEnds
<1>8. /\ filled # {} =>
             /\ HighestOf(d, Max(filled)) \in inner
             /\ \A p \in inner : p <= HighestOf(d, Max(filled))
      /\ filled = {} <=> inner = {}
  BY <1>2, FilledEnds
<1>9. f # l => /\ \A p \in head, q \in inner : p <= q
               /\ \A p \in head, q \in tail : p <= q
               /\ \A p \in inner, q \in tail : p <= q
  BY PartsInOrder, Zenon
<1> HIDE DEF f, l, only, first, last, filled, head, inner, tail, R, v
<1>10. ASSUME v \in R, \A p \in R : p <= v PROVE R # {} /\ v = Max(R)
  BY <1>3, <1>10, MaxIs
<1>11. CASE IsBitSet(d, e)
  BY <1>1, <1>3, <1>4, <1>10, <1>11 DEF R, v
<1>12. CASE ~IsBitSet(d, e) /\ f = l
  <2>1. only \in Word /\ R = Within(l, only)
    BY <1>2, <1>12
  <2>2. CASE only = {}
    BY <1>1, <1>5, <1>12, <2>1, <2>2 DEF R, v
  <2>3. CASE only # {}
    <3>1. v = BitShift(l) + MostSignificantBit(only)
      BY <1>1, <1>12, <2>3
    <3>2. v \in R /\ \A p \in R : p <= v
      BY <1>5, <2>1, <2>3, <3>1
    <3> QED
      BY <1>10, <3>2 DEF R, v
  <2> QED
    BY <2>2, <2>3
<1>13. CASE ~IsBitSet(d, e) /\ f # l
  <2>1. R = head \cup inner \cup tail
    BY <1>2, <1>13
  <2>2. CASE last # {}
    <3>1. v = BitShift(l) + MostSignificantBit(last)
      BY <1>1, <1>13, <2>2
    <3>2. v \in R /\ \A p \in R : p <= v
      BY <1>6, <1>7, <1>9, <1>13, <2>1, <2>2, <3>1
    <3> QED
      BY <1>10, <3>2 DEF R, v
  <2>3. CASE last = {} /\ filled # {}
    <3>1. v = HighestOf(d, Max(filled))
      BY <1>1, <1>13, <2>3
    <3>2. v \in R /\ \A p \in R : p <= v
      BY <1>6, <1>7, <1>8, <1>9, <1>13, <2>1, <2>3, <3>1
    <3> QED
      BY <1>10, <3>2 DEF R, v
  <2>4. CASE last = {} /\ filled = {} /\ first # {}
    <3>1. v = BitShift(f) + MostSignificantBit(first)
      BY <1>1, <1>13, <2>4
    <3>2. v \in R /\ \A p \in R : p <= v
      BY <1>6, <1>7, <1>8, <2>1, <2>4, <3>1
    <3> QED
      BY <1>10, <3>2 DEF R, v
  <2>5. CASE first = {} /\ filled = {} /\ last = {}
    BY <1>1, <1>6, <1>7, <1>8, <1>13, <2>1, <2>5 DEF R, v
  <2> QED
    BY <2>2, <2>3, <2>4, <2>5
<1> QED
  BY <1>11, <1>12, <1>13

LEMMA UnsafeLeastIs ==
    ASSUME WordAssumption, NEW m \in Nat, NEW d \in Arrays(m), NEW s \in Nat, NEW e \in Nat,
           s <= e, BitOffset(e) \in 0 .. m - 1, e \in SetIn(d, s, e)
    PROVE  UnsafeLeastSignificantBit(d, s, e) = Min(SetIn(d, s, e))
<1> DEFINE f == BitOffset(s)
           l == BitOffset(e)
           part == FirstPart(d, s)
           others == f + 1 .. l
           filled == Filled(d, others)
           near == Within(f, part)
           far == InWords(d, others)
           R == SetIn(d, s, e)
           v == UnsafeLeastSignificantBit(d, s, e)
<1>1. v = IF IsBitSet(d, s) THEN s
          ELSE IF part # {} THEN BitShift(f) + LeastSignificantBit(part)
          ELSE IF filled # {} THEN LowestOf(d, Min(filled))
          ELSE -1
  BY Zenon DEF UnsafeLeastSignificantBit, FirstPart
<1>2. /\ f \in Nat /\ l \in Nat /\ f \in 0 .. m - 1 /\ l \in 0 .. m - 1 /\ f <= l
      /\ BitPos(s) \in Bit /\ BitPos(e) \in Bit
      /\ part \in Word
  BY RangeParts, RangeBounds
<1>3. others \in SUBSET (0 .. m - 1)
  BY <1>2
<1>4. R \subseteq Nat /\ R \subseteq Int /\ \A p \in R : s <= p /\ p <= e
  BY PositionsOf DEF SetIn
<1>5. Positions(d) \subseteq Nat /\ \A p \in Nat :
          p \in Positions(d) <=> BitOffset(p) \in 0 .. m - 1 /\ BitPos(p) \in d[BitOffset(p)]
  BY PositionsOf
<1>6. \A p \in Nat :
          /\ s <= p <=> f < BitOffset(p) \/ (f = BitOffset(p) /\ BitPos(s) <= BitPos(p))
          /\ p <= e <=> BitOffset(p) < l \/ (BitOffset(p) = l /\ BitPos(p) <= BitPos(e))
  <2>1. ASSUME NEW p \in Nat PROVE BitPos(p) \in Int /\ BitOffset(p) \in Nat
    BY Division DEF Bit
  <2>2. ASSUME NEW p \in Nat, NEW q \in Nat
        PROVE  p <= q <=> \/ BitOffset(p) < BitOffset(q)
                          \/ BitOffset(p) = BitOffset(q) /\ BitPos(p) <= BitPos(q)
    <3>1. p = q <=> BitOffset(p) = BitOffset(q) /\ BitPos(p) = BitPos(q)
      BY Ordered
    <3>2. p < q <=> \/ BitOffset(p) < BitOffset(q)
                    \/ BitOffset(p) = BitOffset(q) /\ BitPos(p) < BitPos(q)
      BY Ordered
    <3>3. p <= q <=> p < q \/ p = q
      OBVIOUS
    <3>4. BitPos(p) <= BitPos(q) <=> BitPos(p) < BitPos(q) \/ BitPos(p) = BitPos(q)
      BY <2>1
    <3> QED
      BY <3>1, <3>2, <3>3, <3>4, Zenon
  <2> QED
    BY <2>2, Zenon
<1>7. \A b \in Bit : b \in part <=> b \in d[f] /\ BitPos(s) <= b
  <2>1. IntervalUp(BitPos(s)) = {b \in Bit : b >= BitPos(s)}
    BY <1>2, Masks
  <2>2. \A b \in Bit : b >= BitPos(s) <=> BitPos(s) <= b
    OBVIOUS
  <2> QED
    BY <2>1, <2>2, Zenon DEF FirstPart
<1>8. \A p \in Nat : BitOffset(p) \in Nat /\ BitPos(p) \in Bit
  BY Division
<1>9. /\ part # {} =>
             /\ BitShift(f) + LeastSignificantBit(part) \in near
             /\ \A p \in near : BitShift(f) + LeastSignificantBit(part) <= p
      /\ part = {} <=> near = {}
  BY <1>2, PartEnds
<1>10. /\ filled # {} =>
              /\ LowestOf(d, Min(filled)) \in far
              /\ \A p \in far : LowestOf(d, Min(filled)) <= p
       /\ filled = {} <=> far = {}
  BY <1>3, FilledEnds
<1>11. \A o \in Nat : o \in others <=> f < o /\ o <= l
  BY <1>2
<1>12. \A p \in near : p \in Nat /\ BitOffset(p) = f /\ BitPos(p) \in part
  BY DEF Within
<1>13. \A p \in far : p \in Nat /\ p \in Positions(d) /\ BitOffset(p) \in others
  BY <1>5 DEF InWords
<1> HIDE DEF f, l, part, others, filled, near, far, R, v
<1>14. \A p \in near \cup far : p \in Positions(d) /\ s <= p
  <2>1. ASSUME NEW p \in near PROVE p \in Positions(d) /\ s <= p
    BY <1>2, <1>5, <1>6, <1>7, <1>8, <1>12
  <2>2. ASSUME NEW p \in far PROVE p \in Positions(d) /\ s <= p
    BY <1>6, <1>8, <1>11, <1>13
  <2> QED
    BY <2>1, <2>2
<1>15. \A p \in R : p \in near \cup far
  <2> SUFFICES ASSUME NEW p \in R PROVE p \in near \cup far
    OBVIOUS
  <2>1. p \in Nat /\ p \in Positions(d) /\ s <= p /\ p <= e
    BY <1>4 DEF R, SetIn
  <2>2. BitOffset(p) \in Nat /\ BitPos(p) \in Bit
    BY <1>8, <2>1
  <2>3. CASE BitOffset(p) = f
    <3>1. BitPos(p) \in d[f]
      BY <1>5, <2>1, <2>3
    <3>2. BitPos(s) <= BitPos(p)
      BY <1>2, <1>6, <2>1, <2>2, <2>3
    <3> QED
      BY <1>7, <2>1, <2>2, <2>3, <3>1, <3>2 DEF near, Within
  <2>4. CASE BitOffset(p) # f
    <3>1. BitOffset(p) \in others
      BY <1>2, <1>6, <1>11, <2>1, <2>2, <2>4
    <3> QED
      BY <2>1, <3>1 DEF far, InWords
  <2> QED
    BY <2>3, <2>4
<1>16. \A p \in near, q \in far : p <= q
  <2> SUFFICES ASSUME NEW p \in near, NEW q \in far PROVE p <= q
    OBVIOUS
  <2>1. p \in Nat /\ q \in Nat /\ BitOffset(p) = f /\ BitOffset(q) \in others
    BY <1>12, <1>13
  <2>2. BitOffset(p) < BitOffset(q)
    BY <1>8, <1>11, <2>1
  <2> QED
    BY <2>1, <2>2, Ordered
<1>17. ASSUME v \in near \cup far, \A p \in near \cup far : v <= p PROVE v = Min(R)
  <2>1. v \in Positions(d) /\ v \in Nat
    BY <1>5, <1>14, <1>17
  <2>2. s <= v
    BY <1>14, <1>17
  <2>3. \A p \in R : v <= p
    BY <1>15, <1>17
  <2>4. e \in R
    BY DEF R
  <2>5. s <= v /\ v <= e
    BY <2>2, <2>3, <2>4
  <2>6. v \in s .. e
    BY <2>1, <2>5
  <2>7. v \in R
    BY <2>1, <2>6 DEF R, SetIn
  <2> QED
    BY <1>4, <2>3, <2>7, MinIs
<1>18. CASE IsBitSet(d, s)
  <2>1. s \in Positions(d)
    BY <1>2, <1>5, <1>18 DEF IsBitSet, f, l
  <2>2. s \in R
    BY <2>1 DEF R, SetIn
  <2> QED
    BY <1>1, <1>4, <1>18, <2>2, MinIs DEF v, R
<1>19. CASE ~IsBitSet(d, s) /\ part # {}
  <2>1. v = BitShift(f) + LeastSignificantBit(part)
    BY <1>1, <1>19
  <2>2. v \in near /\ \A p \in near : v <= p
    BY <1>9, <1>19, <2>1
  <2> QED
    BY <1>16, <1>17, <2>2 DEF v, R
<1>20. CASE ~IsBitSet(d, s) /\ part = {}
  <2>1. near = {} /\ far # {}
    BY <1>9, <1>15, <1>20 DEF R
  <2>2. v = LowestOf(d, Min(filled))
    BY <1>1, <1>10, <1>20, <2>1
  <2>3. v \in far /\ \A p \in far : v <= p
    BY <1>10, <2>1, <2>2
  <2> QED
    BY <1>17, <2>1, <2>3 DEF v, R
<1> QED
  BY <1>18, <1>19, <1>20

LEMMA UnsafeMostIs ==
    ASSUME WordAssumption, NEW m \in Nat, NEW d \in Arrays(m), NEW s \in Nat, NEW e \in Nat,
           s <= e, BitOffset(e) \in 0 .. m - 1, s \in SetIn(d, s, e)
    PROVE  UnsafeMostSignificantBit(d, s, e) = Max(SetIn(d, s, e))
<1> DEFINE f == BitOffset(s)
           l == BitOffset(e)
           part == LastPart(d, e)
           others == f .. l - 1
           filled == Filled(d, others)
           near == Within(l, part)
           far == InWords(d, others)
           R == SetIn(d, s, e)
           v == UnsafeMostSignificantBit(d, s, e)
<1>1. v = IF IsBitSet(d, e) THEN e
          ELSE IF part # {} THEN BitShift(l) + MostSignificantBit(part)
          ELSE IF filled # {} THEN HighestOf(d, Max(filled))
          ELSE -1
  BY Zenon DEF UnsafeMostSignificantBit, LastPart
<1>2. /\ f \in Nat /\ l \in Nat /\ f \in 0 .. m - 1 /\ l \in 0 .. m - 1 /\ f <= l
      /\ BitPos(s) \in Bit /\ BitPos(e) \in Bit
      /\ part \in Word
  BY RangeParts, RangeBounds
<1>3. others \in SUBSET (0 .. m - 1)
  BY <1>2
<1>4. R \subseteq Nat /\ R \subseteq Int /\ \A p \in R : s <= p /\ p <= e
  BY PositionsOf DEF SetIn
<1>5. Positions(d) \subseteq Nat /\ \A p \in Nat :
          p \in Positions(d) <=> BitOffset(p) \in 0 .. m - 1 /\ BitPos(p) \in d[BitOffset(p)]
  BY PositionsOf
<1>6. \A p \in Nat :
          /\ s <= p <=> f < BitOffset(p) \/ (f = BitOffset(p) /\ BitPos(s) <= BitPos(p))
          /\ p <= e <=> BitOffset(p) < l \/ (BitOffset(p) = l /\ BitPos(p) <= BitPos(e))
  <2>1. ASSUME NEW p \in Nat PROVE BitPos(p) \in Int /\ BitOffset(p) \in Nat
    BY Division DEF Bit
  <2>2. ASSUME NEW p \in Nat, NEW q \in Nat
        PROVE  p <= q <=> \/ BitOffset(p) < BitOffset(q)
                          \/ BitOffset(p) = BitOffset(q) /\ BitPos(p) <= BitPos(q)
    <3>1. p = q <=> BitOffset(p) = BitOffset(q) /\ BitPos(p) = BitPos(q)
      BY Ordered
    <3>2. p < q <=> \/ BitOffset(p) < BitOffset(q)
                    \/ BitOffset(p) = BitOffset(q) /\ BitPos(p) < BitPos(q)
      BY Ordered
    <3>3. p <= q <=> p < q \/ p = q
      OBVIOUS
    <3>4. BitPos(p) <= BitPos(q) <=> BitPos(p) < BitPos(q) \/ BitPos(p) = BitPos(q)
      BY <2>1
    <3> QED
      BY <3>1, <3>2, <3>3, <3>4, Zenon
  <2> QED
    BY <2>2, Zenon
<1>7. \A b \in Bit : b \in part <=> b \in d[l] /\ b <= BitPos(e)
  <2>1. IntervalDown(BitPos(e)) = {b \in Bit : b <= BitPos(e)}
    BY <1>2, Masks
  <2>2. \A b \in Bit : b <= BitPos(e) <=> b <= BitPos(e)
    OBVIOUS
  <2> QED
    BY <2>1, <2>2, Zenon DEF LastPart
<1>8. \A p \in Nat : BitOffset(p) \in Nat /\ BitPos(p) \in Bit
  BY Division
<1>9. /\ part # {} =>
             /\ BitShift(l) + MostSignificantBit(part) \in near
             /\ \A p \in near : p <= BitShift(l) + MostSignificantBit(part)
      /\ part = {} <=> near = {}
  BY <1>2, PartEnds
<1>10. /\ filled # {} =>
              /\ HighestOf(d, Max(filled)) \in far
              /\ \A p \in far : p <= HighestOf(d, Max(filled))
       /\ filled = {} <=> far = {}
  BY <1>3, FilledEnds
<1>11. \A o \in Nat : o \in others <=> f <= o /\ o < l
  BY <1>2
<1>12. \A p \in near : p \in Nat /\ BitOffset(p) = l /\ BitPos(p) \in part
  BY DEF Within
<1>13. \A p \in far : p \in Nat /\ p \in Positions(d) /\ BitOffset(p) \in others
  BY <1>5 DEF InWords
<1> HIDE DEF f, l, part, others, filled, near, far, R, v
<1>14. \A p \in near \cup far : p \in Positions(d) /\ p <= e
  <2>1. ASSUME NEW p \in near PROVE p \in Positions(d) /\ p <= e
    BY <1>2, <1>5, <1>6, <1>7, <1>8, <1>12
  <2>2. ASSUME NEW p \in far PROVE p \in Positions(d) /\ p <= e
    BY <1>6, <1>8, <1>11, <1>13
  <2> QED
    BY <2>1, <2>2
<1>15. \A p \in R : p \in near \cup far
  <2> SUFFICES ASSUME NEW p \in R PROVE p \in near \cup far
    OBVIOUS
  <2>1. p \in Nat /\ p \in Positions(d) /\ s <= p /\ p <= e
    BY <1>4 DEF R, SetIn
  <2>2. BitOffset(p) \in Nat /\ BitPos(p) \in Bit
    BY <1>8, <2>1
  <2>3. CASE BitOffset(p) = l
    <3>1. BitPos(p) \in d[l]
      BY <1>5, <2>1, <2>3
    <3>2. BitPos(p) <= BitPos(e)
      BY <1>2, <1>6, <2>1, <2>2, <2>3
    <3> QED
      BY <1>7, <2>1, <2>2, <2>3, <3>1, <3>2 DEF near, Within
  <2>4. CASE BitOffset(p) # l
    <3>1. BitOffset(p) \in others
      BY <1>2, <1>6, <1>11, <2>1, <2>2, <2>4
    <3> QED
      BY <2>1, <3>1 DEF far, InWords
  <2> QED
    BY <2>3, <2>4
<1>16. \A p \in near, q \in far : q <= p
  <2> SUFFICES ASSUME NEW p \in near, NEW q \in far PROVE q <= p
    OBVIOUS
  <2>1. p \in Nat /\ q \in Nat /\ BitOffset(p) = l /\ BitOffset(q) \in others
    BY <1>12, <1>13
  <2>2. BitOffset(q) < BitOffset(p)
    BY <1>8, <1>11, <2>1
  <2> QED
    BY <2>1, <2>2, Ordered
<1>17. ASSUME v \in near \cup far, \A p \in near \cup far : p <= v PROVE v = Max(R)
  <2>1. v \in Positions(d) /\ v \in Nat
    BY <1>5, <1>14, <1>17
  <2>2. v <= e
    BY <1>14, <1>17
  <2>3. \A p \in R : p <= v
    BY <1>15, <1>17
  <2>4. s \in R
    BY DEF R
  <2>5. s <= v /\ v <= e
    BY <2>2, <2>3, <2>4
  <2>6. v \in s .. e
    BY <2>1, <2>5
  <2>7. v \in R
    BY <2>1, <2>6 DEF R, SetIn
  <2> QED
    BY <1>4, <2>3, <2>7, MaxIs
<1>18. CASE IsBitSet(d, e)
  <2>1. e \in Positions(d)
    BY <1>2, <1>5, <1>18 DEF IsBitSet, f, l
  <2>2. e \in R
    BY <2>1 DEF R, SetIn
  <2> QED
    BY <1>1, <1>4, <1>18, <2>2, MaxIs DEF v, R
<1>19. CASE ~IsBitSet(d, e) /\ part # {}
  <2>1. v = BitShift(l) + MostSignificantBit(part)
    BY <1>1, <1>19
  <2>2. v \in near /\ \A p \in near : p <= v
    BY <1>9, <1>19, <2>1
  <2> QED
    BY <1>16, <1>17, <2>2 DEF v, R
<1>20. CASE ~IsBitSet(d, e) /\ part = {}
  <2>1. near = {} /\ far # {}
    BY <1>9, <1>15, <1>20 DEF R
  <2>2. v = HighestOf(d, Max(filled))
    BY <1>1, <1>10, <1>20, <2>1
  <2>3. v \in far /\ \A p \in far : p <= v
    BY <1>10, <2>1, <2>2
  <2> QED
    BY <1>17, <2>1, <2>3 DEF v, R
<1> QED
  BY <1>18, <1>19, <1>20

-----------------------------------------------------------------------------
\* Counts.

LEMMA WordCount ==
    ASSUME WordAssumption, NEW o \in Nat, NEW u \in Word
    PROVE  /\ IsFiniteSet(Within(o, u))
           /\ BitCount(u) \in Nat
           /\ Cardinality(Within(o, u)) = BitCount(u)
<1>1. W - 1 \in Int /\ u \subseteq 0 .. W - 1 /\ \A b \in u : b \in Bit
  BY DEF WordAssumption, Word, Bit
<1>2. IsFiniteSet(u)
  <2>1. 0 \in Int /\ IsFiniteSet(0 .. W - 1) /\ u \in SUBSET (0 .. W - 1)
    BY <1>1, FS_Interval
  <2> QED
    BY <2>1, FS_Subset
<1> DEFINE g == [b \in u |-> At(o, b)]
<1>3. \A b \in u : At(o, b) \in Nat /\ BitOffset(At(o, b)) = o /\ BitPos(At(o, b)) = b
  BY <1>1, Composition
<1>4. \A p \in Within(o, u) : p \in Nat /\ BitOffset(p) = o /\ BitPos(p) \in u
  BY DEF Within
<1>5. \A p \in Within(o, u) : p = At(o, BitPos(p))
  BY <1>4, Division
<1>6. g \in [u -> Within(o, u)]
  BY <1>3 DEF Within
<1>7. \A b \in u : BitPos(g[b]) = b
  BY <1>3
<1>8. \A p \in Within(o, u) : g[BitPos(p)] = p
  BY <1>4, <1>5
<1> HIDE DEF g
<1>9. g \in Bijection(u, Within(o, u))
  <2>1. IsInjective(g)
    <3>1. DOMAIN g = u
      BY <1>6
    <3> QED
      BY <1>7, <3>1 DEF IsInjective
  <2>2. \A p \in Within(o, u) : \E b \in u : g[b] = p
    BY <1>4, <1>8, Zenon
  <2>3. g \in Injection(u, Within(o, u)) /\ g \in Surjection(u, Within(o, u))
    BY <1>6, <2>1, <2>2 DEF Injection, Surjection
  <2> QED
    BY <2>3 DEF Bijection
<1>10. ExistsBijection(u, Within(o, u))
  BY <1>9, Zenon DEF ExistsBijection
<1> QED
  BY <1>2, <1>10, FS_Bijection, FS_CardinalityType DEF BitCount

LEMMA DisjointCount ==
    ASSUME NEW S, NEW T, IsFiniteSet(S), IsFiniteSet(T), S \cap T = {}
    PROVE  /\ IsFiniteSet(S \cup T)
           /\ Cardinality(S \cup T) = Cardinality(S) + Cardinality(T)
           /\ Cardinality(S \cup T) \in Nat
<1>1. Cardinality(S) \in Nat /\ Cardinality(T) \in Nat
  BY FS_CardinalityType
<1>2. Cardinality(S \cap T) = 0
  BY FS_EmptySet
<1> QED
  BY <1>1, <1>2, FS_Union

\* The positions from s on in the words up to one.
Counted(d, s, o) ==
    Within(BitOffset(s), FirstPart(d, s)) \cup InWords(d, BitOffset(s) + 1 .. o)

LEMMA CountedIs ==
    ASSUME WordAssumption, NEW m \in Nat, NEW d \in Arrays(m), NEW s \in Nat,
           NEW o \in Nat, BitOffset(s) <= o, o \in 0 .. m - 1
    PROVE  /\ IsFiniteSet(Counted(d, s, o))
           /\ Cardinality(Counted(d, s, o)) \in Nat
           /\ o = BitOffset(s) =>
                 Cardinality(Counted(d, s, o)) = BitCount(FirstPart(d, s))
           /\ o # BitOffset(s) =>
                 Cardinality(Counted(d, s, o)) =
                     Cardinality(Counted(d, s, o - 1)) + BitCount(d[o])
<1> DEFINE f == BitOffset(s)
           head == Within(f, FirstPart(d, s))
<1>1. f \in Nat /\ BitPos(s) \in Bit
  BY Division
<1>2. f \in 0 .. m - 1
  BY <1>1
<1>3. d[o] \in Word /\ d[f] \in Word /\ FirstPart(d, s) \in Word
  BY <1>2 DEF Arrays, Word, FirstPart
<1>4. IsFiniteSet(head) /\ Cardinality(head) = BitCount(FirstPart(d, s))
  BY <1>1, <1>3, WordCount
<1>5. /\ IsFiniteSet(Within(o, d[o]))
      /\ Cardinality(Within(o, d[o])) = BitCount(d[o])
  BY <1>3, WordCount
<1>6. \A O : IsFiniteSet(InWords(d, O))
  <2>1. W * m - 1 \in Int /\ 0 \in Int
    BY DEF WordAssumption
  <2>2. IsFiniteSet(0 .. W * m - 1)
    BY <2>1, FS_Interval
  <2>3. \A O : InWords(d, O) \in SUBSET (0 .. W * m - 1)
    BY PositionsOf DEF InWords
  <2> QED
    BY <2>2, <2>3, FS_Subset
<1>7. \A r : Counted(d, s, r) = head \cup InWords(d, f + 1 .. r)
  BY Zenon DEF Counted
<1>8. ASSUME NEW r PROVE IsFiniteSet(Counted(d, s, r))
  <2> DEFINE inner == InWords(d, f + 1 .. r)
  <2>1. IsFiniteSet(inner)
    BY <1>6
  <2> HIDE DEF head, f, inner
  <2>2. IsFiniteSet(head \cup inner)
    BY <1>4, <2>1, FS_Union
  <2> QED
    BY <1>7, <2>2 DEF inner
<1>9. CASE o = f
  <2>1. InWords(d, f + 1 .. o) = {}
    BY <1>1, <1>9 DEF InWords
  <2>2. Counted(d, s, o) = head
    BY <1>7, <2>1
  <2> QED
    BY <1>4, <1>8, <1>9, <2>2, FS_CardinalityType
<1>10. CASE o # f
  <2>1. f + 1 .. o = (f + 1 .. o - 1) \cup {o} /\ o \notin f + 1 .. o - 1
    BY <1>1, <1>10
  <2>2. Within(o, d[o]) = InWords(d, {o})
    <3>1. Positions(d) \subseteq Nat /\ \A p \in Nat : p \in Positions(d) <=>
              BitOffset(p) \in 0 .. m - 1 /\ BitPos(p) \in d[BitOffset(p)]
      BY PositionsOf
    <3> QED
      BY <3>1, Zenon DEF Within, InWords
  <2>3. InWords(d, f + 1 .. o) = InWords(d, f + 1 .. o - 1) \cup InWords(d, {o})
    BY <2>1, Zenon DEF InWords
  <2>4. Counted(d, s, o) = Counted(d, s, o - 1) \cup Within(o, d[o])
    BY <1>7, <2>2, <2>3, Zenon
  <2>5. Counted(d, s, o - 1) \cap Within(o, d[o]) = {}
    <3>1. \A p \in head : BitOffset(p) = f
      BY DEF Within
    <3>2. \A p \in InWords(d, f + 1 .. o - 1) : BitOffset(p) # o
      BY <2>1 DEF InWords
    <3>3. \A p \in Within(o, d[o]) : BitOffset(p) = o
      BY DEF Within
    <3> HIDE DEF head, f
    <3> QED
      BY <1>7, <1>10, <3>1, <3>2, <3>3
  <2> HIDE DEF f
  <2> QED
    BY <1>5, <1>8, <1>10, <2>4, <2>5, DisjointCount, FS_CardinalityType DEF f
<1> QED
  BY <1>9, <1>10

LEMMA CountUpToIs ==
    ASSUME WordAssumption, NEW m \in Nat, NEW d \in Arrays(m), NEW s \in Nat,
           NEW last \in Nat, BitOffset(s) <= last, last \in 0 .. m - 1
    PROVE  CountUpTo(d, s, last) = Cardinality(Counted(d, s, last))
<1> DEFINE f == BitOffset(s)
           Body(c, o) == IF o = f THEN BitCount(d[f] \cap IntervalUp(BitPos(s)))
                         ELSE c[o - 1] + BitCount(d[o])
           Solves(c) == c = [o \in f .. last |-> Body(c, o)]
           C == CHOOSE c : Solves(c)
           g == [o \in f .. last |-> Cardinality(Counted(d, s, o))]
<1>1. f \in Nat /\ f <= last
  BY Division
<1>2. ASSUME NEW o \in f .. last
      PROVE  /\ o \in Nat /\ f <= o /\ o \in 0 .. m - 1
             /\ o = f => Cardinality(Counted(d, s, o)) = BitCount(FirstPart(d, s))
             /\ o # f => Cardinality(Counted(d, s, o)) =
                             Cardinality(Counted(d, s, o - 1)) + BitCount(d[o])
  <2>1. o \in Nat /\ f <= o /\ o \in 0 .. m - 1
    BY <1>1
  <2> QED
    BY <2>1, CountedIs
<1>3. ASSUME NEW o \in f .. last PROVE g[o] = Body(g, o)
  <2>1. CASE o = f
    BY <1>2, <2>1 DEF FirstPart
  <2>2. CASE o # f
    <3>1. o - 1 \in f .. last
      BY <1>1, <2>2
    <3>2. g[o - 1] = Cardinality(Counted(d, s, o - 1))
      BY <3>1
    <3> QED
      BY <1>2, <2>2, <3>2
  <2> QED
    BY <2>1, <2>2
<1>4. Solves(g)
  <2>1. g = [o \in f .. last |-> g[o]]
    OBVIOUS
  <2> HIDE DEF g, Body, f
  <2> QED
    BY <1>3, <2>1
<1>5. Solves(C)
  <2> HIDE DEF Solves, g
  <2> QED
    BY <1>4
<1>6. CountUpTo(d, s, last) = C[last]
  BY Zenon DEF CountUpTo
<1> HIDE DEF C, g
<1>7. \A o \in f .. last : C[o] = Body(C, o) /\ g[o] = Body(g, o)
  <2> HIDE DEF Body, f
  <2> QED
    BY <1>3, <1>5
<1> DEFINE Same == {k \in 0 .. last - f : C[f + k] = g[f + k]}
<1>8. 0 \in Same
  <2>1. f \in f .. last /\ f + 0 = f /\ 0 \in 0 .. last - f
    BY <1>1
  <2> QED
    BY <1>7, <2>1
<1>9. ASSUME NEW k \in 0 .. last - f, k # last - f, k \in Same PROVE k + 1 \in Same
  <2>1. /\ f + (k + 1) \in f .. last /\ f + (k + 1) # f /\ (f + (k + 1)) - 1 = f + k
        /\ k + 1 \in 0 .. last - f
    BY <1>1, <1>9
  <2>2. C[f + k] = g[f + k]
    BY <1>9
  <2>3. /\ C[f + (k + 1)] = C[f + k] + BitCount(d[f + (k + 1)])
        /\ g[f + (k + 1)] = g[f + k] + BitCount(d[f + (k + 1)])
    <3> DEFINE j == f + (k + 1)
    <3>1. C[j] = Body(C, j) /\ g[j] = Body(g, j)
      BY <1>7, <2>1
    <3> HIDE DEF f
    <3> QED
      BY <2>1, <3>1
  <2> HIDE DEF f
  <2> QED
    BY <2>1, <2>2, <2>3
<1>10. last - f \in Same
  <2>1. last - f \in Nat /\ last - f \in 0 .. last - f
    BY <1>1
  <2>2. \A k \in 0 .. last - f : k \in Same
    <3> HIDE DEF Same, f
    <3> QED
      BY <1>8, <1>9, <2>1, UpTo
  <2> QED
    BY <2>1, <2>2
<1>11. f + (last - f) = last /\ last \in f .. last
  BY <1>1
<1>12. C[last] = g[last]
  BY <1>10, <1>11
<1> QED
  BY <1>6, <1>11, <1>12 DEF g

LEMMA BitCountRangeIs ==
    ASSUME WordAssumption, NEW m \in Nat, NEW d \in Arrays(m), NEW s \in Nat, NEW e \in Nat,
           s <= e, BitOffset(e) \in 0 .. m - 1
    PROVE  BitCountRange(d, s, e) = Cardinality(SetIn(d, s, e))
<1> DEFINE f == BitOffset(s)
           l == BitOffset(e)
           R == SetIn(d, s, e)
           only == OnlyPart(d, s, e)
           last == LastPart(d, e)
           short == {p \in s .. e : IsBitSet(d, p)}
           v == BitCountRange(d, s, e)
<1>1. v = IF e - s <= SmallRange THEN Cardinality(short)
          ELSE IF f = l THEN BitCount(only)
          ELSE CountUpTo(d, s, l - 1) + BitCount(last)
  BY Zenon DEF BitCountRange, OnlyPart, LastPart
<1>2. /\ f \in Nat /\ l \in Nat /\ f \in 0 .. m - 1 /\ last \in Word
      /\ f = l => only \in Word /\ R = Within(f, only)
      /\ f # l => /\ f < l
                  /\ R = Within(f, FirstPart(d, s)) \cup InWords(d, Between(s, e))
                         \cup Within(l, last)
  BY RangeParts
<1>3. short = R
  <2>1. ASSUME NEW p \in s .. e PROVE IsBitSet(d, p) <=> p \in Positions(d)
    <3>1. p \in Nat
      OBVIOUS
    <3>2. BitOffset(p) \in Nat /\ BitOffset(p) <= l
      <4>1. BitOffset(p) \in Nat
        BY <3>1, Division
      <4>2. BitOffset(p) < l \/ BitOffset(p) = l
        BY <3>1, RangeBounds
      <4> HIDE DEF l
      <4> QED
        BY <1>2, <4>1, <4>2
    <3>3. BitOffset(p) \in 0 .. m - 1
      BY <3>2
    <3> QED
      BY <3>1, <3>3, PositionsOf DEF IsBitSet
  <2> QED
    BY <2>1, Zenon DEF SetIn
<1> HIDE DEF f, l, R, only, last, short, v
<1>4. CASE e - s <= SmallRange
  BY <1>1, <1>3, <1>4 DEF v, R
<1>5. CASE ~(e - s <= SmallRange) /\ f = l
  <2>1. Cardinality(Within(f, only)) = BitCount(only)
    BY <1>2, <1>5, WordCount
  <2> QED
    BY <1>1, <1>2, <1>5, <2>1 DEF v, R
<1>6. CASE ~(e - s <= SmallRange) /\ f # l
  <2> DEFINE head == Counted(d, s, l - 1)
             tail == Within(l, last)
  <2>1. l - 1 \in Nat /\ f <= l - 1 /\ l - 1 \in 0 .. m - 1
    BY <1>2, <1>6 DEF l
  <2>2. IsFiniteSet(head) /\ CountUpTo(d, s, l - 1) = Cardinality(head)
    BY <2>1, CountedIs, CountUpToIs DEF f
  <2>3. IsFiniteSet(tail) /\ Cardinality(tail) = BitCount(last)
    BY <1>2, WordCount
  <2>4. R = head \cup tail
    <3>1. head = Within(f, FirstPart(d, s)) \cup InWords(d, Between(s, e))
      BY Zenon DEF Counted, Between, f, l
    <3> QED
      BY <1>2, <1>6, <3>1
  <2>5. head \cap tail = {}
    <3>1. \A p \in head : BitOffset(p) = f \/ BitOffset(p) \in f + 1 .. l - 1
      BY Zenon DEF Counted, Within, InWords, f
    <3>2. \A p \in tail : BitOffset(p) = l
      BY Zenon DEF Within
    <3>3. f # l /\ l \notin f + 1 .. l - 1
      BY <1>2, <1>6
    <3> HIDE DEF head, tail
    <3> QED
      BY <3>1, <3>2, <3>3
  <2> HIDE DEF head, tail
  <2>6. Cardinality(head \cup tail) = Cardinality(head) + Cardinality(tail)
    BY <2>2, <2>3, <2>5, DisjointCount
  <2>7. v = CountUpTo(d, s, l - 1) + BitCount(last)
    BY <1>1, <1>6
  <2> QED
    BY <2>2, <2>3, <2>4, <2>6, <2>7 DEF v, R
<1> QED
  BY <1>4, <1>5, <1>6

\* Every question about a range, for the words of any size.
LEMMA RangesAreAnswered ==
    ASSUME WordAssumption, NEW n \in Nat, NEW d \in Arrays(BitLength(n))
    PROVE  RangesAnswerTheSet(d, n)
<1> SUFFICES ASSUME NEW s \in 0 .. n - 1, NEW e \in 0 .. n - 1, s <= e
             PROVE  LET range == Positions(d) \cap s .. e
                    IN  /\ IsEmptyRange(d, s, e) <=> range = {}
                        /\ BitCountRange(d, s, e) = Cardinality(range)
                        /\ LeastSignificantBitInRange(d, s, e) =
                              IF range = {} THEN -1 ELSE Min(range)
                        /\ MostSignificantBitInRange(d, s, e) =
                              IF range = {} THEN -1 ELSE Max(range)
                        /\ e \in range =>
                              UnsafeLeastSignificantBit(d, s, e) = Min(range)
                        /\ s \in range =>
                              UnsafeMostSignificantBit(d, s, e) = Max(range)
  BY Zenon DEF RangesAnswerTheSet
<1> DEFINE m == BitLength(n)
<1>1. m \in Nat /\ d \in Arrays(m) /\ s \in Nat /\ e \in Nat
  BY Lengths
<1>2. BitOffset(e) \in 0 .. m - 1
  BY Holds
<1>3. Positions(d) \cap s .. e = SetIn(d, s, e)
  BY DEF SetIn
<1> HIDE DEF m
<1>4. IsEmptyRange(d, s, e) <=> SetIn(d, s, e) = {}
  BY <1>1, <1>2, EmptyRangeIs
<1>5. BitCountRange(d, s, e) = Cardinality(SetIn(d, s, e))
  BY <1>1, <1>2, BitCountRangeIs
<1>6. LeastSignificantBitInRange(d, s, e) =
          IF SetIn(d, s, e) = {} THEN -1 ELSE Min(SetIn(d, s, e))
  BY <1>1, <1>2, LeastInRangeIs
<1>7. MostSignificantBitInRange(d, s, e) =
          IF SetIn(d, s, e) = {} THEN -1 ELSE Max(SetIn(d, s, e))
  BY <1>1, <1>2, MostInRangeIs
<1>8. e \in SetIn(d, s, e) => UnsafeLeastSignificantBit(d, s, e) = Min(SetIn(d, s, e))
  BY <1>1, <1>2, UnsafeLeastIs
<1>9. s \in SetIn(d, s, e) => UnsafeMostSignificantBit(d, s, e) = Max(SetIn(d, s, e))
  BY <1>1, <1>2, UnsafeMostIs
<1> QED
  BY <1>3, <1>4, <1>5, <1>6, <1>7, <1>8, <1>9

-----------------------------------------------------------------------------
\* Pairs of bits, and the loop over a bitset.

LEMMA PairIs ==
    ASSUME WordAssumption, NEW m \in Nat, NEW d \in Arrays(m), NEW i \in Nat,
           BitOffset(i) \in 0 .. m - 1
    PROVE  d[BitOffset(i)] \cap TwoBitsFromPos(i) # {} <=>
               \E j \in Positions(d) : j \div 2 = i \div 2
<1> DEFINE o == BitOffset(i)
<1>1. Positions(d) \subseteq Nat /\ \A p \in Nat :
          p \in Positions(d) <=> BitOffset(p) \in 0 .. m - 1 /\ BitPos(p) \in d[BitOffset(p)]
  BY PositionsOf
<1>2. \A j \in Nat : j \div 2 = i \div 2 <=>
          BitOffset(j) = o /\ BitPos(j) \in TwoBitsFromPos(i)
  BY TwoBits
<1>3. o \in Nat /\ d[o] \subseteq Bit
  <2>1. o \in Nat
    BY Division
  <2> QED
    BY <2>1 DEF Arrays, Word
<1> HIDE DEF o
<1>4. ASSUME NEW j \in Positions(d), j \div 2 = i \div 2
      PROVE  d[o] \cap TwoBitsFromPos(i) # {}
  <2>1. j \in Nat
    BY <1>1
  <2>2. BitOffset(j) = o /\ BitPos(j) \in TwoBitsFromPos(i)
    BY <1>2, <1>4, <2>1
  <2>3. BitPos(j) \in d[o]
    BY <1>1, <2>1, <2>2
  <2> QED
    BY <2>2, <2>3
<1>5. ASSUME NEW b \in d[o], b \in TwoBitsFromPos(i)
      PROVE  \E j \in Positions(d) : j \div 2 = i \div 2
  <2>1. b \in Bit
    BY <1>3
  <2>2. At(o, b) \in Nat /\ BitOffset(At(o, b)) = o /\ BitPos(At(o, b)) = b
    BY <1>3, <2>1, Composition
  <2>3. At(o, b) \in Positions(d)
    BY <1>1, <2>2 DEF o
  <2>4. At(o, b) \div 2 = i \div 2
    BY <1>2, <1>5, <2>2
  <2> QED
    BY <2>3, <2>4
<1> QED
  BY <1>4, <1>5 DEF o

\* The iterator at a position.
Place(d, i) == [index |-> i, base |-> BitShift(BitOffset(i)),
                current |-> {b \in d[BitOffset(i)] : b > BitPos(i)}]

\* What is left of a word and of the words after it.
Left(d, o, w) == Within(o, w) \cup InWords(d, {r \in DOMAIN d : r > o})

LEMMA IteratorNextIs ==
    ASSUME WordAssumption, NEW m \in Nat, NEW d \in Arrays(m), NEW o \in 0 .. m - 1,
           NEW w \in Word, w \subseteq d[o], NEW k,
           \A b \in w, c \in d[o] : c > b => c \in w
    PROVE  LET next == IteratorNext(d, [index |-> k, base |-> BitShift(o), current |-> w])
           IN  /\ Left(d, o, w) = {} => next.index = -1
               /\ Left(d, o, w) # {} => next = Place(d, Min(Left(d, o, w)))
<1> DEFINE it == [index |-> k, base |-> BitShift(o), current |-> w]
           O == {r \in DOMAIN d : r > o}
           later == Filled(d, O)
           near == Within(o, w)
           far == InWords(d, O)
           next == IteratorNext(d, it)
<1>1. o \in Nat /\ DOMAIN d = 0 .. m - 1 /\ O \in SUBSET (0 .. m - 1) /\ d[o] \in Word
  BY DEF Arrays
<1>2. BitOffset(BitShift(o)) = o
  <2>1. 0 \in Bit
    BY DEF Bit, WordAssumption
  <2>2. At(o, 0) = BitShift(o)
    BY <1>1 DEF At, BitShift, WordAssumption
  <2> QED
    BY <1>1, <2>1, <2>2, Composition
<1>3. next = IF w # {}
             THEN [index |-> BitShift(o) + LeastSignificantBit(w), base |-> BitShift(o),
                   current |-> w \ {Min(w)}]
             ELSE IF later = {}
             THEN [index |-> -1, base |-> BitShift(o), current |-> w]
             ELSE [index |-> LowestOf(d, Min(later)), base |-> BitShift(Min(later)),
                   current |-> d[Min(later)] \ {Min(d[Min(later)])}]
  <2>1. it.base = BitShift(o) /\ it.current = w
    OBVIOUS
  <2>2. [it EXCEPT !.index = it.base + LeastSignificantBit(it.current),
                   !.current = @ \ {Min(@)}]
            = [index |-> BitShift(o) + LeastSignificantBit(w), base |-> BitShift(o),
               current |-> w \ {Min(w)}]
    <3> DEFINE x == BitShift(o) + LeastSignificantBit(w)
               y == w \ {Min(w)}
    <3>1. /\ it.base + LeastSignificantBit(it.current) = x
          /\ it.current \ {Min(it.current)} = y
      BY <2>1, Zenon
    <3> HIDE DEF x, y
    <3>2. [it EXCEPT !.index = x] = [index |-> x, base |-> BitShift(o), current |-> w]
      OBVIOUS
    <3>3. [[index |-> x, base |-> BitShift(o), current |-> w] EXCEPT !.current = y]
              = [index |-> x, base |-> BitShift(o), current |-> y]
      OBVIOUS
    <3>4. [it EXCEPT !.index = x, !.current = y] = [index |-> x, base |-> BitShift(o), current |-> y]
      BY <3>2, <3>3, Zenon
    <3> QED
      BY <3>1, <3>4, Zenon DEF x, y
  <2>3. AtEnd(it) = [index |-> -1, base |-> BitShift(o), current |-> w]
    BY DEF AtEnd
  <2>4. {r \in DOMAIN d : r > BitOffset(it.base)} = O
    BY <1>2, <2>1
  <2> HIDE DEF it, O
  <2> QED
    BY <2>1, <2>2, <2>3, <2>4, Zenon DEF IteratorNext, O
<1>4. near \subseteq Nat /\ far \subseteq Nat
  BY PositionsOf DEF Within, InWords
<1>5. \A p \in near, q \in far : p <= q
  <2> SUFFICES ASSUME NEW p \in near, NEW q \in far PROVE p <= q
    OBVIOUS
  <2>1. p \in Nat /\ q \in Nat /\ BitOffset(p) = o /\ BitOffset(q) \in O
    BY <1>4 DEF Within, InWords
  <2>2. BitOffset(p) < BitOffset(q)
    BY <1>1, <2>1
  <2> QED
    BY <2>1, <2>2, Ordered
<1>6. Left(d, o, w) = near \cup far
  BY DEF Left
\* The place of the first bit of a word.
<1>7. ASSUME NEW r \in Nat, NEW u \in Word, u # {}, u \subseteq d[r],
             \A b \in u, c \in d[r] : c > b => c \in u
      PROVE  Place(d, BitShift(r) + LeastSignificantBit(u)) =
                 [index |-> BitShift(r) + LeastSignificantBit(u), base |-> BitShift(r),
                  current |-> u \ {Min(u)}]
  <2> DEFINE b == LeastSignificantBit(u)
  <2>1. b = Min(u)
    BY <1>7 DEF LeastSignificantBit
  <2>2. b \in u /\ b \in Bit /\ \A c \in u : b <= c
    BY <1>7, WordEnds
  <2>3. \A c \in u : c \in Nat
    BY DEF Word, Bit
  <2> HIDE DEF b
  <2>4. /\ BitShift(r) + b = At(r, b)
        /\ BitOffset(At(r, b)) = r /\ BitPos(At(r, b)) = b
    BY <2>2, Composition DEF At
  <2>5. {c \in d[r] : c > b} = u \ {b}
    <3>1. \A c \in u : c > b <=> c # b
      BY <2>2, <2>3
    <3>2. ~(b > b)
      BY <2>2, <2>3
    <3> QED
      BY <1>7, <2>2, <3>1, <3>2
  <2> QED
    BY <2>1, <2>4, <2>5 DEF Place, b
<1>8. later = {} <=> far = {}
  BY <1>1, FilledEnds
<1>9. w = {} <=> near = {}
  BY <1>1, PartEnds
<1> HIDE DEF it, near, far, later, next, O
<1>10. ASSUME NEW v \in near \cup far, \A p \in near \cup far : v <= p
       PROVE  Min(Left(d, o, w)) = v
  <2>1. near \cup far \subseteq Int
    BY <1>4
  <2> QED
    BY <1>6, <1>10, <2>1, MinIs
<1>11. CASE w # {}
  <2> DEFINE v == BitShift(o) + LeastSignificantBit(w)
  <2>1. v \in near /\ \A p \in near : v <= p
    BY <1>1, <1>11, PartEnds DEF near
  <2> HIDE DEF v
  <2>2. \A p \in near \cup far : v <= p
    BY <1>5, <2>1
  <2>3. Min(Left(d, o, w)) = v
    BY <1>10, <2>1, <2>2
  <2>4. next = Place(d, v)
    BY <1>1, <1>3, <1>7, <1>11 DEF v
  <2> QED
    BY <1>6, <2>1, <2>3, <2>4 DEF next, it
<1>12. CASE w = {} /\ later # {}
  <2> DEFINE a == Min(later)
             v == LowestOf(d, a)
  <2>1. v \in far /\ \A p \in far : v <= p
    BY <1>1, <1>12, FilledEnds DEF far, later
  <2>2. a \in Nat /\ d[a] \in Word /\ d[a] # {}
    <3>1. \A r \in later : r \in 0 .. m - 1 /\ d[r] # {}
      BY <1>1 DEF later, Filled
    <3>2. later \subseteq 0 .. m
      BY <3>1
    <3>3. a \in later
      BY <1>12, <3>2, Ends
    <3>4. a \in 0 .. m - 1 /\ d[a] # {}
      BY <3>1, <3>3
    <3> HIDE DEF a
    <3> QED
      BY <3>4 DEF Arrays
  <2>3. v = BitShift(a) + LeastSignificantBit(d[a])
    BY DEF LowestOf
  <2>4. next = [index |-> v, base |-> BitShift(a), current |-> d[a] \ {Min(d[a])}]
    BY <1>3, <1>12
  <2> HIDE DEF a, v
  <2>5. near = {}
    BY <1>9, <1>12
  <2>6. Min(Left(d, o, w)) = v
    BY <1>10, <2>1, <2>5
  <2>7. next = Place(d, v)
    BY <1>7, <2>2, <2>3, <2>4
  <2> QED
    BY <1>6, <2>1, <2>6, <2>7 DEF next, it
<1>13. CASE w = {} /\ later = {}
  <2>1. Left(d, o, w) = {}
    BY <1>6, <1>8, <1>9, <1>13
  <2>2. next.index = -1
    BY <1>3, <1>13
  <2> QED
    BY <2>1, <2>2 DEF next, it
<1> QED
  BY <1>11, <1>12, <1>13

\* From the beginning, and from each position, the loop goes to the next one.
LEMMA LoopIs ==
    ASSUME WordAssumption, NEW m \in Nat, NEW d \in Arrays(m)
    PROVE  LoopVisits(d, Positions(d))
<1> DEFINE S == Positions(d)
<1>1. S \subseteq Nat /\ \A p \in Nat :
          p \in S <=> BitOffset(p) \in 0 .. m - 1 /\ BitPos(p) \in d[BitOffset(p)]
  BY PositionsOf
<1>2. DOMAIN d = 0 .. m - 1 /\ \A o \in 0 .. m - 1 : d[o] \in Word /\ o \in Nat
  BY DEF Arrays
<1>3. \A p \in Nat : BitOffset(p) \in Nat /\ BitPos(p) \in Bit
  BY Division
<1> HIDE DEF S
<1>4. ASSUME NEW o \in 0 .. m - 1, NEW w \in SUBSET d[o]
      PROVE  Left(d, o, w) = {p \in S : \/ BitOffset(p) = o /\ BitPos(p) \in w
                                        \/ o < BitOffset(p)}
  <2>1. ASSUME NEW p \in Nat
        PROVE  p \in Within(o, w) <=> p \in S /\ BitOffset(p) = o /\ BitPos(p) \in w
    BY <1>1, Zenon DEF Within
  <2>2. Within(o, w) = {p \in S : BitOffset(p) = o /\ BitPos(p) \in w}
    <3>1. Within(o, w) \subseteq Nat
      BY DEF Within
    <3> QED
      BY <1>1, <2>1, <3>1
  <2>3. InWords(d, {r \in DOMAIN d : r > o}) = {p \in S : o < BitOffset(p)}
    <3>1. \A p \in S : BitOffset(p) \in DOMAIN d /\ (BitOffset(p) > o <=> o < BitOffset(p))
      BY <1>1, <1>2
    <3> QED
      BY <3>1, Zenon DEF InWords, S
  <2> QED
    BY <2>2, <2>3, Zenon DEF Left
<1>5. ASSUME S # {} PROVE Min(S) \in S
  <2>1. PICK v \in S : \A p \in S : v <= p
    BY <1>1, <1>5, LeastElement
  <2>2. S \subseteq Int
    BY <1>1
  <2> QED
    BY <2>1, <2>2, MinIs
<1>6. /\ S = {} => IteratorBegin(d).index = -1
      /\ S # {} => IteratorBegin(d) = Place(d, Min(S))
  <2>1. CASE m = 0
    <3>1. S = {}
      BY <1>1, <1>3, <2>1
    <3>2. DOMAIN d = {}
      BY <1>2, <2>1
    <3> QED
      BY <3>1, <3>2 DEF IteratorBegin, AtEnd
  <2>2. CASE m # 0
    <3> DEFINE start == [index |-> 0, base |-> BitShift(0), current |-> d[0]]
    <3>0. 0 \in 0 .. m - 1
      BY <2>2
    <3>1. 0 \in 0 .. m - 1 /\ DOMAIN d # {} /\ 0 \in DOMAIN d
      BY <1>2, <3>0, Zenon
    <3>2. BitShift(0) = 0
      BY DEF BitShift, WordAssumption
    <3>3. IteratorBegin(d) = IteratorNext(d, start)
      BY <3>1, <3>2, Zenon DEF IteratorBegin
    <3>4. Left(d, 0, d[0]) = S
      <4>1. \A p \in S : \/ BitOffset(p) = 0 /\ BitPos(p) \in d[0]
                         \/ 0 < BitOffset(p)
        BY <1>1
      <4> QED
        BY <1>4, <3>1, <4>1
    <3>5. d[0] \in Word /\ d[0] \subseteq d[0] /\ \A b \in d[0], c \in d[0] : c > b => c \in d[0]
      BY <1>2, <3>1
    <3> HIDE DEF start
    <3>6. /\ S = {} => IteratorNext(d, start).index = -1
          /\ S # {} => IteratorNext(d, start) = Place(d, Min(S))
      BY <3>1, <3>4, <3>5, IteratorNextIs DEF start
    <3> QED
      BY <3>3, <3>6
  <2> QED
    BY <2>1, <2>2
<1>7. ASSUME NEW i \in S
      PROVE  LET after == {j \in S : j > i}
             IN  /\ after = {} => IteratorNext(d, Place(d, i)).index = -1
                 /\ after # {} => IteratorNext(d, Place(d, i)) = Place(d, Min(after))
  <2> DEFINE o == BitOffset(i)
             w == {b \in d[o] : b > BitPos(i)}
             after == {j \in S : j > i}
  <2>1. i \in Nat /\ o \in 0 .. m - 1 /\ BitPos(i) \in Bit
    BY <1>1, <1>3
  <2>2. w \in Word /\ w \subseteq d[o] /\ \A b \in w, c \in d[o] : c > b => c \in w
    <3>1. d[o] \in Word /\ \A c \in d[o] : c \in Int
      BY <1>2, <2>1 DEF Word, Bit
    <3>2. BitPos(i) \in Int
      BY <2>1 DEF Bit
    <3> HIDE DEF o
    <3> QED
      BY <3>1, <3>2 DEF Word
  <2>3. after = Left(d, o, w)
    <3>1. ASSUME NEW p \in S
          PROVE  p > i <=> (BitOffset(p) = o /\ BitPos(p) \in w) \/ o < BitOffset(p)
      <4>1. p \in Nat /\ BitPos(p) \in d[BitOffset(p)]
        BY <1>1
      <4>2. i < p <=> o < BitOffset(p) \/ (o = BitOffset(p) /\ BitPos(i) < BitPos(p))
        BY <2>1, <4>1, Ordered
      <4>3. BitOffset(p) = o => (BitPos(p) \in w <=> BitPos(i) < BitPos(p))
        BY <4>1
      <4>4. p > i <=> i < p
        OBVIOUS
      <4> HIDE DEF o, w
      <4> QED
        BY <4>2, <4>3, <4>4
    <3>2. Left(d, o, w) = {p \in S : \/ BitOffset(p) = o /\ BitPos(p) \in w
                                     \/ o < BitOffset(p)}
      BY <1>4, <2>1, <2>2
    <3> HIDE DEF o, w
    <3> QED
      BY <3>1, <3>2
  <2>4. Place(d, i) = [index |-> i, base |-> BitShift(o), current |-> w]
    BY Zenon DEF Place
  <2> HIDE DEF o, w, after
  <2>5. /\ after = {} => IteratorNext(d, Place(d, i)).index = -1
        /\ after # {} => IteratorNext(d, Place(d, i)) = Place(d, Min(after))
    BY <2>1, <2>2, <2>3, <2>4, IteratorNextIs
  <2> QED
    BY <2>5 DEF after
<1>8. \A i : Place(d, i).index = i
  BY DEF Place
<1> QED
  BY <1>5, <1>6, <1>7, <1>8, Zenon DEF LoopVisits, Place, S

-----------------------------------------------------------------------------
\* The portable bit searches.

Halves == {0, 1, 2, 4, 8, 16, 32}

\* The bits among which a turn begins, and ends with half of them.
Window(h) == IF h = 0 THEN 1 ELSE 2 * h

LEMMA HalfOf ==
    ASSUME WordAssumption, NEW h \in Halves, h \in Bit
    PROVE  /\ h \in Nat /\ h \div 2 \in Halves /\ h \div 2 \in Bit
           /\ h # 0 => Window(h) = h + Window(h \div 2) /\ Window(h \div 2) = h
           /\ h = 0 => h \div 2 = 0
<1>1. h \in Nat /\ h \div 2 \in Halves /\ h \div 2 <= h
  BY DEF Halves
<1>2. h \div 2 \in Nat
  BY <1>1 DEF Halves
<1>3. h # 0 => Window(h \div 2) = h
  BY DEF Halves, Window
<1> QED
  BY <1>1, <1>2, <1>3 DEF Bit, Window, WordAssumption

LEMMA ShiftedDown ==
    ASSUME WordAssumption, NEW w \in Word, NEW h \in Nat
    PROVE  /\ ShiftDown(w, h) \in Word
           /\ \A b \in w : b >= h => b - h \in ShiftDown(w, h)
           /\ \A c \in ShiftDown(w, h) : c \in Nat /\ c + h \in w
<1>1. \A b \in w : b \in Nat /\ b < W
  BY DEF Word, Bit, WordAssumption
<1>2. \A c \in ShiftDown(w, h) : \E b \in w : b >= h /\ c = b - h
  BY DEF ShiftDown
<1>3. ASSUME NEW c \in ShiftDown(w, h) PROVE c \in Nat /\ c + h \in w /\ c \in Bit
  <2>1. PICK b \in w : b >= h /\ c = b - h
    BY <1>2
  <2>2. c + h = b /\ c \in Nat /\ c < W
    BY <1>1, <2>1, W \in Nat DEF WordAssumption
  <2> QED
    BY <2>1, <2>2, W \in Nat DEF WordAssumption, Bit
<1>4. \A b \in w : b >= h => b - h \in ShiftDown(w, h)
  BY DEF ShiftDown
<1> QED
  BY <1>3, <1>4 DEF Word

\* v is the first bit of the word, found in turns.
SeeksLeast(t, h, v) ==
    /\ t.half = h /\ t.pos \in Int /\ t.word \in Word
    /\ \E a \in t.word : /\ \A b \in t.word : a <= b
                         /\ a < Window(h)
                         /\ t.pos + a = v + Window(h) - 1

LEMMA LeastTurnIs ==
    ASSUME WordAssumption, NEW h \in Halves, h \in Bit, NEW v \in Int, NEW t,
           SeeksLeast(t, h, v)
    PROVE  SeeksLeast(LeastTurn(t), h \div 2, v)
<1> DEFINE g == h \div 2
           u == LeastTurn(t)
<1>1. /\ h \in Nat /\ Window(h) \in Nat
      /\ h # 0 => Window(h) = h + Window(g) /\ Window(g) = h
      /\ h = 0 => g = 0
  BY HalfOf DEF Window
<1>2. t.half = h /\ t.pos \in Int /\ t.word \in Word
  BY DEF SeeksLeast
<1>3. PICK a \in t.word : /\ \A b \in t.word : a <= b
                          /\ a < Window(h)
                          /\ t.pos + a = v + Window(h) - 1
  BY DEF SeeksLeast
<1>4. \A b \in t.word : b \in Nat
  BY <1>2 DEF Word, Bit
<1>5. u = IF h = 0 THEN t
          ELSE IF t.word \cap (0 .. h - 1) # {}
          THEN [word |-> t.word, pos |-> t.pos - h, half |-> g]
          ELSE [word |-> ShiftDown(t.word, h), pos |-> t.pos, half |-> g]
  BY <1>2 DEF LeastTurn
<1> HIDE DEF g, u
<1>6. CASE h = 0
  BY <1>1, <1>5, <1>6 DEF g, u
<1>7. CASE h # 0 /\ t.word \cap (0 .. h - 1) # {}
  <2>1. u.word = t.word /\ u.pos = t.pos - h /\ u.half = g
    BY <1>5, <1>7
  <2>2. a < h
    <3>1. PICK b \in t.word : b \in 0 .. h - 1
      BY <1>7
    <3> QED
      BY <1>1, <1>3, <1>4, <3>1
  <2>3. u.pos + a = v + Window(g) - 1 /\ a < Window(g) /\ u.pos \in Int
    BY <1>1, <1>2, <1>3, <1>4, <1>7, <2>1, <2>2
  <2> QED
    BY <1>2, <1>3, <2>1, <2>3 DEF SeeksLeast, u, g
<1>8. CASE h # 0 /\ t.word \cap (0 .. h - 1) = {}
  <2>1. u.word = ShiftDown(t.word, h) /\ u.pos = t.pos /\ u.half = g
    BY <1>5, <1>8
  <2>2. a >= h
    BY <1>1, <1>4, <1>8
  <2>3. /\ ShiftDown(t.word, h) \in Word
        /\ \A b \in t.word : b >= h => b - h \in ShiftDown(t.word, h)
        /\ \A c \in ShiftDown(t.word, h) : c \in Nat /\ c + h \in t.word
    BY <1>1, <1>2, ShiftedDown
  <2>4. a - h \in u.word
    BY <2>1, <2>2, <2>3
  <2>5. \A c \in u.word : a - h <= c
    BY <1>1, <1>3, <1>4, <2>1, <2>3
  <2>6. u.pos + (a - h) = v + Window(g) - 1 /\ a - h < Window(g)
    BY <1>1, <1>2, <1>3, <1>4, <1>8, <2>1, <2>2
  <2> QED
    BY <1>2, <2>1, <2>3, <2>4, <2>5, <2>6 DEF SeeksLeast, u, g
<1> QED
  BY <1>6, <1>7, <1>8

\* v is the last bit of the word, or the word has none.
SeeksMost(t, h, v) ==
    /\ t.half = h /\ t.pos \in Int /\ t.word \in Word
    /\ \/ t.word = {} /\ t.pos = v
       \/ \E a \in t.word : /\ \A b \in t.word : b <= a
                            /\ a < Window(h)
                            /\ t.pos + a = v

LEMMA MostTurnIs ==
    ASSUME WordAssumption, NEW h \in Halves, h \in Bit, NEW v \in Int, NEW t,
           SeeksMost(t, h, v)
    PROVE  SeeksMost(MostTurn(t), h \div 2, v)
<1> DEFINE g == h \div 2
           u == MostTurn(t)
           high == t.word \cap ShiftUp(AllBits, h)
<1>1. /\ h \in Nat /\ Window(h) \in Nat
      /\ h # 0 => Window(h) = h + Window(g) /\ Window(g) = h
      /\ h = 0 => g = 0
  BY HalfOf DEF Window
<1>2. t.half = h /\ t.pos \in Int /\ t.word \in Word
  BY DEF SeeksMost
<1>3. \A b \in t.word : b \in Nat /\ b \in Bit
  BY <1>2 DEF Word, Bit
<1>4. \A b \in t.word : b \in high <=> b >= h
  <2>1. IntervalUp(h) = {b \in Bit : b >= h}
    BY Masks
  <2> QED
    BY <1>3, <2>1 DEF IntervalUp
<1>5. high \subseteq t.word
  OBVIOUS
<1>6. /\ h = 0 => u = t
      /\ h # 0 /\ high # {} => /\ u.word = ShiftDown(t.word, h) /\ u.pos = t.pos + h
                               /\ u.half = g
      /\ h # 0 /\ high = {} => u.word = t.word /\ u.pos = t.pos /\ u.half = g
  <2>1. u = IF h = 0 THEN t
            ELSE IF high # {}
            THEN [word |-> ShiftDown(t.word, h), pos |-> t.pos + h, half |-> g]
            ELSE [word |-> t.word, pos |-> t.pos, half |-> g]
    BY <1>2 DEF MostTurn
  <2> HIDE DEF u, g, high
  <2> QED
    BY <2>1
<1> HIDE DEF g, u, high
<1>7. CASE h = 0
  BY <1>1, <1>2, <1>6, <1>7 DEF u, g
<1>8. CASE h # 0 /\ t.word = {}
  <2>1. high = {} /\ t.pos = v
    BY <1>5, <1>8 DEF SeeksMost
  <2> QED
    BY <1>2, <1>6, <1>8, <2>1 DEF SeeksMost, u, g
<1>9. CASE h # 0 /\ t.word # {}
  <2>1. PICK a \in t.word : /\ \A b \in t.word : b <= a
                            /\ a < Window(h)
                            /\ t.pos + a = v
    BY <1>9 DEF SeeksMost
  <2>2. CASE high # {}
    <3>1. u.word = ShiftDown(t.word, h) /\ u.pos = t.pos + h /\ u.half = g
      BY <1>6, <1>9, <2>2
    <3>2. a >= h
      <4>1. PICK b \in high : TRUE
        BY <2>2
      <4>2. b \in t.word /\ b >= h /\ b <= a /\ b \in Nat /\ a \in Nat
        BY <1>3, <1>4, <1>5, <2>1, <4>1
      <4> QED
        BY <1>1, <4>2
    <3>3. /\ ShiftDown(t.word, h) \in Word
          /\ \A b \in t.word : b >= h => b - h \in ShiftDown(t.word, h)
          /\ \A c \in ShiftDown(t.word, h) : c \in Nat /\ c + h \in t.word
      BY <1>1, <1>2, ShiftedDown
    <3>4. a - h \in u.word
      BY <3>1, <3>2, <3>3
    <3>5. \A c \in u.word : c <= a - h
      BY <1>1, <1>3, <2>1, <3>1, <3>3
    <3>6. u.pos + (a - h) = v /\ a - h < Window(g) /\ u.pos \in Int
      BY <1>1, <1>2, <1>3, <1>9, <2>1, <3>1, <3>2
    <3> QED
      BY <1>2, <3>1, <3>3, <3>4, <3>5, <3>6 DEF SeeksMost, u, g
  <2>3. CASE high = {}
    <3>1. u.word = t.word /\ u.pos = t.pos /\ u.half = g
      BY <1>6, <1>9, <2>3
    <3>2. a < Window(g)
      <4>1. ~(a >= h)
        BY <1>4, <2>3
      <4> QED
        BY <1>1, <1>3, <1>9, <4>1
    <3> QED
      BY <1>2, <2>1, <3>1, <3>2 DEF SeeksMost, u, g
  <2> QED
    BY <2>2, <2>3
<1> QED
  BY <1>7, <1>8, <1>9

LEMMA LeastTurnsAre ==
    ASSUME WordAssumption, NEW w \in Word, NEW v \in Int,
           SeeksLeast(Halvings(w, W - 1), W \div 2, v)
    PROVE  LET turns[k \in 0 .. 6] ==
                   IF k = 0 THEN Halvings(w, W - 1) ELSE LeastTurn(turns[k - 1])
           IN  SeeksLeast(turns[6], 0, v)
<1> DEFINE t0 == Halvings(w, W - 1)
           t1 == LeastTurn(t0)
           t2 == LeastTurn(t1)
           t3 == LeastTurn(t2)
           t4 == LeastTurn(t3)
           t5 == LeastTurn(t4)
           t6 == LeastTurn(t5)
           Body(f, k) == IF k = 0 THEN t0 ELSE LeastTurn(f[k - 1])
           Solves(f) == f = [k \in 0 .. 6 |-> Body(f, k)]
           g == [k \in 0 .. 6 |-> IF k = 0 THEN t0 ELSE IF k = 1 THEN t1 ELSE IF k = 2 THEN t2
                                  ELSE IF k = 3 THEN t3 ELSE IF k = 4 THEN t4
                                  ELSE IF k = 5 THEN t5 ELSE t6]
           F == CHOOSE f : Solves(f)
<1>1. Solves(g)
  <2>1. /\ g[0] = t0 /\ g[1] = t1 /\ g[2] = t2 /\ g[3] = t3 /\ g[4] = t4 /\ g[5] = t5
        /\ g[6] = t6
    <3> HIDE DEF t0, t1, t2, t3, t4, t5, t6
    <3> QED
      OBVIOUS
  <2>2. /\ t1 = LeastTurn(t0) /\ t2 = LeastTurn(t1) /\ t3 = LeastTurn(t2)
        /\ t4 = LeastTurn(t3) /\ t5 = LeastTurn(t4) /\ t6 = LeastTurn(t5)
    BY Zenon
  <2>3. g = [k \in 0 .. 6 |-> g[k]]
    OBVIOUS
  <2> HIDE DEF t0, t1, t2, t3, t4, t5, t6, g
  <2>4. \A k \in 0 .. 6 : g[k] = Body(g, k)
    BY <2>1, <2>2
  <2> HIDE DEF Body
  <2> QED
    BY <2>3, <2>4
<1> HIDE DEF t1, t2, t3, t4, t5, t6, g
<1>2. Solves(F)
  <2> HIDE DEF Solves
  <2> QED
    BY <1>1
<1> HIDE DEF F
<1>3. /\ F[0] = t0 /\ F[1] = LeastTurn(F[0]) /\ F[2] = LeastTurn(F[1]) /\ F[3] = LeastTurn(F[2])
      /\ F[4] = LeastTurn(F[3]) /\ F[5] = LeastTurn(F[4]) /\ F[6] = LeastTurn(F[5])
  <2>1. \A k \in 0 .. 6 : F[k] = Body(F, k)
    <3> HIDE DEF Body
    <3> QED
      BY <1>2
  <2> HIDE DEF t0
  <2> QED
    BY <2>1
<1> DEFINE h0 == W \div 2
           h1 == h0 \div 2
           h2 == h1 \div 2
           h3 == h2 \div 2
           h4 == h3 \div 2
           h5 == h4 \div 2
           h6 == h5 \div 2
<1>4. h0 \in Halves /\ h0 \in Bit /\ h6 = 0
  BY DEF WordAssumption, Halves, Bit
<1> HIDE DEF t0, h0
<1>5. SeeksLeast(F[0], h0, v)
  BY <1>3 DEF t0, h0
<1>6. SeeksLeast(F[1], h1, v) /\ h1 \in Halves /\ h1 \in Bit
  BY <1>3, <1>4, <1>5, HalfOf, LeastTurnIs
<1>7. SeeksLeast(F[2], h2, v) /\ h2 \in Halves /\ h2 \in Bit
  BY <1>3, <1>4, <1>6, HalfOf, LeastTurnIs
<1>8. SeeksLeast(F[3], h3, v) /\ h3 \in Halves /\ h3 \in Bit
  BY <1>3, <1>4, <1>7, HalfOf, LeastTurnIs
<1>9. SeeksLeast(F[4], h4, v) /\ h4 \in Halves /\ h4 \in Bit
  BY <1>3, <1>4, <1>8, HalfOf, LeastTurnIs
<1>10. SeeksLeast(F[5], h5, v) /\ h5 \in Halves /\ h5 \in Bit
  BY <1>3, <1>4, <1>9, HalfOf, LeastTurnIs
<1>11. SeeksLeast(F[6], h6, v) /\ h6 \in Halves /\ h6 \in Bit
  BY <1>3, <1>4, <1>10, HalfOf, LeastTurnIs
<1> QED
  BY <1>4, <1>11, Zenon DEF F, t0

LEMMA MostTurnsAre ==
    ASSUME WordAssumption, NEW w \in Word, NEW v \in Int,
           SeeksMost(Halvings(w, 0), W \div 2, v)
    PROVE  LET turns[k \in 0 .. 6] ==
                   IF k = 0 THEN Halvings(w, 0) ELSE MostTurn(turns[k - 1])
           IN  SeeksMost(turns[6], 0, v)
<1> DEFINE t0 == Halvings(w, 0)
           t1 == MostTurn(t0)
           t2 == MostTurn(t1)
           t3 == MostTurn(t2)
           t4 == MostTurn(t3)
           t5 == MostTurn(t4)
           t6 == MostTurn(t5)
           Body(f, k) == IF k = 0 THEN t0 ELSE MostTurn(f[k - 1])
           Solves(f) == f = [k \in 0 .. 6 |-> Body(f, k)]
           g == [k \in 0 .. 6 |-> IF k = 0 THEN t0 ELSE IF k = 1 THEN t1 ELSE IF k = 2 THEN t2
                                  ELSE IF k = 3 THEN t3 ELSE IF k = 4 THEN t4
                                  ELSE IF k = 5 THEN t5 ELSE t6]
           F == CHOOSE f : Solves(f)
<1>1. Solves(g)
  <2>1. /\ g[0] = t0 /\ g[1] = t1 /\ g[2] = t2 /\ g[3] = t3 /\ g[4] = t4 /\ g[5] = t5
        /\ g[6] = t6
    <3> HIDE DEF t0, t1, t2, t3, t4, t5, t6
    <3> QED
      OBVIOUS
  <2>2. /\ t1 = MostTurn(t0) /\ t2 = MostTurn(t1) /\ t3 = MostTurn(t2)
        /\ t4 = MostTurn(t3) /\ t5 = MostTurn(t4) /\ t6 = MostTurn(t5)
    BY Zenon
  <2>3. g = [k \in 0 .. 6 |-> g[k]]
    OBVIOUS
  <2> HIDE DEF t0, t1, t2, t3, t4, t5, t6, g
  <2>4. \A k \in 0 .. 6 : g[k] = Body(g, k)
    BY <2>1, <2>2
  <2> HIDE DEF Body
  <2> QED
    BY <2>3, <2>4
<1> HIDE DEF t1, t2, t3, t4, t5, t6, g
<1>2. Solves(F)
  <2> HIDE DEF Solves
  <2> QED
    BY <1>1
<1> HIDE DEF F
<1>3. /\ F[0] = t0 /\ F[1] = MostTurn(F[0]) /\ F[2] = MostTurn(F[1]) /\ F[3] = MostTurn(F[2])
      /\ F[4] = MostTurn(F[3]) /\ F[5] = MostTurn(F[4]) /\ F[6] = MostTurn(F[5])
  <2>1. \A k \in 0 .. 6 : F[k] = Body(F, k)
    <3> HIDE DEF Body
    <3> QED
      BY <1>2
  <2> HIDE DEF t0
  <2> QED
    BY <2>1
<1> DEFINE h0 == W \div 2
           h1 == h0 \div 2
           h2 == h1 \div 2
           h3 == h2 \div 2
           h4 == h3 \div 2
           h5 == h4 \div 2
           h6 == h5 \div 2
<1>4. h0 \in Halves /\ h0 \in Bit /\ h6 = 0
  BY DEF WordAssumption, Halves, Bit
<1> HIDE DEF t0, h0
<1>5. SeeksMost(F[0], h0, v)
  BY <1>3 DEF t0, h0
<1>6. SeeksMost(F[1], h1, v) /\ h1 \in Halves /\ h1 \in Bit
  BY <1>3, <1>4, <1>5, HalfOf, MostTurnIs
<1>7. SeeksMost(F[2], h2, v) /\ h2 \in Halves /\ h2 \in Bit
  BY <1>3, <1>4, <1>6, HalfOf, MostTurnIs
<1>8. SeeksMost(F[3], h3, v) /\ h3 \in Halves /\ h3 \in Bit
  BY <1>3, <1>4, <1>7, HalfOf, MostTurnIs
<1>9. SeeksMost(F[4], h4, v) /\ h4 \in Halves /\ h4 \in Bit
  BY <1>3, <1>4, <1>8, HalfOf, MostTurnIs
<1>10. SeeksMost(F[5], h5, v) /\ h5 \in Halves /\ h5 \in Bit
  BY <1>3, <1>4, <1>9, HalfOf, MostTurnIs
<1>11. SeeksMost(F[6], h6, v) /\ h6 \in Halves /\ h6 \in Bit
  BY <1>3, <1>4, <1>10, HalfOf, MostTurnIs
<1> QED
  BY <1>4, <1>11, Zenon DEF F, t0

LEMMA DefaultIs ==
    ASSUME WordAssumption, NEW w \in Word
    PROVE  /\ LeastSignificantBitDefault(w) = LeastSignificantBit(w)
           /\ MostSignificantBitDefault(w) = MostSignificantBit(w)
<1>1. W \div 2 \in Nat /\ Window(W \div 2) = W /\ W - 1 \in Int /\ W \in Nat
  BY DEF WordAssumption, Window
<1>2. \A b \in w : b \in Nat /\ b < W
  BY <1>1 DEF Word, Bit
<1>3. ASSUME w # {} PROVE LeastSignificantBitDefault(w) = LeastSignificantBit(w)
  <2> DEFINE v == LeastSignificantBit(w)
             t == Halvings(w, W - 1)
  <2>1. v \in w /\ v \in Int /\ \A b \in w : v <= b
    BY <1>2, <1>3, WordEnds
  <2>2. t.half = W \div 2 /\ t.pos = W - 1 /\ t.word = w
    BY DEF Halvings
  <2> HIDE DEF v, t
  <2>3. v < W /\ (W - 1) + v = v + W - 1
    BY <1>1, <1>2, <2>1
  <2>4. SeeksLeast(t, W \div 2, v)
    BY <1>1, <2>1, <2>2, <2>3 DEF SeeksLeast
  <2> DEFINE turns == LET f[k \in 0 .. 6] ==
                              IF k = 0 THEN Halvings(w, W - 1) ELSE LeastTurn(f[k - 1])
                      IN  f[6]
  <2>5. SeeksLeast(turns, 0, v)
    BY <2>1, <2>4, LeastTurnsAre, Zenon DEF t
  <2>6. LeastSignificantBitDefault(w) = turns.pos
    BY <1>3, Zenon DEF LeastSignificantBitDefault
  <2> HIDE DEF turns
  <2>7. \A b \in turns.word : b \in Nat
    BY <2>5 DEF SeeksLeast, Word, Bit
  <2>8. turns.pos = v
    BY <2>1, <2>5, <2>7 DEF SeeksLeast, Window
  <2> QED
    BY <2>6, <2>8 DEF v
<1>4. MostSignificantBitDefault(w) = MostSignificantBit(w)
  <2> DEFINE v == MostSignificantBit(w)
             t == Halvings(w, 0)
  <2>1. /\ w = {} => v = 0
        /\ w # {} => v \in w /\ \A b \in w : b <= v
    BY WordEnds DEF MostSignificantBit
  <2>2. t.half = W \div 2 /\ t.pos = 0 /\ t.word = w
    BY DEF Halvings
  <2> HIDE DEF v, t
  <2>3. v \in Int /\ (w # {} => v < W /\ 0 + v = v)
    BY <1>2, <2>1
  <2>4. SeeksMost(t, W \div 2, v)
    BY <1>1, <2>1, <2>2, <2>3 DEF SeeksMost
  <2> DEFINE turns == LET f[k \in 0 .. 6] ==
                              IF k = 0 THEN Halvings(w, 0) ELSE MostTurn(f[k - 1])
                      IN  f[6]
  <2>5. SeeksMost(turns, 0, v)
    BY <2>3, <2>4, MostTurnsAre, Zenon DEF t
  <2>6. MostSignificantBitDefault(w) = turns.pos
    BY Zenon DEF MostSignificantBitDefault
  <2> HIDE DEF turns
  <2>7. \A b \in turns.word : b \in Nat
    BY <2>5 DEF SeeksMost, Word, Bit
  <2>8. turns.pos = v
    BY <2>3, <2>5, <2>7 DEF SeeksMost, Window
  <2> QED
    BY <2>6, <2>8 DEF v
<1> QED
  BY <1>3, <1>4 DEF LeastSignificantBitDefault, LeastSignificantBit

-----------------------------------------------------------------------------
\* Every query, in every state.

LEMMA QueriesAreAnswered ==
    ASSUME WordAssumption, MaxBits \in Nat, BitsetTypeOK
    PROVE  QueriesAnswerTheSet
<1> SUFFICES ASSUME NEW x \in Bitsets
             PROVE  /\ RangesAnswerTheSet(Data(x), Size(x))
                    /\ LoopVisits(Data(x), Members(x))
                    /\ \A i \in 0 .. Size(x) - 1 :
                          AreOneOfTwoBitsSet(x, i) <=>
                              \E j \in Members(x) : j \div 2 = i \div 2
                    /\ \A o \in DOMAIN Data(x) :
                          LET w == Data(x)[o]
                          IN  /\ LeastSignificantBitDefault(w) = LeastSignificantBit(w)
                              /\ MostSignificantBitDefault(w) = MostSignificantBit(w)
  BY Zenon DEF QueriesAnswerTheSet
<1> DEFINE n == Size(x)
           d == Data(x)
<1>1. /\ n \in Nat /\ BitLength(n) \in Nat
      /\ d \in Arrays(BitLength(n)) /\ DOMAIN d = 0 .. BitLength(n) - 1
      /\ Members(x) = Positions(d)
  BY OneBitset
<1> HIDE DEF n, d
<1>2. RangesAnswerTheSet(d, n)
  BY <1>1, RangesAreAnswered
<1>3. LoopVisits(d, Members(x))
  BY <1>1, LoopIs
<1>4. ASSUME NEW i \in 0 .. n - 1
      PROVE  AreOneOfTwoBitsSet(x, i) <=> \E j \in Members(x) : j \div 2 = i \div 2
  <2>1. i \in Nat /\ BitOffset(i) \in 0 .. BitLength(n) - 1
    BY <1>1, Holds
  <2>2. d[BitOffset(i)] \cap TwoBitsFromPos(i) # {} <=>
            \E j \in Positions(d) : j \div 2 = i \div 2
    BY <1>1, <2>1, PairIs
  <2> QED
    BY <1>1, <2>2, Zenon DEF AreOneOfTwoBitsSet, d
<1>5. ASSUME NEW o \in DOMAIN d
      PROVE  /\ LeastSignificantBitDefault(d[o]) = LeastSignificantBit(d[o])
             /\ MostSignificantBitDefault(d[o]) = MostSignificantBit(d[o])
  <2>1. d[o] \in Word
    BY <1>1 DEF Arrays
  <2> QED
    BY <2>1, DefaultIs
<1> QED
  BY <1>1, <1>2, <1>3, <1>4, <1>5, Zenon DEF n, d

\* What the bitsets say is what sets of positions say, in every state and for
\* every width of a word: emptiness, count, first and last bit of every range,
\* with its masks on the first and the last word, the pairs of bits, the loop
\* over the bits, the portable searches in a word; the top of the queue is its
\* last bit. Of what is set in the sparse bitset its list loses in a step only
\* what a Resize leaves past the size.
THEOREM BitsetsAnswer == BitsetsSpec => BitsetsAnswerTheSet
<1>1. WordAssumption /\ MaxBits \in Nat
  BY BitsetAssumption
<1>2. BitsetsInv => QueriesAnswerTheSet
  BY <1>1, QueriesAreAnswered DEF BitsetsInv
<1>3. BitsetsInv => TopIsLast
  <2> SUFFICES ASSUME BitsetsInv PROVE TopIsLast
    OBVIOUS
  <2>1. /\ queueSize \in Nat /\ IsLast(top, Positions(queueData))
        /\ Positions(queueData) \in SUBSET (0 .. queueSize - 1)
    BY <1>1, BitQueueFacts DEF BitsetsInv
  <2> QED
    BY <2>1, LastIs DEF TopIsLast
<1>4. BitsetsInv /\ [BitsetsNext]_bitsetsVars => [OnlyResizeUnlists]_sparseVars
  BY <1>1, NextBitsets
<1> QED
  BY <1>2, <1>3, <1>4, BitsetsInvariance, PTL DEF BitsetsSpec, BitsetsAnswerTheSet

=============================================================================
