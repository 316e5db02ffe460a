--------------------------- MODULE ContainerProofs ---------------------------
(***************************************************************************)
(* Theorems about the containers of mtl/: for every set of values and      *)
(* every length, the ring of Queue.h is a first-in-first-out queue (Init,  *)
(* Next and Spec are those of Queue); for every width of an int and all    *)
(* sizes, what the allocator of Alloc.h gives out is apart, and a vector   *)
(* has room for its elements; for every set of variables and all keys, the *)
(* heap of Heap.h is a priority queue; windows of every size hold the sums *)
(* of the last pushes (bqueue.h), and the hash table of Map.h is a finite  *)
(* map for all keys, data and capacities.                                  *)
(***************************************************************************)
EXTENDS Queue, Region, Heap, BoundedQueue, HashMap, TLAPS, SequenceTheorems, FiniteSetTheorems,
        WellFoundedInduction

-----------------------------------------------------------------------------
\* What a ring b of n places holds from f on, up to e.
SizeOf(f, e, n) == IF e >= f THEN e - f ELSE e - f + n
Content(b, f, e, n) == [i \in 1 .. SizeOf(f, e, n) |-> b[(f + i - 1) % n]]

IsRing(b, f, e, n) ==
    /\ n \in Nat /\ n > 0
    /\ b \in [0 .. n - 1 -> Values \cup {Unset}]
    /\ f \in 0 .. n - 1
    /\ e \in 0 .. n - 1

Following(i, n) == IF i + 1 = n THEN 0 ELSE i + 1

LEMMA Wrapping ==
    ASSUME NEW n \in Nat, n > 0, NEW i \in Nat
    PROVE  /\ i % n \in 0 .. n - 1
           /\ i < n => i % n = i
           /\ i >= n /\ i < n + n => i % n = i - n
<1>1. i % n \in 0 .. n - 1
  OBVIOUS
<1>2. i < n => i % n = i
  OBVIOUS
<1>3. ASSUME i >= n, i < n + n PROVE i % n = i - n
  <2>1. PICK j \in 0 .. n - 1 : i = j + n
    <3>1. i - n \in 0 .. n - 1 /\ i = (i - n) + n
      BY <1>3
    <3> QED
      BY <3>1
  <2>2. (j + n) % n = j
    OBVIOUS
  <2> QED
    BY <2>1, <2>2
<1> QED
  BY <1>1, <1>2, <1>3

LEMMA ContentIsSequence ==
    ASSUME NEW b, NEW f, NEW e, NEW n, IsRing(b, f, e, n)
    PROVE  /\ SizeOf(f, e, n) \in 0 .. n - 1
           /\ Content(b, f, e, n) \in Seq(Values \cup {Unset})
           /\ Len(Content(b, f, e, n)) = SizeOf(f, e, n)
<1>1. SizeOf(f, e, n) \in 0 .. n - 1
  BY DEF IsRing, SizeOf
<1>2. \A i \in 1 .. SizeOf(f, e, n) : (f + i - 1) % n \in 0 .. n - 1
  <2> TAKE i \in 1 .. SizeOf(f, e, n)
  <2>1. f + i - 1 \in Nat /\ n \in Nat /\ n > 0
    BY <1>1 DEF IsRing
  <2> QED
    BY <2>1, Wrapping
<1>3. \A i \in 1 .. SizeOf(f, e, n) : b[(f + i - 1) % n] \in Values \cup {Unset}
  BY <1>2 DEF IsRing
<1>4. Content(b, f, e, n) \in Seq(Values \cup {Unset})
  BY <1>1, <1>3, SeqDef DEF Content
<1>5. DOMAIN Content(b, f, e, n) = 1 .. SizeOf(f, e, n)
  BY DEF Content
<1>6. Len(Content(b, f, e, n)) = SizeOf(f, e, n)
  BY <1>1, <1>4, <1>5, LenProperties
<1> QED
  BY <1>1, <1>4, <1>6

\* Taking the first element.
LEMMA PopTakesFirst ==
    ASSUME NEW b, NEW f, NEW e, NEW n, IsRing(b, f, e, n), f # e
    PROVE  /\ IsRing(b, Following(f, n), e, n)
           /\ Content(b, f, e, n) # << >>
           /\ Content(b, Following(f, n), e, n) = Tail(Content(b, f, e, n))
<1> DEFINE g == Following(f, n)
           s == Content(b, f, e, n)
           t == Content(b, g, e, n)
           m == SizeOf(f, e, n)
<1>1. n \in Nat /\ n > 0 /\ f \in 0 .. n - 1 /\ e \in 0 .. n - 1 /\ g \in 0 .. n - 1
  BY DEF IsRing, Following
<1>2. IsRing(b, g, e, n)
  BY <1>1 DEF IsRing
<1>3. m \in Nat /\ m > 0 /\ SizeOf(g, e, n) = m - 1
  BY <1>1 DEF SizeOf, Following
<1>4. s \in Seq(Values \cup {Unset}) /\ Len(s) = m
  BY ContentIsSequence
<1>5. t \in Seq(Values \cup {Unset}) /\ Len(t) = m - 1
  BY <1>2, <1>3, ContentIsSequence
<1>6. \A i \in 1 .. m - 1 : t[i] = s[i + 1]
  <2> TAKE i \in 1 .. m - 1
  <2>1. i + 1 \in 1 .. m /\ i \in Nat
    BY <1>3
  <2>2. t[i] = b[(g + i - 1) % n] /\ s[i + 1] = b[(f + (i + 1) - 1) % n]
    BY <1>3, <2>1 DEF Content
  <2>3. (g + i - 1) % n = (f + (i + 1) - 1) % n
    <3>1. f + (i + 1) - 1 = f + i /\ f + i \in Nat
      BY <1>1, <2>1
    <3>2. CASE f + 1 # n
      BY <1>1, <2>1, <3>1, <3>2 DEF Following
    <3>3. CASE f + 1 = n
      <4>1. g + i - 1 = i - 1 /\ f + i = (i - 1) + n /\ i - 1 \in Nat
        BY <1>1, <2>1, <3>3 DEF Following
      <4>2. i - 1 < n
        BY <1>1, <1>3, <2>1 DEF SizeOf
      <4>3. (f + i) % n = i - 1 /\ (i - 1) % n = i - 1
        <5>1. f + i >= n /\ f + i < n + n /\ f + i - n = i - 1
          BY <1>1, <3>1, <4>1, <4>2
        <5> QED
          BY <1>1, <3>1, <4>1, <4>2, <5>1, Wrapping
      <4> QED
        BY <3>1, <4>1, <4>3
    <3> QED
      BY <3>2, <3>3
  <2> QED
    BY <2>2, <2>3
<1> HIDE DEF s, t, m, g
<1>7. s # << >>
  BY <1>3, <1>4, EmptySeq
<1>8. /\ Tail(s) \in Seq(Values \cup {Unset}) /\ Len(Tail(s)) = m - 1
      /\ \A i \in 1 .. m - 1 : Tail(s)[i] = s[i + 1]
  BY <1>4, <1>7, HeadTailProperties
<1>9. t = Tail(s)
  BY <1>5, <1>6, <1>8, SeqEqual
<1> QED
  BY <1>2, <1>7, <1>9 DEF s, t, g

\* A ring that holds one element more than another, after the other's elements.
\* (A place that changes is none of the other's.)
LEMMA OneMore ==
    ASSUME NEW b, NEW f, NEW e, NEW n, IsRing(b, f, e, n),
           NEW c, NEW g, NEW d, NEW m, IsRing(c, g, d, m),
           NEW v \in Values,
           SizeOf(g, d, m) = SizeOf(f, e, n) + 1,
           \A i \in 1 .. SizeOf(f, e, n) : c[(g + i - 1) % m] = b[(f + i - 1) % n],
           c[(g + SizeOf(f, e, n)) % m] = v
    PROVE  Content(c, g, d, m) = Append(Content(b, f, e, n), v)
<1> DEFINE s == Content(b, f, e, n)
           t == Content(c, g, d, m)
           k == SizeOf(f, e, n)
<1>1. s \in Seq(Values \cup {Unset}) /\ Len(s) = k /\ k \in Nat
  BY ContentIsSequence
<1>2. t \in Seq(Values \cup {Unset}) /\ Len(t) = k + 1
  BY ContentIsSequence
<1>3. \A i \in 1 .. k : t[i] = s[i]
  BY <1>1 DEF Content
<1>4. t[k + 1] = v
  <2>1. k + 1 \in 1 .. k + 1 /\ g + (k + 1) - 1 = g + k
    <3>1. g \in Int
      BY DEF IsRing
    <3> HIDE DEF k
    <3> QED
      BY <1>1, <3>1
  <2>2. t[k + 1] = c[(g + (k + 1) - 1) % m]
    BY <2>1 DEF Content
  <2> QED
    BY <2>1, <2>2
<1> HIDE DEF s, t, k
<1>5. v \in Values \cup {Unset}
  OBVIOUS
<1>6. /\ Append(s, v) \in Seq(Values \cup {Unset}) /\ Len(Append(s, v)) = k + 1
      /\ \A i \in 1 .. k : Append(s, v)[i] = s[i]
      /\ Append(s, v)[k + 1] = v
  BY <1>1, <1>5, AppendProperties
<1>7. \A i \in 1 .. k + 1 : t[i] = Append(s, v)[i]
  <2> TAKE i \in 1 .. k + 1
  <2>1. i \in 1 .. k \/ i = k + 1
    BY <1>1
  <2> QED
    BY <1>3, <1>4, <1>6, <2>1
<1>8. t = Append(s, v)
  BY <1>2, <1>6, <1>7, SeqEqual
<1> QED
  BY <1>8 DEF s, t

\* Where the elements of a ring are: none is at its end, which is the place
\* after them.
LEMMA EndIsFree ==
    ASSUME NEW b, NEW f, NEW e, NEW n, IsRing(b, f, e, n)
    PROVE  /\ \A i \in 1 .. SizeOf(f, e, n) : (f + i - 1) % n \in (0 .. n - 1) \ {e}
           /\ (f + SizeOf(f, e, n)) % n = e
<1> DEFINE k == SizeOf(f, e, n)
<1>1. n \in Nat /\ n > 0 /\ f \in 0 .. n - 1 /\ e \in 0 .. n - 1 /\ k \in 0 .. n - 1
  BY ContentIsSequence DEF IsRing
<1>2. (e >= f /\ k = e - f) \/ (~(e >= f) /\ k = e - f + n)
  BY DEF SizeOf
<1> HIDE DEF k
<1>3. ASSUME NEW i \in 1 .. k PROVE (f + i - 1) % n \in (0 .. n - 1) \ {e}
  <2> DEFINE j == f + i - 1
  <2>1. j \in Nat /\ j < n + n
    BY <1>1
  <2>2. CASE j < n
    <3>1. j % n = j
      BY <1>1, <2>1, <2>2, Wrapping
    <3>2. j # e
      BY <1>1, <1>2, <2>2
    <3> QED
      BY <1>1, <2>1, <2>2, <3>1, <3>2
  <2>3. CASE ~(j < n)
    <3>1. j >= n
      BY <1>1, <2>1, <2>3
    <3>2. j % n = j - n
      <4> HIDE DEF j
      <4> QED
        BY <1>1, <2>1, <3>1, Wrapping
    <3>3. j - n # e /\ j - n \in 0 .. n - 1
      BY <1>1, <1>2, <3>1
    <3> QED
      BY <3>2, <3>3
  <2> QED
    BY <2>2, <2>3
<1>4. (f + k) % n = e
  <2>1. f + k \in Nat
    BY <1>1
  <2>2. CASE e >= f
    <3>1. f + k = e /\ e \in Nat /\ e < n
      BY <1>1, <1>2, <2>2
    <3> QED
      BY <1>1, <3>1, Wrapping
  <2>3. CASE ~(e >= f)
    <3>1. f + k = e + n /\ e + n >= n /\ e + n < n + n /\ e + n - n = e /\ e + n \in Nat
      BY <1>1, <1>2, <2>3
    <3>2. (e + n) % n = e + n - n
      BY <1>1, <3>1, Wrapping
    <3> QED
      BY <3>1, <3>2
  <2> QED
    BY <2>2, <2>3
<1> QED
  BY <1>3, <1>4 DEF k

\* Storing an element at the end when it is not the last free place.
LEMMA InsertInPlace ==
    ASSUME NEW b, NEW f, NEW e, NEW n, IsRing(b, f, e, n), NEW v \in Values,
           Following(e, n) # f
    PROVE  /\ IsRing([b EXCEPT ![e] = v], f, Following(e, n), n)
           /\ Content([b EXCEPT ![e] = v], f, Following(e, n), n)
                  = Append(Content(b, f, e, n), v)
<1> DEFINE c == [b EXCEPT ![e] = v]
           d == Following(e, n)
           k == SizeOf(f, e, n)
<1>1. n \in Nat /\ n > 0 /\ f \in 0 .. n - 1 /\ e \in 0 .. n - 1 /\ d \in 0 .. n - 1
  BY DEF IsRing, Following
<1>2. /\ c \in [0 .. n - 1 -> Values \cup {Unset}] /\ c[e] = v
      /\ \A j \in (0 .. n - 1) \ {e} : c[j] = b[j]
  BY <1>1 DEF IsRing
<1>3. IsRing(c, f, d, n)
  BY <1>1, <1>2 DEF IsRing
<1>4. SizeOf(f, d, n) = k + 1
  BY <1>1 DEF SizeOf, Following
<1> HIDE DEF c, d
<1>5. \A i \in 1 .. k : c[(f + i - 1) % n] = b[(f + i - 1) % n]
  BY <1>2, EndIsFree
<1>6. c[(f + k) % n] = v
  BY <1>2, EndIsFree
<1>7. Content(c, f, d, n) = Append(Content(b, f, e, n), v)
  BY <1>3, <1>4, <1>5, <1>6, OneMore
<1> QED
  BY <1>3, <1>7 DEF c, d

\* The larger ring that follows one of n places.
GrownPlaces(n) == (n * 3 + 1) \div 2
GrownRing(b, f, n) ==
    [i \in 0 .. GrownPlaces(n) - 1 |-> IF i < n THEN b[(f + i) % n] ELSE Unset]

\* Storing an element in the last free place, and growing.
IsStored(a, b, e, v) == a = [b EXCEPT ![e] = v]

LEMMA InsertAndGrow ==
    ASSUME NEW b, NEW f, NEW e, NEW n, IsRing(b, f, e, n), NEW v \in Values,
           Following(e, n) = f, NEW a, IsStored(a, b, e, v)
    PROVE  /\ IsRing(GrownRing(a, f, n), 0, n, GrownPlaces(n))
           /\ Content(GrownRing(a, f, n), 0, n, GrownPlaces(n))
                  = Append(Content(b, f, e, n), v)
<1> DEFINE m == GrownPlaces(n)
           c == GrownRing(a, f, n)
           k == SizeOf(f, e, n)
<1>1. n \in Nat /\ n > 0 /\ f \in 0 .. n - 1 /\ e \in 0 .. n - 1
  BY DEF IsRing
<1>2. /\ a \in [0 .. n - 1 -> Values \cup {Unset}] /\ a[e] = v
      /\ \A j \in (0 .. n - 1) \ {e} : a[j] = b[j]
  BY <1>1 DEF IsRing, IsStored
<1>3. m \in Nat /\ m > n
  BY <1>1 DEF GrownPlaces
<1>4. k = n - 1
  BY <1>1 DEF SizeOf, Following
<1>5. SizeOf(0, n, m) = k + 1
  BY <1>1, <1>4 DEF SizeOf
<1> HIDE DEF m, k
<1>6. \A i \in 0 .. n - 1 : i \in 0 .. m - 1 /\ c[i] = a[(f + i) % n]
  BY <1>1, <1>3 DEF GrownRing, m
<1>7. c \in [0 .. m - 1 -> Values \cup {Unset}]
  <2>1. \A i \in 0 .. m - 1 : i < n => a[(f + i) % n] \in Values \cup {Unset}
    <3> SUFFICES ASSUME NEW i \in 0 .. m - 1 PROVE a[(f + i) % n] \in Values \cup {Unset}
      OBVIOUS
    <3>1. f + i \in Nat
      BY <1>1
    <3>2. (f + i) % n \in 0 .. n - 1
      BY <1>1, <3>1, Wrapping
    <3> QED
      BY <1>2, <3>2
  <2> QED
    BY <2>1 DEF GrownRing, m
<1> HIDE DEF c
<1>8. IsRing(c, 0, n, m)
  <2>1. 0 \in 0 .. m - 1 /\ n \in 0 .. m - 1 /\ m > 0
    BY <1>1, <1>3
  <2> QED
    BY <1>3, <1>7, <2>1 DEF IsRing
<1>9. \A i \in 1 .. k : c[(0 + i - 1) % m] = b[(f + i - 1) % n]
  <2> TAKE i \in 1 .. k
  <2>1. i - 1 \in 0 .. n - 1 /\ i - 1 \in Nat /\ i - 1 < m /\ 0 + i - 1 = i - 1
        /\ f + (i - 1) = f + i - 1
    BY <1>1, <1>3, <1>4
  <2>2. (i - 1) % m = i - 1
    BY <1>1, <1>3, <2>1, Wrapping
  <2>3. c[i - 1] = a[(f + i - 1) % n]
    BY <1>6, <2>1
  <2>4. (f + i - 1) % n \in (0 .. n - 1) \ {e}
    BY EndIsFree DEF k
  <2> QED
    BY <1>2, <2>1, <2>2, <2>3, <2>4
<1>10. c[(0 + k) % m] = v
  <2>1. k \in 0 .. n - 1 /\ k \in Nat /\ k < m /\ 0 + k = k
    BY <1>1, <1>3, <1>4
  <2>2. k % m = k
    BY <1>3, <2>1, Wrapping
  <2>3. c[k] = a[(f + k) % n]
    BY <1>6, <2>1
  <2>4. (f + k) % n = e
    BY EndIsFree DEF k
  <2> QED
    BY <1>2, <2>1, <2>2, <2>3, <2>4
<1>11. Content(c, 0, n, m) = Append(Content(b, f, e, n), v)
  BY <1>5, <1>8, <1>9, <1>10, OneMore DEF k
<1> QED
  BY <1>8, <1>11 DEF c, m

\* The types of the ring: what the refinement needs of it, the lengths being
\* numbers.
RingIInv == IsRing(buf, first, end, Places)

LEMMA CountedPlaces ==
    ASSUME NEW b, NEW n \in Nat, DOMAIN b = 0 .. n - 1
    PROVE  Cardinality(DOMAIN b) = n
<1>1. 0 \in Int /\ n - 1 \in Int
  OBVIOUS
<1>2. Cardinality(0 .. n - 1) = IF 0 > n - 1 THEN 0 ELSE (n - 1) - 0 + 1
  BY <1>1, FS_Interval
<1> QED
  BY <1>2

LEMMA AsRing ==
    /\ Size = SizeOf(first, end, Places)
    /\ \A i : Next1(i) = Following(i, Places)
    /\ \A b : Unrolled(b) = GrownRing(b, first, Places)
BY DEF Size, SizeOf, Next1, Following, Unrolled, GrownRing, GrownPlaces

LEMMA ClearStep ==
    ASSUME Clear
    PROVE  Places' = 1 /\ IsRing(buf', first', end', Places')
           /\ Content(buf', first', end', Places') = << >>
<1>1. buf' = [i \in 0 .. 1 - 1 |-> Unset] /\ first' = 0 /\ end' = 0
  BY DEF Clear, Blank
<1>2. DOMAIN buf' = 0 .. 1 - 1
  BY <1>1
<1>3. Places' = 1
  BY <1>2, CountedPlaces DEF Places
<1>4. IsRing(buf', first', end', Places')
  BY <1>1, <1>3 DEF IsRing
<1>5. SizeOf(first', end', Places') = 0
  BY <1>1 DEF SizeOf
<1>6. /\ Content(buf', first', end', Places') \in Seq(Values \cup {Unset})
      /\ Len(Content(buf', first', end', Places')) = 0
  BY <1>4, <1>5, ContentIsSequence
<1> QED
  BY <1>3, <1>4, <1>6, EmptySeq

LEMMA PopStep ==
    ASSUME RingIInv, Pop
    PROVE  /\ IsRing(buf', first', end', Places')
           /\ Content(buf, first, end, Places) # << >>
           /\ Content(buf', first', end', Places') = Tail(Content(buf, first, end, Places))
<1>1. first # end /\ first' = Following(first, Places) /\ buf' = buf /\ end' = end
  BY AsRing DEF Pop
<1>2. Places' = Places
  BY <1>1 DEF Places
<1> QED
  BY <1>1, <1>2, PopTakesFirst DEF RingIInv

LEMMA InsertStep ==
    ASSUME RingIInv, NEW v \in Values, Insert(v)
    PROVE  /\ IsRing(buf', first', end', Places')
           /\ Content(buf', first', end', Places')
                  = Append(Content(buf, first, end, Places), v)
<1> DEFINE stored == [buf EXCEPT ![end] = v]
<1>1. /\ Places \in Nat /\ Places > 0
      /\ DOMAIN buf = 0 .. Places - 1 /\ IsRing(buf, first, end, Places)
  BY DEF RingIInv, IsRing
<1>2. IF Following(end, Places) = first
      THEN buf' = GrownRing(stored, first, Places) /\ first' = 0 /\ end' = Places
      ELSE buf' = stored /\ end' = Following(end, Places) /\ first' = first
  BY AsRing DEF Insert
<1>3. CASE Following(end, Places) = first
  <2> DEFINE m == GrownPlaces(Places)
  <2>1. m \in Nat
    BY <1>1 DEF GrownPlaces
  <2>2. DOMAIN buf' = 0 .. m - 1
    BY <1>2, <1>3 DEF GrownRing
  <2>3. Places' = m
    BY <2>1, <2>2, CountedPlaces DEF Places
  <2>4. /\ IsRing(GrownRing(stored, first, Places), 0, Places, m)
        /\ Content(GrownRing(stored, first, Places), 0, Places, m)
               = Append(Content(buf, first, end, Places), v)
    <3> HIDE DEF m
    <3>1. IsStored(stored, buf, end, v)
      BY DEF IsStored
    <3>2. IsRing(buf, first, end, Places)
      BY <1>1
    <3> HIDE DEF stored
    <3>3. /\ IsRing(GrownRing(stored, first, Places), 0, Places, GrownPlaces(Places))
          /\ Content(GrownRing(stored, first, Places), 0, Places, GrownPlaces(Places))
                 = Append(Content(buf, first, end, Places), v)
      BY <1>3, <3>1, <3>2, InsertAndGrow
    <3> QED
      BY <3>3 DEF m
  <2>5. buf' = GrownRing(stored, first, Places) /\ first' = 0 /\ end' = Places
    BY <1>2, <1>3
  <2> HIDE DEF stored, m
  <2> QED
    BY <2>3, <2>4, <2>5
<1>4. CASE Following(end, Places) # first
  <2>1. DOMAIN buf' = DOMAIN buf
    BY <1>2, <1>4
  <2>2. Places' = Places
    BY <2>1 DEF Places
  <2> QED
    BY <1>1, <1>2, <1>4, <2>2, InsertInPlace
<1> QED
  BY <1>3, <1>4

LEMMA RingInvariance == Spec => []RingIInv
<1>1. Init => RingIInv
  <2> SUFFICES ASSUME Init PROVE RingIInv
    OBVIOUS
  <2>1. buf = [i \in 0 .. 1 - 1 |-> Unset] /\ first = 0 /\ end = 0
    BY DEF Init, Blank
  <2>2. DOMAIN buf = 0 .. 1 - 1
    BY <2>1
  <2>3. Places = 1
    BY <2>2, CountedPlaces DEF Places
  <2> QED
    BY <2>1, <2>3 DEF RingIInv, IsRing
<1>2. RingIInv /\ [Next]_vars => RingIInv'
  <2> SUFFICES ASSUME RingIInv, [Next]_vars PROVE RingIInv'
    OBVIOUS
  <2>1. CASE UNCHANGED vars
    BY <2>1 DEF vars, RingIInv, Places
  <2>2. CASE Next
    BY <2>2, PopStep, ClearStep, InsertStep DEF Next, RingIInv
  <2> QED
    BY <2>1, <2>2
<1> QED
  BY <1>1, <1>2, PTL DEF Spec

\* The ring is a first-in-first-out queue, for every set of values and however
\* long it gets: taking the first place that is used takes the oldest element,
\* an element is stored behind all others, and a ring that grows keeps its
\* elements and their order on whichever side of its end they lie.
THEOREM RingImplementsFifo == Spec => ImplementsFifo
<1> DEFINE queued == [i \in 1 .. Size |-> buf[(first + i - 1) % Places]]
<1>1. queued = Content(buf, first, end, Places)
  BY AsRing DEF Content
<1>2. queued' = Content(buf', first', end', Places')
  BY DEF Content, Size, SizeOf
<1>3. Init => Abstract!Init
  <2> SUFFICES ASSUME Init PROVE queued = << >>
    BY DEF Abstract!Init
  <2>1. Size = 0
    BY DEF Init, Size
  <2>2. queued = [i \in 1 .. 0 |-> buf[(first + i - 1) % Places]]
    BY <2>1
  <2>3. queued \in [1 .. 0 -> {}]
    BY <2>2
  <2> HIDE DEF queued
  <2>4. queued \in Seq({})
    BY <2>3, SeqDef
  <2>5. Len(queued) = 0
    BY <2>3, <2>4, LenProperties
  <2> QED
    BY <2>4, <2>5, EmptySeq
<1>4. RingIInv /\ [Next]_vars => [Abstract!Next]_(Abstract!vars)
  <2> SUFFICES ASSUME RingIInv, [Next]_vars PROVE [Abstract!Next]_(Abstract!vars)
    OBVIOUS
  <2> HIDE DEF queued
  <2>1. CASE UNCHANGED vars
    BY <2>1 DEF vars, Abstract!vars, Size, Places
  <2>2. CASE Pop
    <3>1. queued # << >> /\ queued' = Tail(queued)
      BY <1>1, <1>2, <2>2, PopStep
    <3> QED
      BY <3>1 DEF Abstract!Next, queued
  <2>3. CASE Clear
    <3>1. queued' = << >>
      BY <1>2, <2>3, ClearStep
    <3> QED
      BY <3>1 DEF Abstract!Next, queued
  <2>4. ASSUME NEW v \in Values, Insert(v) PROVE Abstract!Next
    <3>1. queued' = Append(queued, v)
      BY <1>1, <1>2, <2>4, InsertStep
    <3> QED
      BY <3>1 DEF Abstract!Next, queued
  <2> QED
    BY <2>1, <2>2, <2>3, <2>4 DEF Next
<1> QED
  BY <1>3, <1>4, RingInvariance, PTL DEF Spec, ImplementsFifo, Abstract!Spec

-----------------------------------------------------------------------------
\* Induction.

LEMMA LeastElement ==
    ASSUME NEW T, T \subseteq Nat, T # {}
    PROVE  \E x \in T : \A y \in T : x <= y
<1>1. PICK x \in T : \A y \in T : <<y, x>> \notin OpToRel(<, Nat)
  BY WFMin, NatLessThanWellFounded, Zenon
<1>2. \A y \in T : ~(y < x)
  BY <1>1, T \subseteq Nat, Zenon DEF OpToRel
<1> QED
  BY <1>2

LEMMA UpTo ==
    ASSUME NEW n \in Nat, NEW T, 0 \in T,
           \A k \in 0 .. n : k # n /\ k \in T => k + 1 \in T
    PROVE  \A k \in 0 .. n : k \in T
<1> DEFINE Out == {k \in 0 .. n : k \notin T}
<1>1. SUFFICES ASSUME Out # {} PROVE FALSE
  OBVIOUS
<1>2. PICK k \in Out : \A i \in Out : k <= i
  <2>1. Out \subseteq Nat
    OBVIOUS
  <2> HIDE DEF Out
  <2> QED
    BY <1>1, <2>1, LeastElement
<1>3. k \in 0 .. n /\ k \notin T /\ k # 0
  BY <1>2
<1>4. k - 1 \in 0 .. n /\ k - 1 # n /\ ~(k <= k - 1) /\ (k - 1) + 1 = k
  BY <1>3
<1>5. k - 1 \in T
  BY <1>2, <1>4
<1> QED
  BY <1>3, <1>4, <1>5

\* A function can be applied over and over.
IsIteration(f, N, x, g) == f = [k \in 0 .. N |-> IF k = 0 THEN x ELSE g[f[k - 1]]]

LEMMA Iteration ==
    ASSUME NEW N \in Nat, NEW S, NEW x \in S, NEW g \in [S -> S]
    PROVE  \E f \in [0 .. N -> S] : IsIteration(f, N, x, g)
<1> DEFINE Turn(f, k) == IF k = 0 THEN x ELSE g[f[k - 1]]
           Good == {n \in 0 .. N : \E f \in [0 .. n -> S] : f = [k \in 0 .. n |-> Turn(f, k)]}
<1>1. 0 \in Good
  <2> DEFINE f == [k \in 0 .. 0 |-> x]
  <2>1. f = [k \in 0 .. 0 |-> Turn(f, k)] /\ f \in [0 .. 0 -> S]
    OBVIOUS
  <2>2. 0 \in 0 .. N
    OBVIOUS
  <2> HIDE DEF f, Turn
  <2> QED
    BY <2>1, <2>2
<1>2. ASSUME NEW n \in 0 .. N, n # N, n \in Good PROVE n + 1 \in Good
  <2>1. PICK h \in [0 .. n -> S] : h = [k \in 0 .. n |-> Turn(h, k)]
    BY <1>2
  <2> DEFINE f == [k \in 0 .. n + 1 |-> IF k = n + 1 THEN g[h[n]] ELSE h[k]]
  <2>2. n \in 0 .. n /\ n \in Nat /\ h[n] \in S /\ g[h[n]] \in S
    BY <1>2
  <2>3. f \in [0 .. n + 1 -> S]
    <3>1. ASSUME NEW k \in 0 .. n + 1, k # n + 1 PROVE k \in 0 .. n
      BY <1>2, <3>1
    <3> QED
      BY <2>2, <3>1
  <2>4. ASSUME NEW k \in 0 .. n + 1 PROVE f[k] = Turn(f, k)
    <3>1. CASE k = n + 1
      <4>1. f[k] = g[h[n]] /\ k # 0 /\ k - 1 = n /\ n \in 0 .. n + 1 /\ n # n + 1
        BY <1>2, <3>1
      <4>2. f[n] = h[n]
        BY <4>1
      <4> HIDE DEF f
      <4> QED
        BY <4>1, <4>2
    <3>2. CASE k # n + 1
      <4>1. k \in 0 .. n
        BY <3>2
      <4>2. f[k] = h[k] /\ h[k] = Turn(h, k)
        BY <2>1, <3>2, <4>1
      <4>3. k # 0 => k - 1 \in 0 .. n + 1 /\ k - 1 # n + 1
        BY <3>2
      <4>4. k # 0 => f[k - 1] = h[k - 1]
        BY <4>3
      <4> HIDE DEF f
      <4> QED
        BY <4>2, <4>4
    <3> QED
      BY <3>1, <3>2
  <2>5. f = [k \in 0 .. n + 1 |-> Turn(f, k)]
    BY <2>4
  <2>6. n + 1 \in 0 .. N
    BY <1>2
  <2> HIDE DEF f, Turn
  <2> QED
    BY <2>3, <2>5, <2>6
<1>3. \A k \in 0 .. N : k \in Good
  <2> HIDE DEF Good
  <2> QED
    BY <1>1, <1>2, UpTo
<1>4. N \in Good
  BY <1>3
<1> QED
  BY <1>4 DEF IsIteration

\* A recursion may look at the number of the turn.
IsRecursion(f, N, x, g) ==
    f = [k \in 0 .. N |-> IF k = 0 THEN x ELSE g[<<k, f[k - 1]>>]]

LEMMA Recursion ==
    ASSUME NEW N \in Nat, NEW S, NEW x \in S, NEW g \in [(1 .. N) \X S -> S]
    PROVE  \E f \in [0 .. N -> S] : IsRecursion(f, N, x, g)
<1> DEFINE T == (0 .. N) \X S
           turn == [y \in T |-> IF y[1] = N THEN y ELSE <<y[1] + 1, g[<<y[1] + 1, y[2]>>]>>]
<1>1. turn \in [T -> T] /\ <<0, x>> \in T
  OBVIOUS
<1>11. \A y \in T : y = <<y[1], y[2]>> /\ y[2] \in S
  OBVIOUS
<1>2. \A k \in 0 .. N - 1, y \in S : turn[<<k, y>>] = <<k + 1, g[<<k + 1, y>>]>>
  OBVIOUS
<1>3. PICK h \in [0 .. N -> T] : IsIteration(h, N, <<0, x>>, turn)
  <2> HIDE DEF T, turn
  <2> QED
    BY <1>1, Iteration, Zenon
<1>4. \A k \in 0 .. N : h[k] = IF k = 0 THEN <<0, x>> ELSE turn[h[k - 1]]
  <2> HIDE DEF T, turn
  <2> QED
    BY <1>3 DEF IsIteration
<1> HIDE DEF turn
<1> DEFINE Counted == {k \in 0 .. N : h[k][1] = k}
<1>5. 0 \in Counted
  BY <1>4
<1>6. ASSUME NEW k \in 0 .. N, k # N, k \in Counted PROVE k + 1 \in Counted
  <2>1. k + 1 \in 0 .. N /\ k + 1 # 0 /\ (k + 1) - 1 = k /\ k \in 0 .. N - 1
    BY <1>6
  <2>2. h[k] \in T /\ h[k][1] = k /\ h[k + 1] = turn[h[k]]
    BY <1>4, <1>6, <2>1
  <2>3. h[k] = <<k, h[k][2]>> /\ h[k][2] \in S
    <3> HIDE DEF T
    <3> QED
      BY <1>11, <2>2
  <2>4. turn[h[k]] = <<k + 1, g[<<k + 1, h[k][2]>>]>>
    BY <1>2, <2>1, <2>3
  <2> QED
    BY <2>1, <2>2, <2>4
<1>7. \A k \in 0 .. N : h[k][1] = k
  <2>1. \A k \in 0 .. N : k \in Counted
    <3> HIDE DEF Counted
    <3> QED
      BY <1>5, <1>6, UpTo
  <2> QED
    BY <2>1
<1> DEFINE f == [k \in 0 .. N |-> h[k][2]]
<1>8. f \in [0 .. N -> S]
  OBVIOUS
<1>9. ASSUME NEW k \in 0 .. N PROVE f[k] = IF k = 0 THEN x ELSE g[<<k, f[k - 1]>>]
  <2>1. CASE k = 0
    BY <1>4, <2>1
  <2>2. CASE k # 0
    <3>1. k - 1 \in 0 .. N - 1 /\ k - 1 \in 0 .. N /\ (k - 1) + 1 = k
      BY <2>2
    <3>2. h[k - 1] \in T /\ h[k - 1][1] = k - 1
      BY <1>7, <3>1
    <3>3. h[k - 1] = <<k - 1, h[k - 1][2]>> /\ h[k - 1][2] \in S /\ f[k - 1] = h[k - 1][2]
      <4> HIDE DEF T
      <4> QED
        BY <1>11, <3>1, <3>2
    <3>4. h[k] = <<k, g[<<k, f[k - 1]>>]>>
      <4> HIDE DEF f
      <4> QED
        BY <1>2, <1>4, <2>2, <3>1, <3>3
    <3>5. f[k] = h[k][2]
      OBVIOUS
    <3> HIDE DEF f
    <3> QED
      BY <2>2, <3>4, <3>5
  <2> QED
    BY <2>1, <2>2
<1>10. f = [k \in 0 .. N |-> IF k = 0 THEN x ELSE g[<<k, f[k - 1]>>]]
  <2> HIDE DEF f
  <2>1. f = [k \in 0 .. N |-> f[k]]
    BY <1>8
  <2> QED
    BY <1>9, <2>1
<1> QED
  <2> HIDE DEF f
  <2> QED
    BY <1>8, <1>10 DEF IsRecursion

-----------------------------------------------------------------------------
\* The growth of a region.

LEMMA RegionNumbers ==
    /\ MaxInt \in Nat /\ MaxInt % 2 = 1
    /\ Units \in Nat /\ Units > 0 /\ Units = 2 * MaxInt + 2
    /\ \A n \in Nat : /\ Wrapped(n) \in 0 .. Units - 1
                      /\ n < Units => Wrapped(n) = n
                      /\ n >= Units /\ n < Units + Units => Wrapped(n) = n - Units
<1>1. MaxInt \in Nat /\ MaxInt % 2 = 1
  BY RegionAssumption
<1>2. Units \in Nat /\ Units > 0 /\ Units = 2 * MaxInt + 2
  BY <1>1 DEF Units
<1> QED
  BY <1>1, <1>2, Wrapping, Zenon DEF Wrapped

LEMMA CapValues ==
    ASSUME NEW start \in 0 .. Units - 1
    PROVE  \A k \in 0 .. Units : CapAfter(start)[k] \in 0 .. Units - 1
<1> DEFINE S == 0 .. Units - 1
           g == [c \in S |-> GrownCap(c)]
           IsGrowth(f) == f = [k \in 0 .. Units |->
                                  IF k = 0 THEN start ELSE GrownCap(f[k - 1])]
           after == CHOOSE f : IsGrowth(f)
<1>1. Units \in Nat
  BY RegionNumbers
<1>2. ASSUME NEW c \in S PROVE GrownCap(c) \in S
  <2>1. c \in Nat
    BY <1>1
  <2>2. c + EvenBelow((c \div 2) + (c \div 8) + 2) \in Nat
    BY <2>1 DEF EvenBelow
  <2> QED
    BY <2>2, RegionNumbers DEF GrownCap
<1>3. g \in [S -> S] /\ start \in S
  <2> HIDE DEF S
  <2> QED
    BY <1>2 DEF S
<1>4. PICK f \in [0 .. Units -> S] : IsIteration(f, Units, start, g)
  <2> HIDE DEF S, g
  <2> QED
    BY <1>1, <1>3, Iteration, Zenon
<1>5. IsGrowth(f)
  <2>1. ASSUME NEW k \in 0 .. Units, k # 0 PROVE g[f[k - 1]] = GrownCap(f[k - 1])
    <3>1. k - 1 \in 0 .. Units
      BY <1>1, <2>1
    <3>2. f[k - 1] \in S
      BY <3>1
    <3> QED
      BY <3>2
  <2> HIDE DEF g
  <2> QED
    BY <1>4, <2>1 DEF IsIteration
<1>6. IsGrowth(after)
  <2> HIDE DEF IsGrowth
  <2> QED
    BY <1>5, Zenon
<1>7. CapAfter(start) = after
  BY DEF CapAfter
<1> HIDE DEF after
<1>8. \A k \in 0 .. Units : after[k] = IF k = 0 THEN start ELSE GrownCap(after[k - 1])
  BY <1>6
<1> DEFINE Small == {k \in 0 .. Units : after[k] \in S}
<1>9. 0 \in Small
  <2>1. 0 \in 0 .. Units
    BY <1>1
  <2> HIDE DEF S
  <2> QED
    BY <1>3, <1>8, <2>1
<1>10. ASSUME NEW k \in 0 .. Units, k # Units, k \in Small PROVE k + 1 \in Small
  <2>1. k + 1 \in 0 .. Units /\ k + 1 # 0 /\ (k + 1) - 1 = k
    BY <1>1, <1>10
  <2>2. after[k + 1] = GrownCap(after[k]) /\ after[k] \in S
    BY <1>8, <1>10, <2>1
  <2> HIDE DEF S
  <2> QED
    BY <1>2, <2>1, <2>2
<1> HIDE DEF Small
<1>11. \A k \in 0 .. Units : k \in Small
  BY <1>1, <1>9, <1>10, UpTo
<1> QED
  BY <1>7, <1>11 DEF Small

\* What the loop of capacity leaves: no growth, or enough.
LEMMA CapacityIsEnough ==
    ASSUME NEW start \in 0 .. Units - 1, NEW minCap \in 0 .. Units - 1
    PROVE  /\ Capacity(start, minCap) \in 0 .. Units - 1
           /\ Capacity(start, minCap) # 0 => minCap <= Capacity(start, minCap)
<1> DEFINE Ends(k) == GrowsUntil(start, minCap, k) /\ CapAfter(start)[k] >= minCap
           e == CHOOSE k \in 0 .. Units : Ends(k)
<1>1. \A k \in 0 .. Units : CapAfter(start)[k] \in 0 .. Units - 1
  BY CapValues
<1>2. CASE \E k \in 0 .. Units : Ends(k)
  <2>1. e \in 0 .. Units /\ Ends(e)
    <3> HIDE DEF Ends
    <3> QED
      BY <1>2, Zenon
  <2>2. Capacity(start, minCap) = CapAfter(start)[e]
    BY <1>2, Zenon DEF Capacity
  <2>3. CapAfter(start)[e] >= minCap
    BY <2>1
  <2> HIDE DEF e
  <2> QED
    BY <1>1, <2>1, <2>2, <2>3, RegionNumbers
<1>3. CASE ~\E k \in 0 .. Units : Ends(k)
  <2>1. Capacity(start, minCap) = 0
    BY <1>3, Zenon DEF Capacity
  <2> QED
    BY <2>1, RegionNumbers
<1> QED
  BY <1>2, <1>3

-----------------------------------------------------------------------------
\* The regions given out, the space wasted and the vector.

Spaces(g) == UNION {UnitsOf(r) : r \in g}

\* Regions of positive sizes below s, apart from each other.
AreApart(g, s) ==
    /\ g \subseteq Nat \X Nat
    /\ \A r \in g : r[2] > 0 /\ UnitsOf(r) \subseteq 0 .. s - 1
    /\ \A r, t \in g : r # t => UnitsOf(r) \cap UnitsOf(t) = {}

BlockInv ==
    /\ sz \in 0 .. Units - 1
    /\ cap \in 0 .. Units - 1
    /\ wasted \in 0 .. Units - 1
    /\ ~thrown => /\ AreApart(given, sz)
                  /\ wasted + Cardinality(Spaces(given)) = sz
                  /\ sz <= cap

VectorInv ==
    /\ vecSize \in 0 .. MaxInt
    /\ vecCap \in 0 .. MaxInt
    /\ vecCap % 2 = 0
    /\ ~thrown => vecSize <= vecCap

RegionIInv == BlockInv /\ VectorInv

LEMMA SpacesAreFinite ==
    ASSUME NEW s \in Nat, NEW g, AreApart(g, s)
    PROVE  /\ Spaces(g) \subseteq 0 .. s - 1
           /\ IsFiniteSet(Spaces(g))
           /\ Cardinality(Spaces(g)) \in Nat
<1>1. Spaces(g) \subseteq 0 .. s - 1
  BY DEF Spaces, AreApart
<1>2. IsFiniteSet(0 .. s - 1)
  BY FS_Interval
<1> QED
  BY <1>1, <1>2, FS_Subset, FS_CardinalityType

\* A region behind all others.
LEMMA OneMoreRegion ==
    ASSUME NEW s \in Nat, NEW n \in Nat, n > 0, NEW g, AreApart(g, s)
    PROVE  /\ AreApart(g \cup {<<s, n>>}, s + n)
           /\ Cardinality(Spaces(g \cup {<<s, n>>})) = Cardinality(Spaces(g)) + n
<1> DEFINE new == <<s, n>>
           more == g \cup {new}
<1>1. UnitsOf(new) = s .. s + n - 1
  BY DEF UnitsOf
<1>2. 0 .. s - 1 \subseteq 0 .. s + n - 1 /\ s .. s + n - 1 \subseteq 0 .. s + n - 1
  OBVIOUS
<1>3. (0 .. s - 1) \cap (s .. s + n - 1) = {}
  OBVIOUS
<1>4. \A r \in g : UnitsOf(r) \subseteq 0 .. s - 1
  BY DEF AreApart
<1>5. \A r \in more : UnitsOf(r) \subseteq 0 .. s + n - 1
  BY <1>1, <1>2, <1>4
<1>6. \A r \in more : r[2] > 0
  BY DEF AreApart
<1>7. more \subseteq Nat \X Nat
  BY DEF AreApart
<1>8. \A r \in g : UnitsOf(r) \cap UnitsOf(new) = {}
  BY <1>1, <1>3, <1>4
<1>9. \A r, t \in more : r # t => UnitsOf(r) \cap UnitsOf(t) = {}
  <2>1. \A r, t \in g : r # t => UnitsOf(r) \cap UnitsOf(t) = {}
    BY DEF AreApart
  <2> QED
    BY <1>8, <2>1
<1>10. AreApart(more, s + n)
  <2> HIDE DEF more
  <2> QED
    BY <1>5, <1>6, <1>7, <1>9 DEF AreApart
<1>11. Spaces(more) = Spaces(g) \cup UnitsOf(new)
  BY DEF Spaces
<1>12. Spaces(g) \cap UnitsOf(new) = {}
  BY <1>8 DEF Spaces
<1>13. IsFiniteSet(UnitsOf(new)) /\ Cardinality(UnitsOf(new)) = n
  <2>1. s \in Int /\ s + n - 1 \in Int /\ ~(s > s + n - 1) /\ (s + n - 1) - s + 1 = n
    OBVIOUS
  <2> QED
    BY <1>1, <2>1, FS_Interval
<1>14. Cardinality(Spaces(more)) = Cardinality(Spaces(g)) + n
  <2>1. IsFiniteSet(Spaces(g)) /\ Cardinality(Spaces(g)) \in Nat
    BY SpacesAreFinite
  <2> HIDE DEF more, new
  <2> QED
    BY <1>11, <1>12, <1>13, <2>1, FS_Union, FS_EmptySet
<1> QED
  BY <1>10, <1>14

LEMMA OneLessRegion ==
    ASSUME NEW s \in Nat, NEW g, AreApart(g, s), NEW r \in g
    PROVE  /\ r[2] \in Nat
           /\ AreApart(g \ {r}, s)
           /\ Cardinality(Spaces(g)) = Cardinality(Spaces(g \ {r})) + r[2]
<1> DEFINE less == g \ {r}
<1>1. r[1] \in Nat /\ r[2] \in Nat /\ r[2] > 0
  BY DEF AreApart
<1>2. AreApart(less, s)
  BY DEF AreApart
<1>3. Spaces(g) = Spaces(less) \cup UnitsOf(r)
  BY DEF Spaces
<1>4. \A t \in less : UnitsOf(t) \cap UnitsOf(r) = {}
  BY DEF AreApart
<1>5. Spaces(less) \cap UnitsOf(r) = {}
  BY <1>4 DEF Spaces
<1>6. IsFiniteSet(UnitsOf(r)) /\ Cardinality(UnitsOf(r)) = r[2]
  <2> DEFINE a == r[1]
             n == r[2]
  <2>1. a \in Int /\ a + n - 1 \in Int /\ ~(a > a + n - 1) /\ (a + n - 1) - a + 1 = n
    BY <1>1
  <2>2. UnitsOf(r) = a .. a + n - 1
    BY DEF UnitsOf
  <2> HIDE DEF a, n
  <2>3. IsFiniteSet(UnitsOf(r)) /\ Cardinality(UnitsOf(r)) = n
    BY <2>1, <2>2, FS_Interval
  <2> QED
    BY <2>3 DEF n
<1>7. Cardinality(Spaces(g)) = Cardinality(Spaces(less)) + r[2]
  <2>1. IsFiniteSet(Spaces(less)) /\ Cardinality(Spaces(less)) \in Nat
    BY <1>2, SpacesAreFinite
  <2> HIDE DEF less
  <2> QED
    BY <1>1, <1>3, <1>5, <1>6, <2>1, FS_Union, FS_EmptySet
<1> QED
  BY <1>1, <1>2, <1>7

LEMMA InitialRegion == RegionInit => RegionIInv
<1> SUFFICES ASSUME RegionInit PROVE RegionIInv
  OBVIOUS
<1>1. 0 \in 0 .. Units - 1 /\ StartCap \in 0 .. Units - 1
  BY RegionNumbers, RegionAssumption
<1>2. cap \in 0 .. Units - 1
  BY <1>1, CapacityIsEnough DEF RegionInit
<1>3. sz = 0 /\ wasted = 0 /\ given = {} /\ vecSize = 0 /\ vecCap = 0
  BY DEF RegionInit
<1>4. AreApart(given, sz)
  BY <1>3 DEF AreApart
<1>5. Cardinality(Spaces(given)) = 0
  BY <1>3, FS_EmptySet DEF Spaces
<1>6. BlockInv
  BY <1>1, <1>2, <1>3, <1>4, <1>5, RegionNumbers DEF BlockInv
<1>7. VectorInv
  BY <1>3, RegionNumbers DEF VectorInv
<1> QED
  BY <1>6, <1>7 DEF RegionIInv

LEMMA AllocStep ==
    ASSUME BlockInv, NEW size \in AllocSizes, Alloc(size)
    PROVE  BlockInv'
<1> DEFINE asked == Wrapped(sz + size)
           newCap == Capacity(cap, asked)
<1>1. /\ sz \in Nat /\ sz < Units /\ size \in Nat /\ size > 0 /\ size < Units
      /\ sz + size \in Nat /\ Units \in Nat
  BY RegionNumbers, RegionAssumption DEF BlockInv
<1>2. /\ asked \in 0 .. Units - 1
      /\ asked = sz + size \/ asked < sz
  BY <1>1, RegionNumbers
<1>3. newCap \in 0 .. Units - 1 /\ (newCap # 0 => asked <= newCap)
  BY <1>2, CapacityIsEnough DEF BlockInv
<1>4. /\ ~thrown
      /\ thrown' = (newCap = 0 \/ asked < sz)
      /\ cap' = newCap
      /\ sz' = IF newCap = 0 THEN sz ELSE asked
      /\ given' = IF thrown' THEN given ELSE given \cup {<<sz, size>>}
      /\ wasted' = wasted
  BY DEF Alloc
<1> HIDE DEF asked, newCap
<1>5. sz' \in 0 .. Units - 1 /\ cap' \in 0 .. Units - 1 /\ wasted' \in 0 .. Units - 1
  BY <1>1, <1>2, <1>3, <1>4 DEF BlockInv
<1>6. ASSUME ~thrown' PROVE /\ AreApart(given', sz')
                            /\ wasted' + Cardinality(Spaces(given')) = sz'
                            /\ sz' <= cap'
  <2>1. sz' = sz + size /\ sz' <= cap' /\ given' = given \cup {<<sz, size>>}
    BY <1>1, <1>2, <1>3, <1>4, <1>6
  <2>2. /\ AreApart(given, sz) /\ wasted + Cardinality(Spaces(given)) = sz
        /\ wasted \in Nat
    BY <1>4, RegionNumbers DEF BlockInv
  <2>3. /\ AreApart(given', sz')
        /\ Cardinality(Spaces(given')) = Cardinality(Spaces(given)) + size
    BY <1>1, <2>1, <2>2, OneMoreRegion
  <2>4. Cardinality(Spaces(given)) \in Nat
    BY <1>1, <2>2, SpacesAreFinite
  <2> QED
    BY <1>1, <1>4, <2>1, <2>2, <2>3, <2>4
<1> QED
  BY <1>5, <1>6 DEF BlockInv

LEMMA FreeStep ==
    ASSUME BlockInv, NEW r \in given, Free(r)
    PROVE  BlockInv'
<1>1. /\ ~thrown /\ ~thrown' /\ sz' = sz /\ cap' = cap
      /\ given' = given \ {r} /\ wasted' = Wrapped(wasted + r[2])
  BY DEF Free, blockVars
<1>2. /\ sz \in Nat /\ sz < Units /\ wasted \in Nat /\ AreApart(given, sz) /\ sz <= cap
      /\ wasted + Cardinality(Spaces(given)) = sz /\ Units \in Nat
  BY <1>1, RegionNumbers DEF BlockInv
<1>3. /\ r[2] \in Nat /\ AreApart(given', sz)
      /\ Cardinality(Spaces(given)) = Cardinality(Spaces(given')) + r[2]
  BY <1>1, <1>2, OneLessRegion
<1>4. Cardinality(Spaces(given')) \in Nat
  BY <1>2, <1>3, SpacesAreFinite
<1>5. wasted + r[2] \in Nat /\ wasted + r[2] < Units
  BY <1>2, <1>3, <1>4
<1>6. wasted' = wasted + r[2]
  BY <1>1, <1>5, RegionNumbers
<1>7. wasted' \in 0 .. Units - 1 /\ wasted' + Cardinality(Spaces(given')) = sz
  BY <1>2, <1>3, <1>4, <1>5, <1>6
<1> QED
  BY <1>1, <1>2, <1>3, <1>7 DEF BlockInv

LEMMA MaxOfTwo ==
    ASSUME NEW a \in Int, NEW b \in Int
    PROVE  Max({a, b}) = IF a >= b THEN a ELSE b
<1>1. \A x \in {a, b} : (\A y \in {a, b} : x >= y) <=> x = (IF a >= b THEN a ELSE b)
  OBVIOUS
<1> QED
  BY <1>1 DEF Max

\* What a vector grows by: an even number, and no less than asked for.
LEMMA VecGrowth ==
    ASSUME VectorInv, NEW minCap \in Nat, vecCap < minCap, minCap <= MaxInt,
           VecAdd(minCap) <= MaxInt - vecCap
    PROVE  /\ vecCap + VecAdd(minCap) \in 0 .. MaxInt
           /\ (vecCap + VecAdd(minCap)) % 2 = 0
           /\ minCap <= vecCap + VecAdd(minCap)
<1> DEFINE a == EvenBelow(minCap - vecCap + 1)
           b == EvenBelow(vecCap \div 2 + 2)
           n == VecAdd(minCap)
<1>1. vecCap \in Nat /\ vecCap % 2 = 0 /\ MaxInt \in Nat
  BY RegionNumbers DEF VectorInv
<1>2. a \in Nat /\ a % 2 = 0 /\ minCap - vecCap <= a
  BY <1>1 DEF EvenBelow
<1>3. b \in Nat /\ b % 2 = 0
  BY <1>1 DEF EvenBelow
<1>4. n = Max({a, b})
  BY DEF VecAdd
<1> HIDE DEF a, b
<1>5. n = IF a >= b THEN a ELSE b
  BY <1>2, <1>3, <1>4, MaxOfTwo
<1> HIDE DEF n
<1>6. n \in Nat /\ n % 2 = 0 /\ minCap - vecCap <= n
  <2>1. CASE a >= b
    BY <1>2, <1>5, <2>1
  <2>2. CASE ~(a >= b)
    <3>1. n = b /\ minCap - vecCap <= b
      BY <1>1, <1>2, <1>3, <1>5, <2>2
    <3> QED
      BY <1>3, <3>1
  <2> QED
    BY <2>1, <2>2
<1>7. n <= MaxInt - vecCap
  BY DEF n
<1>8. /\ vecCap + n \in 0 .. MaxInt /\ (vecCap + n) % 2 = 0 /\ minCap <= vecCap + n
  BY <1>1, <1>6, <1>7
<1> QED
  BY <1>8 DEF n

LEMMA VectorSteps ==
    ASSUME VectorInv,
           \/ \E size \in VecSizes : VecGrowTo(size)
           \/ VecPush
           \/ \E dealloc \in BOOLEAN : VecClear(dealloc)
    PROVE  VectorInv' /\ blockVars' = blockVars /\ ~thrown
<1>1. /\ vecSize \in Nat /\ vecCap \in Nat /\ vecSize <= MaxInt /\ vecCap <= MaxInt
      /\ vecCap % 2 = 0 /\ MaxInt \in Nat /\ MaxInt % 2 = 1
      /\ ~thrown => vecSize <= vecCap
  BY RegionNumbers DEF VectorInv
<1>2. ASSUME NEW size \in VecSizes, VecGrowTo(size)
      PROVE  VectorInv' /\ blockVars' = blockVars /\ ~thrown
  <2>1. /\ ~thrown /\ blockVars' = blockVars
        /\ thrown' = (vecCap < size /\ VecAdd(size) > MaxInt - vecCap)
        /\ vecCap' = IF vecCap >= size \/ thrown' THEN vecCap ELSE vecCap + VecAdd(size)
        /\ vecSize' = IF thrown' THEN vecSize ELSE size
    BY <1>2 DEF VecGrowTo
  <2>2. size \in Nat /\ size <= MaxInt
    BY <1>1, RegionAssumption
  <2>3. CASE thrown'
    BY <1>1, <2>1, <2>3 DEF VectorInv
  <2>4. CASE ~thrown' /\ vecCap >= size
    BY <1>1, <2>1, <2>2, <2>4 DEF VectorInv
  <2>5. CASE ~thrown' /\ ~(vecCap >= size)
    <3>1. vecCap < size
      BY <1>1, <2>2, <2>5
    <3>2. VecAdd(size) \in Int
      <4>1. EvenBelow(size - vecCap + 1) \in Int /\ EvenBelow(vecCap \div 2 + 2) \in Int
        BY <1>1, <2>2 DEF EvenBelow
      <4> QED
        BY <4>1, MaxOfTwo DEF VecAdd
    <3>3. VecAdd(size) <= MaxInt - vecCap
      <4>1. ~(VecAdd(size) > MaxInt - vecCap)
        BY <2>1, <2>5, <3>1, Zenon
      <4> QED
        BY <1>1, <3>2, <4>1
    <3>4. /\ vecCap + VecAdd(size) \in 0 .. MaxInt
          /\ (vecCap + VecAdd(size)) % 2 = 0
          /\ size <= vecCap + VecAdd(size)
      BY <2>2, <3>1, <3>3, VecGrowth
    <3> QED
      BY <1>1, <2>1, <2>2, <2>5, <3>4 DEF VectorInv
  <2> QED
    BY <2>1, <2>3, <2>4, <2>5
<1>3. ASSUME VecPush PROVE VectorInv' /\ blockVars' = blockVars /\ ~thrown
  <2> DEFINE asked == vecSize + 1
  <2>1. /\ ~thrown /\ blockVars' = blockVars
        /\ thrown' = (vecSize = vecCap /\ VecAdd(asked) > MaxInt - vecCap)
        /\ vecCap' = IF vecSize # vecCap \/ thrown' THEN vecCap ELSE vecCap + VecAdd(asked)
        /\ vecSize' = IF thrown' THEN vecSize ELSE asked
    BY <1>3 DEF VecPush
  <2>2. asked \in Nat /\ vecCap < MaxInt
    BY <1>1
  <2>3. CASE thrown'
    BY <1>1, <2>1, <2>3 DEF VectorInv
  <2>4. CASE ~thrown' /\ vecSize # vecCap
    BY <1>1, <2>1, <2>2, <2>4 DEF VectorInv
  <2>5. CASE ~thrown' /\ vecSize = vecCap
    <3>1. vecCap < asked /\ asked <= MaxInt
      BY <1>1, <2>2, <2>5
    <3>2. VecAdd(asked) \in Int
      <4>1. EvenBelow(asked - vecCap + 1) \in Int /\ EvenBelow(vecCap \div 2 + 2) \in Int
        BY <1>1, <2>2 DEF EvenBelow
      <4> QED
        BY <4>1, MaxOfTwo DEF VecAdd
    <3>3. VecAdd(asked) <= MaxInt - vecCap
      <4>1. ~(VecAdd(asked) > MaxInt - vecCap)
        BY <2>1, <2>5, <3>1, Zenon
      <4> QED
        BY <1>1, <3>2, <4>1
    <3>4. /\ vecCap + VecAdd(asked) \in 0 .. MaxInt
          /\ (vecCap + VecAdd(asked)) % 2 = 0
          /\ asked <= vecCap + VecAdd(asked)
      BY <2>2, <3>1, <3>3, VecGrowth
    <3> QED
      BY <1>1, <2>1, <2>2, <2>5, <3>4 DEF VectorInv
  <2> QED
    BY <2>1, <2>3, <2>4, <2>5
<1>4. ASSUME NEW dealloc \in BOOLEAN, VecClear(dealloc)
      PROVE  VectorInv' /\ blockVars' = blockVars /\ ~thrown
  BY <1>1, <1>4 DEF VecClear, VectorInv
<1> QED
  BY <1>2, <1>3, <1>4

LEMMA RegionInvariance == RegionSpec => []RegionIInv
<1>1. RegionIInv /\ [RegionNext]_memoryVars => RegionIInv'
  <2> SUFFICES ASSUME RegionIInv, [RegionNext]_memoryVars PROVE RegionIInv'
    OBVIOUS
  <2>1. CASE UNCHANGED memoryVars
    BY <2>1 DEF memoryVars, blockVars, vectorVars, RegionIInv, BlockInv, VectorInv
  <2>2. ASSUME BlockInv', vectorVars' = vectorVars, ~thrown PROVE RegionIInv'
    BY <2>2 DEF vectorVars, RegionIInv, VectorInv
  <2>3. ASSUME NEW size \in AllocSizes, Alloc(size) PROVE RegionIInv'
    <3>1. BlockInv' /\ vectorVars' = vectorVars /\ ~thrown
      BY <2>3, AllocStep DEF Alloc, RegionIInv, vectorVars
    <3> QED
      BY <2>2, <3>1
  <2>4. ASSUME NEW r \in given, Free(r) PROVE RegionIInv'
    <3>1. BlockInv' /\ vectorVars' = vectorVars /\ ~thrown
      BY <2>4, FreeStep DEF Free, RegionIInv, vectorVars
    <3> QED
      BY <2>2, <3>1
  <2>5. ASSUME \/ \E size \in VecSizes : VecGrowTo(size)
               \/ VecPush
               \/ \E dealloc \in BOOLEAN : VecClear(dealloc)
        PROVE  RegionIInv'
    <3>1. VectorInv' /\ blockVars' = blockVars /\ ~thrown
      BY <2>5, VectorSteps DEF RegionIInv
    <3> QED
      BY <3>1 DEF RegionIInv, BlockInv, blockVars
  <2> QED
    BY <2>1, <2>3, <2>4, <2>5, Zenon DEF RegionNext
<1> QED
  BY <1>1, InitialRegion, PTL DEF RegionSpec

\* In every state the sizes and capacities of a region fit in a Ref and those of
\* a vector in an int: what wraps around is noticed, and what would overflow is
\* not computed.
THEOREM RegionTypeCorrect == RegionSpec => []RegionTypeOK
<1>1. RegionIInv => RegionTypeOK
  BY DEF RegionIInv, BlockInv, VectorInv, RegionTypeOK
<1> QED
  BY <1>1, RegionInvariance, PTL

\* Unless an allocation has thrown, the clauses given out lie in the block, apart
\* from each other, what is not given out is counted as wasted, and a vector has
\* an even capacity with room for its elements: for every width of an int,
\* whatever sizes are asked for and in whichever order memory is freed.
THEOREM RegionsStayApart == RegionSpec => []RegionsAreApart
<1>1. RegionIInv => RegionsAreApart
  <2> SUFFICES ASSUME RegionIInv, ~thrown PROVE RegionsAreApart
    BY DEF RegionsAreApart
  <2>1. /\ \A r \in given : UnitsOf(r) \subseteq 0 .. sz - 1
        /\ \A r, s \in given : r # s => UnitsOf(r) \cap UnitsOf(s) = {}
    BY DEF RegionIInv, BlockInv, AreApart
  <2>2. wasted + Cardinality(UNION {UnitsOf(r) : r \in given}) = sz /\ sz <= cap
    BY Zenon DEF RegionIInv, BlockInv, Spaces
  <2>3. vecSize <= vecCap /\ vecCap % 2 = 0 /\ vecCap < MaxInt
    BY RegionNumbers DEF RegionIInv, VectorInv
  <2> QED
    BY <2>1, <2>2, <2>3, Zenon DEF RegionsAreApart
<1> QED
  BY <1>1, RegionInvariance, PTL

-----------------------------------------------------------------------------
\* The tree of a heap of n elements, of which i is the place of one.

LEMMA TreeFacts ==
    ASSUME NEW i \in Nat
    PROVE  /\ Left(i) \in Nat /\ Right(i) \in Nat
           /\ Left(i) > i /\ Right(i) = Left(i) + 1
           /\ Parent(Left(i)) = i /\ Parent(Right(i)) = i
           /\ i # 0 => Parent(i) \in Nat /\ Parent(i) < i
           /\ \A j \in Nat : j # 0 /\ Parent(j) = i => j = Left(i) \/ j = Right(i)
BY DEF Left, Right, Parent

IsOrdered(h, k, j) == k[h[Parent(j)]] <= k[h[j]]

\* The order holds from the place low on.
OrderedFrom(h, k, n, low) ==
    \A j \in 1 .. n - 1 : Parent(j) >= low => IsOrdered(h, k, j)

\* The order is only broken between the place i and its parent.
OrderedButUp(h, k, n, i) ==
    \A j \in 1 .. n - 1 :
        /\ j # i => IsOrdered(h, k, j)
        /\ i # 0 /\ Parent(j) = i => k[h[Parent(i)]] <= k[h[j]]

\* From low on, it is only broken between the place i and its children.
OrderedButDown(h, k, n, low, i) ==
    \A j \in 1 .. n - 1 :
        /\ Parent(j) >= low /\ Parent(j) # i => IsOrdered(h, k, j)
        /\ i # 0 /\ Parent(i) >= low /\ Parent(j) = i => k[h[Parent(i)]] <= k[h[j]]

\* Two elements change places.
Exchanged(h, i, j) == [h EXCEPT ![i] = h[j], ![j] = h[i]]

LEMMA ExchangedValues ==
    ASSUME NEW h, NEW i \in DOMAIN h, NEW j \in DOMAIN h
    PROVE  /\ DOMAIN Exchanged(h, i, j) = DOMAIN h
           /\ Exchanged(h, i, j)[i] = h[j]
           /\ Exchanged(h, i, j)[j] = h[i]
           /\ \A l \in DOMAIN h : l # i /\ l # j => Exchanged(h, i, j)[l] = h[l]
BY DEF Exchanged

IsHeapArray(h, k, n) ==
    /\ n \in Nat
    /\ h \in [0 .. n - 1 -> Elements]
    /\ k \in [Elements -> Int]

\* One turn of percolateUp.
LEMMA UpKeepsOrder ==
    ASSUME NEW n, NEW h, NEW k, IsHeapArray(h, k, n), NEW i \in 0 .. n - 1, i # 0,
           OrderedButUp(h, k, n, i), k[h[i]] < k[h[Parent(i)]]
    PROVE  OrderedButUp(Exchanged(h, i, Parent(i)), k, n, Parent(i))
<1> DEFINE p == Parent(i)
           g == Exchanged(h, i, p)
           v(j) == k[h[j]]
           w(j) == k[g[j]]
<1>1. n \in Nat /\ i \in Nat /\ p \in Nat /\ p < i /\ p \in 0 .. n - 1 /\ p # i
  <2>1. n \in Nat /\ i \in Nat
    BY DEF IsHeapArray
  <2>2. p \in Nat /\ p < i
    BY <2>1, TreeFacts
  <2> HIDE DEF p
  <2> QED
    BY <2>1, <2>2
<1>2. \A j \in 0 .. n - 1 : v(j) \in Int
  BY DEF IsHeapArray
<1>3. DOMAIN h = 0 .. n - 1
  BY DEF IsHeapArray
<1>4. /\ w(i) = v(p) /\ w(p) = v(i)
      /\ \A j \in 0 .. n - 1 : j # i /\ j # p => w(j) = v(j)
  <2>1. i \in DOMAIN h /\ p \in DOMAIN h
    BY <1>1, <1>3
  <2> HIDE DEF p
  <2>2. /\ Exchanged(h, i, p)[i] = h[p] /\ Exchanged(h, i, p)[p] = h[i]
        /\ \A j \in DOMAIN h : j # i /\ j # p => Exchanged(h, i, p)[j] = h[j]
    BY <2>1, ExchangedValues, Zenon
  <2> QED
    BY <1>3, <2>2
<1>5. \A j \in 1 .. n - 1 : /\ j \in 0 .. n - 1 /\ j \in Nat /\ j # 0
                            /\ Parent(j) \in Nat /\ Parent(j) < j
                            /\ Parent(j) \in 0 .. n - 1
  BY <1>1, TreeFacts
<1>6. \A j \in 1 .. n - 1 : /\ j # i => v(Parent(j)) <= v(j)
                            /\ Parent(j) = i => v(p) <= v(j)
  BY DEF OrderedButUp, IsOrdered
<1>7. v(i) < v(p) /\ v(i) \in Int /\ v(p) \in Int
  BY <1>1, <1>2
<1>8. p # 0 => p \in 1 .. n - 1 /\ Parent(p) < p /\ Parent(p) \in 0 .. n - 1
  BY <1>1, <1>5
<1> HIDE DEF v, w, p, g
<1>9. ASSUME NEW j \in 1 .. n - 1, j # p PROVE w(Parent(j)) <= w(j)
  <2>1. v(j) \in Int /\ v(Parent(j)) \in Int
    BY <1>2, <1>5
  <2>2. CASE j = i
    BY <1>4, <1>7, <2>2 DEF p
  <2>3. CASE j # i /\ Parent(j) = i
    <3>1. w(j) = v(j) /\ w(Parent(j)) = v(p) /\ v(p) <= v(j)
      BY <1>4, <1>5, <1>6, <1>9, <2>3
    <3> QED
      BY <3>1
  <2>4. CASE j # i /\ Parent(j) = p
    <3>1. w(j) = v(j) /\ w(Parent(j)) = v(i) /\ v(p) <= v(j)
      BY <1>4, <1>5, <1>6, <1>9, <2>4
    <3> QED
      BY <1>7, <2>1, <3>1
  <2>5. CASE j # i /\ Parent(j) # i /\ Parent(j) # p
    <3>1. w(j) = v(j) /\ w(Parent(j)) = v(Parent(j))
      BY <1>4, <1>5, <1>9, <2>5
    <3> QED
      BY <1>6, <2>5, <3>1
  <2> QED
    BY <2>2, <2>3, <2>4, <2>5
<1>10. ASSUME NEW j \in 1 .. n - 1, p # 0, Parent(j) = p PROVE w(Parent(p)) <= w(j)
  <2>1. w(Parent(p)) = v(Parent(p)) /\ v(Parent(p)) <= v(p)
    <3>1. Parent(p) # p /\ Parent(p) # i /\ p # i
      BY <1>1, <1>8, <1>10
    <3> QED
      BY <1>4, <1>6, <1>8, <1>10, <3>1
  <2>2. v(Parent(p)) \in Int /\ v(j) \in Int
    BY <1>2, <1>5, <1>8, <1>10
  <2>3. CASE j = i
    BY <1>4, <2>1, <2>3
  <2>4. CASE j # i
    <3>1. j # p /\ j \in 0 .. n - 1
      BY <1>5, <1>10
    <3>2. w(j) = v(j) /\ v(p) <= v(j)
      BY <1>4, <1>6, <1>10, <2>4, <3>1
    <3> QED
      BY <1>7, <2>1, <2>2, <3>2
  <2> QED
    BY <2>3, <2>4
<1> QED
  BY <1>9, <1>10 DEF OrderedButUp, IsOrdered, w, g, p

LEMMA UpEndsInOrder ==
    ASSUME NEW n, NEW h, NEW k, IsHeapArray(h, k, n), NEW i \in 0 .. n - 1,
           OrderedButUp(h, k, n, i), i = 0 \/ ~(k[h[i]] < k[h[Parent(i)]])
    PROVE  OrderedFrom(h, k, n, 0)
<1>1. ASSUME NEW j \in 1 .. n - 1 PROVE IsOrdered(h, k, j)
  <2>1. CASE j # i
    BY <2>1 DEF OrderedButUp
  <2>2. CASE j = i
    <3>1. i # 0 /\ i \in Nat /\ n \in Nat
      BY <2>2 DEF IsHeapArray
    <3>2. Parent(i) \in 0 .. n - 1
      BY <3>1, TreeFacts
    <3>3. k[h[i]] \in Int /\ k[h[Parent(i)]] \in Int
      BY <3>2 DEF IsHeapArray
    <3> QED
      BY <2>2, <3>1, <3>3 DEF IsOrdered
  <2> QED
    BY <2>1, <2>2
<1> QED
  BY <1>1 DEF OrderedFrom

\* One turn of percolateDown, to a child c no larger than its sibling.
LEMMA DownKeepsOrder ==
    ASSUME NEW n, NEW h, NEW k, IsHeapArray(h, k, n), NEW i \in 0 .. n - 1,
           NEW low \in 0 .. i, NEW c \in 1 .. n - 1, Parent(c) = i,
           OrderedButDown(h, k, n, low, i), k[h[c]] < k[h[i]],
           \A j \in 1 .. n - 1 : Parent(j) = i => k[h[c]] <= k[h[j]]
    PROVE  OrderedButDown(Exchanged(h, i, c), k, n, low, c)
<1> DEFINE g == Exchanged(h, i, c)
           v(j) == k[h[j]]
           w(j) == k[g[j]]
<1>1. /\ n \in Nat /\ i \in Nat /\ c \in Nat /\ i < c /\ c \in 0 .. n - 1 /\ low \in Nat
      /\ low <= i
  <2>1. /\ n \in Nat /\ i \in Nat /\ low \in Nat /\ low <= i
        /\ c \in 0 .. n - 1 /\ c \in Nat /\ c # 0
    BY DEF IsHeapArray
  <2>2. Parent(c) < c
    BY <2>1, TreeFacts
  <2> QED
    BY <2>1, <2>2
<1>2. \A j \in 0 .. n - 1 : v(j) \in Int
  BY DEF IsHeapArray
<1>3. DOMAIN h = 0 .. n - 1
  BY DEF IsHeapArray
<1>4. /\ w(i) = v(c) /\ w(c) = v(i)
      /\ \A j \in 0 .. n - 1 : j # i /\ j # c => w(j) = v(j)
  <2>1. i \in DOMAIN h /\ c \in DOMAIN h
    BY <1>1, <1>3
  <2>2. /\ Exchanged(h, i, c)[i] = h[c] /\ Exchanged(h, i, c)[c] = h[i]
        /\ \A j \in DOMAIN h : j # i /\ j # c => Exchanged(h, i, c)[j] = h[j]
    BY <2>1, ExchangedValues, Zenon
  <2> QED
    BY <1>3, <2>2
<1>5. \A j \in 1 .. n - 1 : /\ j \in 0 .. n - 1 /\ j \in Nat /\ j # 0
                            /\ Parent(j) \in Nat /\ Parent(j) < j
                            /\ Parent(j) \in 0 .. n - 1
  BY <1>1, TreeFacts
<1>6. \A j \in 1 .. n - 1 :
          /\ Parent(j) >= low /\ Parent(j) # i => v(Parent(j)) <= v(j)
          /\ i # 0 /\ Parent(i) >= low /\ Parent(j) = i => v(Parent(i)) <= v(j)
          /\ Parent(j) = i => v(c) <= v(j)
  BY DEF OrderedButDown, IsOrdered
<1>7. v(c) < v(i) /\ v(c) \in Int /\ v(i) \in Int
  BY <1>1, <1>2
<1> HIDE DEF v, w, g
<1>8. ASSUME NEW j \in 1 .. n - 1, Parent(j) >= low, Parent(j) # c
      PROVE  w(Parent(j)) <= w(j)
  <2>1. v(j) \in Int /\ v(Parent(j)) \in Int
    BY <1>2, <1>5
  <2>2. CASE j = c
    BY <1>4, <1>7, <2>2
  <2>3. CASE j # c /\ Parent(j) = i
    <3>1. j # i
      BY <1>5, <2>3
    <3>2. w(j) = v(j) /\ w(Parent(j)) = v(c) /\ v(c) <= v(j)
      BY <1>4, <1>5, <1>6, <2>3, <3>1
    <3> QED
      BY <3>2
  <2>4. CASE j = i
    <3>1. Parent(i) # i /\ Parent(i) \in 0 .. n - 1 /\ i # 0
      BY <1>5, <2>4
    <3>2. w(i) = v(c) /\ w(Parent(i)) = v(Parent(i))
      BY <1>4, <1>8, <2>4, <3>1
    <3>3. v(Parent(i)) <= v(c)
      BY <1>6, <1>8, <2>4, <3>1
    <3> QED
      BY <2>4, <3>2, <3>3
  <2>5. CASE j # c /\ j # i /\ Parent(j) # i
    <3>1. w(j) = v(j) /\ w(Parent(j)) = v(Parent(j))
      BY <1>4, <1>5, <1>8, <2>5
    <3> QED
      BY <1>6, <1>8, <2>5, <3>1
  <2> QED
    BY <2>2, <2>3, <2>4, <2>5
<1>9. ASSUME NEW j \in 1 .. n - 1, Parent(j) = c PROVE w(Parent(c)) <= w(j)
  <2>1. Parent(c) = i /\ c >= low /\ c # i /\ j # c /\ j # i
    BY <1>1, <1>5, <1>9
  <2>2. w(Parent(c)) = v(c) /\ w(j) = v(j)
    BY <1>4, <1>5, <2>1
  <2>3. v(c) <= v(j)
    BY <1>6, <1>9, <2>1
  <2> QED
    BY <2>2, <2>3
<1> QED
  BY <1>8, <1>9 DEF OrderedButDown, IsOrdered, w, g

LEMMA DownEndsInOrder ==
    ASSUME NEW n, NEW h, NEW k, NEW low, NEW i, OrderedButDown(h, k, n, low, i),
           \A j \in 1 .. n - 1 : Parent(j) = i => IsOrdered(h, k, j)
    PROVE  OrderedFrom(h, k, n, low)
BY DEF OrderedFrom, OrderedButDown

\* The least element of an ordered heap is the first.
LEMMA FirstIsLeast ==
    ASSUME NEW n, NEW h, NEW k, IsHeapArray(h, k, n), OrderedFrom(h, k, n, 0)
    PROVE  \A j \in 0 .. n - 1 : k[h[0]] <= k[h[j]]
<1> DEFINE Out == {j \in 0 .. n - 1 : ~(k[h[0]] <= k[h[j]])}
<1>1. SUFFICES ASSUME Out # {} PROVE FALSE
  OBVIOUS
<1>2. PICK j \in Out : \A i \in Out : j <= i
  <2>1. Out \subseteq Nat
    BY DEF IsHeapArray
  <2> HIDE DEF Out
  <2> QED
    BY <1>1, <2>1, LeastElement
<1>3. n \in Nat /\ j \in 0 .. n - 1 /\ j \in Nat /\ 0 \in 0 .. n - 1
  BY DEF IsHeapArray
<1>4. \A i \in 0 .. n - 1 : k[h[i]] \in Int
  BY DEF IsHeapArray
<1>5. j # 0
  BY <1>3, <1>4
<1>6. Parent(j) \in Nat /\ Parent(j) < j /\ Parent(j) \in 0 .. n - 1 /\ j \in 1 .. n - 1
  BY <1>3, <1>5, TreeFacts
<1>7. Parent(j) \notin Out
  BY <1>2, <1>3, <1>6
<1>8. k[h[0]] <= k[h[Parent(j)]]
  BY <1>6, <1>7
<1>9. k[h[Parent(j)]] <= k[h[j]]
  BY <1>6 DEF OrderedFrom, IsOrdered
<1>10. k[h[0]] <= k[h[j]]
  BY <1>3, <1>4, <1>6, <1>8, <1>9
<1> QED
  BY <1>2, <1>10

-----------------------------------------------------------------------------
\* The indices of a heap of n elements M are their places.

Indexed(h, idx, n, D, M) ==
    /\ n \in Nat /\ M \subseteq D /\ idx \in [D -> Int] /\ h \in [0 .. n - 1 -> M]
    /\ \A i \in 0 .. n - 1 : idx[h[i]] = i
    /\ \A e \in M : idx[e] \in 0 .. n - 1 /\ h[idx[e]] = e
    /\ \A e \in D : e \notin M => idx[e] = -1

\* The indices after the elements at i and j have changed places.
Reindexed(h, idx, i, j) == [idx EXCEPT ![h[j]] = i, ![h[i]] = j]

LEMMA ExchangeKeepsIndices ==
    ASSUME NEW n, NEW D, NEW M, NEW h, NEW idx, Indexed(h, idx, n, D, M),
           NEW i \in 0 .. n - 1, NEW j \in 0 .. n - 1, i # j
    PROVE  Indexed(Exchanged(h, i, j), Reindexed(h, idx, i, j), n, D, M)
<1> DEFINE x == h[i]
           y == h[j]
           g == Exchanged(h, i, j)
           new == Reindexed(h, idx, i, j)
<1>1. /\ n \in Nat /\ M \subseteq D /\ idx \in [D -> Int] /\ h \in [0 .. n - 1 -> M]
      /\ \A l \in 0 .. n - 1 : idx[h[l]] = l
      /\ \A e \in M : idx[e] \in 0 .. n - 1 /\ h[idx[e]] = e
      /\ \A e \in D : e \notin M => idx[e] = -1
  BY DEF Indexed
<1>2. x \in M /\ y \in M /\ x \in D /\ y \in D /\ idx[x] = i /\ idx[y] = j /\ x # y
  BY <1>1
<1>3. /\ DOMAIN g = 0 .. n - 1 /\ g[i] = y /\ g[j] = x
      /\ \A l \in 0 .. n - 1 : l # i /\ l # j => g[l] = h[l]
  BY <1>1 DEF Exchanged
<1>4. g = [l \in 0 .. n - 1 |-> g[l]]
  BY <1>1 DEF Exchanged
<1>5. /\ new = [e \in D |-> new[e]]
      /\ new[x] = j /\ new[y] = i /\ \A e \in D : e # x /\ e # y => new[e] = idx[e]
  <2> HIDE DEF x, y
  <2>1. new = [idx EXCEPT ![y] = i, ![x] = j]
    BY Zenon DEF Reindexed, x, y
  <2> HIDE DEF new
  <2>2. \A e \in D : new[e] = IF e = x THEN j ELSE IF e = y THEN i ELSE idx[e]
    BY <1>1, <1>2, <2>1
  <2>3. new = [e \in D |-> new[e]]
    BY <1>1, <2>1
  <2> QED
    BY <1>2, <2>2, <2>3
<1>6. i \in Int /\ j \in Int
  BY <1>1
<1> HIDE DEF x, y, g, new
<1>7. \A l \in 0 .. n - 1 : g[l] \in M
  BY <1>1, <1>2, <1>3
<1>8. \A e \in D : new[e] \in Int
  BY <1>1, <1>5, <1>6
<1>9. ASSUME NEW l \in 0 .. n - 1 PROVE new[g[l]] = l
  <2>1. CASE l = i \/ l = j
    BY <1>3, <1>5, <2>1
  <2>2. CASE l # i /\ l # j
    <3>1. g[l] = h[l] /\ h[l] \in D /\ idx[h[l]] = l
      BY <1>1, <1>3, <2>2
    <3>2. h[l] # x /\ h[l] # y
      BY <1>2, <2>2, <3>1
    <3> QED
      BY <1>5, <3>1, <3>2
  <2> QED
    BY <2>1, <2>2
<1>10. ASSUME NEW e \in M PROVE new[e] \in 0 .. n - 1 /\ g[new[e]] = e
  <2>1. CASE e = x \/ e = y
    BY <1>3, <1>5, <2>1
  <2>2. CASE e # x /\ e # y
    <3>1. new[e] = idx[e] /\ idx[e] \in 0 .. n - 1 /\ h[idx[e]] = e
      BY <1>1, <1>5, <2>2
    <3>2. idx[e] # i /\ idx[e] # j
      BY <2>2, <3>1 DEF x, y
    <3> QED
      BY <1>3, <3>1, <3>2
  <2> QED
    BY <2>1, <2>2
<1>11. \A e \in D : e \notin M => new[e] = -1
  BY <1>1, <1>2, <1>5
<1>12. g \in [0 .. n - 1 -> M] /\ new \in [D -> Int]
  BY <1>4, <1>5, <1>7, <1>8
<1> QED
  BY <1>1, <1>9, <1>10, <1>11, <1>12 DEF Indexed, g, new

\* What a percolation of x goes through.
Percolations(n, D, M) ==
    [heap : [0 .. n - 1 -> M], indices : [D -> Int], hole : 0 .. n - 1]

HeapWith(s, x)    == Placed(s, x).heap
IndicesWith(s, x) == Placed(s, x).indices

IsPercolation(s, x, n, D, M) ==
    /\ s \in Percolations(n, D, M) /\ x \in M
    /\ Indexed(HeapWith(s, x), IndicesWith(s, x), n, D, M)

FilledHole(f, i, x) == [f EXCEPT ![i] = x]

IsPlaced(s, x, n) ==
    /\ HeapWith(s, x) = FilledHole(s.heap, s.hole, x)
    /\ IndicesWith(s, x) = FilledHole(s.indices, x, s.hole)
    /\ HeapWith(s, x)[s.hole] = x
    /\ \A j \in 0 .. n - 1 : j # s.hole => HeapWith(s, x)[j] = s.heap[j]

LEMMA PlacedValues ==
    ASSUME NEW n, NEW D, NEW M, NEW s \in Percolations(n, D, M), NEW x \in M, M \subseteq D
    PROVE  IsPlaced(s, x, n)
BY DEF IsPlaced, Percolations, HeapWith, IndicesWith, Placed, FilledHole

LEMMA MovedIsExchanged ==
    ASSUME NEW n, NEW D, NEW M, NEW s, NEW x, IsPercolation(s, x, n, D, M),
           NEW j \in 0 .. n - 1, j # s.hole
    PROVE  /\ IsPercolation(Moved(s, j), x, n, D, M)
           /\ HeapWith(Moved(s, j), x) = Exchanged(HeapWith(s, x), s.hole, j)
           /\ Moved(s, j).hole = j
<1> DEFINE y == s.heap[j]
           r == Moved(s, j)
<1>1. /\ s.heap \in [0 .. n - 1 -> M] /\ s.indices \in [D -> Int] /\ s.hole \in 0 .. n - 1
      /\ s \in Percolations(n, D, M) /\ x \in M /\ n \in Nat /\ M \subseteq D
  BY DEF IsPercolation, Percolations, Indexed
<1>2. /\ r.heap = [s.heap EXCEPT ![s.hole] = y]
      /\ r.indices = [s.indices EXCEPT ![y] = s.hole]
      /\ r.hole = j
      /\ r = [heap |-> r.heap, indices |-> r.indices, hole |-> r.hole]
  BY DEF Moved, Hole
<1>3. y \in M /\ y \in D /\ s.hole \in Int
  BY <1>1
<1> HIDE DEF y, r
<1>4. r \in Percolations(n, D, M)
  <2>1. r.heap \in [0 .. n - 1 -> M]
    BY <1>1, <1>2, <1>3
  <2>2. r.indices \in [D -> Int]
    BY <1>1, <1>2, <1>3
  <2> QED
    BY <1>2, <2>1, <2>2 DEF Percolations
<1>5. /\ HeapWith(s, x) = [s.heap EXCEPT ![s.hole] = x]
      /\ HeapWith(s, x)[s.hole] = x /\ HeapWith(s, x)[j] = y
      /\ IndicesWith(s, x) = [s.indices EXCEPT ![x] = s.hole]
  BY <1>1, PlacedValues DEF IsPlaced, y, FilledHole
<1>6. /\ HeapWith(r, x) = [r.heap EXCEPT ![j] = x]
      /\ IndicesWith(r, x) = [r.indices EXCEPT ![x] = j]
  <2>1. /\ HeapWith(r, x) = FilledHole(r.heap, r.hole, x)
        /\ IndicesWith(r, x) = FilledHole(r.indices, x, r.hole)
    <3>1. x \in M /\ M \subseteq D /\ r \in Percolations(n, D, M)
      BY <1>1, <1>4
    <3>2. IsPlaced(r, x, n)
      BY <3>1, PlacedValues, Zenon
    <3> QED
      BY <3>2, Zenon DEF IsPlaced
  <2> QED
    BY <1>2, <2>1, Zenon DEF FilledHole
<1>7. HeapWith(r, x) = Exchanged(HeapWith(s, x), s.hole, j)
  <2>1. Exchanged(HeapWith(s, x), s.hole, j)
            = [[s.heap EXCEPT ![s.hole] = x] EXCEPT ![s.hole] = y, ![j] = x]
    BY <1>5, Zenon DEF Exchanged
  <2> QED
    BY <1>1, <1>2, <1>6, <2>1
<1>8. IndicesWith(r, x) = Reindexed(HeapWith(s, x), IndicesWith(s, x), s.hole, j)
  <2>1. Reindexed(HeapWith(s, x), IndicesWith(s, x), s.hole, j)
            = [[s.indices EXCEPT ![x] = s.hole] EXCEPT ![y] = s.hole, ![x] = j]
    BY <1>5, Zenon DEF Reindexed
  <2> QED
    BY <1>1, <1>2, <1>3, <1>6, <2>1
<1>9. Indexed(HeapWith(r, x), IndicesWith(r, x), n, D, M)
  <2>1. Indexed(HeapWith(s, x), IndicesWith(s, x), n, D, M)
    BY DEF IsPercolation
  <2>2. Indexed(Exchanged(HeapWith(s, x), s.hole, j),
                Reindexed(HeapWith(s, x), IndicesWith(s, x), s.hole, j), n, D, M)
    BY <1>1, <2>1, ExchangeKeepsIndices, Zenon
  <2> QED
    BY <1>7, <1>8, <2>2
<1> QED
  BY <1>1, <1>2, <1>4, <1>7, <1>9 DEF IsPercolation, r

\* A percolation starts from a heap with its indices.
LEMMA PercolationStarts ==
    ASSUME NEW n, NEW D, NEW M, NEW h, NEW idx, Indexed(h, idx, n, D, M),
           NEW start \in 0 .. n - 1
    PROVE  /\ IsPercolation(Hole(h, idx, start), h[start], n, D, M)
           /\ HeapWith(Hole(h, idx, start), h[start]) = h
           /\ IndicesWith(Hole(h, idx, start), h[start]) = idx
           /\ Hole(h, idx, start).hole = start
<1> DEFINE s == Hole(h, idx, start)
           x == h[start]
<1>1. /\ h \in [0 .. n - 1 -> M] /\ idx \in [D -> Int] /\ M \subseteq D
      /\ x \in M /\ idx[x] = start
  BY DEF Indexed
<1>2. s.heap = h /\ s.indices = idx /\ s.hole = start /\ s \in Percolations(n, D, M)
  BY <1>1 DEF Hole, Percolations
<1> HIDE DEF s, x
<1>. IsPlaced(s, x, n)
  <2>1. x \in M /\ M \subseteq D /\ s \in Percolations(n, D, M)
    BY <1>1, <1>2
  <2> QED
    BY <2>1, PlacedValues, Zenon
<1>3. HeapWith(s, x) = h
  <2>1. HeapWith(s, x) = FilledHole(s.heap, s.hole, x)
    BY Zenon DEF IsPlaced
  <2>2. HeapWith(s, x) = [h EXCEPT ![start] = x]
    BY <1>2, <2>1, Zenon DEF FilledHole
  <2> QED
    BY <1>1, <2>2 DEF x
<1>4. IndicesWith(s, x) = idx
  <2>1. IndicesWith(s, x) = FilledHole(s.indices, x, s.hole)
    BY Zenon DEF IsPlaced
  <2>2. IndicesWith(s, x) = [idx EXCEPT ![x] = start]
    BY <1>2, <2>1, Zenon DEF FilledHole
  <2> QED
    BY <1>1, <2>2
<1> QED
  BY <1>1, <1>2, <1>3, <1>4 DEF IsPercolation, s, x

-----------------------------------------------------------------------------
\* Percolations, with keys k of the elements M.

KeysOf(k, M) == k \in [Elements -> Int] /\ M \subseteq Elements

LEMMA HeapArrays ==
    ASSUME NEW n, NEW D, NEW M, NEW h, NEW idx, Indexed(h, idx, n, D, M),
           NEW k, KeysOf(k, M)
    PROVE  IsHeapArray(h, k, n)
BY DEF Indexed, KeysOf, IsHeapArray

\* The percolating x is at a place where only the order with its parent is broken.
RisesWell(s, k, x, n, D, M) ==
    IsPercolation(s, x, n, D, M) /\ OrderedButUp(HeapWith(s, x), k, n, s.hole)

LEMMA GoesUpMeans ==
    ASSUME NEW n, NEW D, NEW M, NEW s, NEW k, NEW x, IsPercolation(s, x, n, D, M)
    PROVE  /\ s.hole \in 0 .. n - 1 /\ s.hole \in Nat /\ n \in Nat
           /\ s.hole # 0 => Parent(s.hole) \in 0 .. n - 1 /\ Parent(s.hole) < s.hole
           /\ GoesUp(s, k, x) <=>
                s.hole # 0 /\ k[HeapWith(s, x)[s.hole]] < k[HeapWith(s, x)[Parent(s.hole)]]
<1>1. s.hole \in 0 .. n - 1 /\ n \in Nat /\ s.hole \in Nat
  BY DEF IsPercolation, Percolations, Indexed
<1>2. IsPlaced(s, x, n)
  <2>1. x \in M /\ M \subseteq D /\ s \in Percolations(n, D, M)
    BY DEF IsPercolation, Indexed
  <2> QED
    BY <2>1, PlacedValues, Zenon
<1>3. s.hole # 0 => Parent(s.hole) \in 0 .. n - 1 /\ Parent(s.hole) < s.hole
  <2>1. s.hole # 0 => Parent(s.hole) \in Nat /\ Parent(s.hole) < s.hole
    BY <1>1, TreeFacts
  <2> QED
    BY <1>1, <2>1
<1>4. s.hole # 0 => HeapWith(s, x)[Parent(s.hole)] = s.heap[Parent(s.hole)]
  BY <1>1, <1>2, <1>3 DEF IsPlaced
<1>5. HeapWith(s, x)[s.hole] = x
  BY <1>2 DEF IsPlaced
<1>6. GoesUp(s, k, x) <=>
          s.hole # 0 /\ k[HeapWith(s, x)[s.hole]] < k[HeapWith(s, x)[Parent(s.hole)]]
  BY <1>4, <1>5, Zenon DEF GoesUp, Lt
<1> QED
  BY <1>1, <1>3, <1>6

LEMMA UpTurnRises ==
    ASSUME NEW n, NEW D, NEW M, NEW k, KeysOf(k, M), NEW s, NEW x,
           RisesWell(s, k, x, n, D, M)
    PROVE  /\ RisesWell(UpTurn(s, k, x), k, x, n, D, M)
           /\ GoesUp(s, k, x) => UpTurn(s, k, x).hole < s.hole
           /\ ~GoesUp(s, k, x) => UpTurn(s, k, x) = s
<1> DEFINE p == Parent(s.hole)
           h == HeapWith(s, x)
<1>1. IsPercolation(s, x, n, D, M) /\ OrderedButUp(h, k, n, s.hole)
  BY DEF RisesWell
<1>2. CASE ~GoesUp(s, k, x)
  BY <1>2, Zenon DEF UpTurn
<1>3. CASE GoesUp(s, k, x)
  <2>1. UpTurn(s, k, x) = Moved(s, p)
    BY <1>3, Zenon DEF UpTurn
  <2>2. /\ s.hole \in 0 .. n - 1 /\ s.hole # 0 /\ p \in 0 .. n - 1 /\ p < s.hole /\ p # s.hole
        /\ k[h[s.hole]] < k[h[p]]
    BY <1>1, <1>3, GoesUpMeans
  <2>3. /\ IsPercolation(Moved(s, p), x, n, D, M)
        /\ HeapWith(Moved(s, p), x) = Exchanged(h, s.hole, p)
        /\ Moved(s, p).hole = p
    <3>1. IsPercolation(s, x, n, D, M) /\ p \in 0 .. n - 1 /\ p # s.hole
      BY <1>1, <2>2
    <3> HIDE DEF p
    <3> QED
      BY <3>1, MovedIsExchanged
  <2>4. IsHeapArray(h, k, n)
    <3>1. Indexed(h, IndicesWith(s, x), n, D, M)
      BY <1>1 DEF IsPercolation
    <3> QED
      BY <3>1, HeapArrays, Zenon
  <2>5. OrderedButUp(Exchanged(h, s.hole, p), k, n, p)
    BY <1>1, <2>2, <2>4, UpKeepsOrder, Zenon
  <2> HIDE DEF p, h
  <2> QED
    BY <1>3, <2>1, <2>2, <2>3, <2>5 DEF RisesWell
<1> QED
  BY <1>2, <1>3

\* percolateUp puts the heap in order, and the indices are the places.
LEMMA PercolateUpOrders ==
    ASSUME NEW n, NEW D, NEW M, NEW k, KeysOf(k, M), NEW h, NEW idx,
           Indexed(h, idx, n, D, M), NEW start \in 0 .. n - 1, OrderedButUp(h, k, n, start)
    PROVE  /\ Indexed(PercolateUp(h, idx, k, start).heap,
                      PercolateUp(h, idx, k, start).indices, n, D, M)
           /\ OrderedFrom(PercolateUp(h, idx, k, start).heap, k, n, 0)
<1> DEFINE x == h[start]
           s0 == Hole(h, idx, start)
           S == {s \in Percolations(n, D, M) : RisesWell(s, k, x, n, D, M)}
           g == [s \in S |-> UpTurn(s, k, x)]
           IsRise(f) == f = [t \in 0 .. start |->
                               IF t = 0 THEN s0 ELSE UpTurn(f[t - 1], k, x)]
           up == CHOOSE f : IsRise(f)
<1>1. n \in Nat /\ start \in Nat
  BY DEF Indexed
<1>2. s0 \in S /\ s0.hole = start
  <2>1. IsPercolation(s0, x, n, D, M) /\ HeapWith(s0, x) = h /\ s0.hole = start
    BY PercolationStarts
  <2>2. s0 \in Percolations(n, D, M)
    BY <2>1 DEF IsPercolation
  <2> HIDE DEF s0, x
  <2> QED
    BY <2>1, <2>2 DEF RisesWell
<1>3. ASSUME NEW s \in S
      PROVE  /\ UpTurn(s, k, x) \in S /\ s.hole \in 0 .. n - 1
             /\ GoesUp(s, k, x) => UpTurn(s, k, x).hole < s.hole
             /\ ~GoesUp(s, k, x) => UpTurn(s, k, x) = s
  <2>1. RisesWell(s, k, x, n, D, M)
    OBVIOUS
  <2> HIDE DEF x
  <2>2. /\ RisesWell(UpTurn(s, k, x), k, x, n, D, M)
        /\ GoesUp(s, k, x) => UpTurn(s, k, x).hole < s.hole
        /\ ~GoesUp(s, k, x) => UpTurn(s, k, x) = s
    BY <2>1, UpTurnRises
  <2>3. UpTurn(s, k, x) \in Percolations(n, D, M)
    BY <2>2 DEF RisesWell, IsPercolation
  <2>4. s.hole \in 0 .. n - 1
    BY DEF Percolations
  <2> QED
    BY <2>2, <2>3, <2>4
<1>4. g \in [S -> S]
  <2> HIDE DEF S
  <2> QED
    BY <1>3
<1>5. PICK f \in [0 .. start -> S] : IsIteration(f, start, s0, g)
  <2> HIDE DEF S, g, s0
  <2> QED
    BY <1>1, <1>2, <1>4, Iteration, Zenon
<1>6. IsRise(f)
  <2>1. ASSUME NEW t \in 0 .. start, t # 0 PROVE g[f[t - 1]] = UpTurn(f[t - 1], k, x)
    <3>1. t - 1 \in 0 .. start
      BY <1>1, <2>1
    <3>2. f[t - 1] \in S
      BY <3>1
    <3> HIDE DEF S
    <3> QED
      BY <3>2
  <2> HIDE DEF g, s0, S
  <2> QED
    BY <1>5, <2>1 DEF IsIteration
<1>7. IsRise(up)
  <2> HIDE DEF IsRise
  <2> QED
    BY <1>6, Zenon
<1>8. PercolateUp(h, idx, k, start) = Placed(up[start], x)
  BY DEF PercolateUp
<1> HIDE DEF up
<1>9. \A t \in 0 .. start : up[t] = IF t = 0 THEN s0 ELSE UpTurn(up[t - 1], k, x)
  <2> HIDE DEF s0, x
  <2> QED
    BY <1>7
\* After t turns it has ended, or come t places up.
<1> DEFINE T == {t \in 0 .. start :
                    /\ up[t] \in S
                    /\ GoesUp(up[t], k, x) => up[t].hole <= start - t}
<1> HIDE DEF S, x, s0
<1>10. 0 \in T
  BY <1>1, <1>2, <1>9
<1>11. ASSUME NEW t \in 0 .. start, t # start, t \in T PROVE t + 1 \in T
  <2>1. /\ t + 1 \in 0 .. start /\ t + 1 # 0 /\ (t + 1) - 1 = t
        /\ start - (t + 1) = (start - t) - 1 /\ start - t \in Int
    <3>1. t \in Nat /\ t # start /\ t \in 0 .. start
      BY <1>11
    <3> QED
      BY <1>1, <3>1
  <2>2. up[t + 1] = UpTurn(up[t], k, x) /\ up[t] \in S
    BY <1>9, <1>11, <2>1
  <2>3. /\ up[t + 1] \in S /\ up[t].hole \in 0 .. n - 1 /\ up[t + 1].hole \in 0 .. n - 1
        /\ GoesUp(up[t], k, x) => up[t + 1].hole < up[t].hole
        /\ ~GoesUp(up[t], k, x) => up[t + 1] = up[t]
    BY <1>3, <2>2
  <2>4. ASSUME GoesUp(up[t + 1], k, x) PROVE up[t + 1].hole <= start - (t + 1)
    <3>1. GoesUp(up[t], k, x)
      BY <2>3, <2>4
    <3>2. up[t].hole <= start - t
      BY <1>11, <3>1
    <3> QED
      BY <1>1, <2>1, <2>3, <3>1, <3>2
  <2> QED
    BY <2>1, <2>3, <2>4
<1>12. start \in T
  <2>1. \A t \in 0 .. start : t \in T
    <3> HIDE DEF T
    <3> QED
      BY <1>1, <1>10, <1>11, UpTo
  <2> QED
    BY <1>1, <2>1
<1> DEFINE s == up[start]
<1>13. s \in S /\ ~GoesUp(s, k, x)
  <2>1. s \in S /\ (GoesUp(s, k, x) => s.hole <= 0)
    BY <1>1, <1>12
  <2>2. s.hole \in 0 .. n - 1
    BY <1>3, <2>1
  <2>3. GoesUp(s, k, x) => s.hole # 0
    BY Zenon DEF GoesUp
  <2> QED
    BY <1>1, <2>1, <2>2, <2>3
<1> HIDE DEF s
<1>14. IsPercolation(s, x, n, D, M) /\ OrderedButUp(HeapWith(s, x), k, n, s.hole)
  BY <1>13 DEF S, RisesWell
<1>15. Indexed(HeapWith(s, x), IndicesWith(s, x), n, D, M)
  BY <1>14 DEF IsPercolation
<1>16. IsHeapArray(HeapWith(s, x), k, n)
  BY <1>15, HeapArrays, Zenon
<1>17. OrderedFrom(HeapWith(s, x), k, n, 0)
  <2>1. /\ s.hole \in 0 .. n - 1
        /\ \/ s.hole = 0
           \/ ~(k[HeapWith(s, x)[s.hole]] < k[HeapWith(s, x)[Parent(s.hole)]])
    BY <1>13, <1>14, GoesUpMeans
  <2> QED
    BY <1>14, <1>16, <2>1, UpEndsInOrder, Zenon
<1> QED
  BY <1>8, <1>15, <1>17 DEF HeapWith, IndicesWith, s

\* An element that need not rise stays where it is.
LEMMA PercolateUpStays ==
    ASSUME NEW n, NEW D, NEW M, NEW k, NEW h, NEW idx, Indexed(h, idx, n, D, M),
           NEW start \in 0 .. n - 1, ~GoesUp(Hole(h, idx, start), k, h[start])
    PROVE  /\ PercolateUp(h, idx, k, start).heap = h
           /\ PercolateUp(h, idx, k, start).indices = idx
<1> DEFINE x == h[start]
           s0 == Hole(h, idx, start)
           IsRise(f) == f = [t \in 0 .. start |->
                               IF t = 0 THEN s0 ELSE UpTurn(f[t - 1], k, x)]
           up == CHOOSE f : IsRise(f)
<1>1. n \in Nat /\ start \in Nat
  BY DEF Indexed
<1>2. UpTurn(s0, k, x) = s0
  <2> HIDE DEF s0, x
  <2>1. ~GoesUp(s0, k, x)
    BY DEF s0, x
  <2> QED
    BY <2>1, Zenon DEF UpTurn
<1>3. \E f : IsRise(f)
  <2> DEFINE f == [t \in 0 .. start |-> s0]
  <2>1. \A t \in 0 .. start : t # 0 => f[t - 1] = s0
    <3>1. \A t \in 0 .. start : t # 0 => t - 1 \in 0 .. start
      BY <1>1
    <3> HIDE DEF s0
    <3> QED
      BY <3>1
  <2>2. IsRise(f)
    <3> HIDE DEF s0, x
    <3>1. \A t \in 0 .. start : s0 = IF t = 0 THEN s0 ELSE UpTurn(f[t - 1], k, x)
      BY <1>2, <2>1
    <3> QED
      BY <3>1
  <2> HIDE DEF IsRise, f
  <2> QED
    BY <2>2
<1>4. IsRise(up)
  <2> HIDE DEF IsRise
  <2> QED
    BY <1>3, Zenon
<1>5. PercolateUp(h, idx, k, start) = Placed(up[start], x)
  BY DEF PercolateUp
<1> HIDE DEF up
<1>6. \A t \in 0 .. start : up[t] = IF t = 0 THEN s0 ELSE UpTurn(up[t - 1], k, x)
  <2> HIDE DEF s0, x
  <2> QED
    BY <1>4
<1> DEFINE T == {t \in 0 .. start : up[t] = s0}
<1> HIDE DEF x, s0
<1>7. 0 \in T
  BY <1>1, <1>6
<1>8. ASSUME NEW t \in 0 .. start, t # start, t \in T PROVE t + 1 \in T
  <2>1. t + 1 \in 0 .. start /\ t + 1 # 0 /\ (t + 1) - 1 = t
    BY <1>1, <1>8
  <2> QED
    BY <1>2, <1>6, <1>8, <2>1
<1>9. start \in T
  <2>1. \A t \in 0 .. start : t \in T
    <3> HIDE DEF T
    <3> QED
      BY <1>1, <1>7, <1>8, UpTo
  <2> QED
    BY <1>1, <2>1
<1>10. up[start] = s0
  BY <1>9
<1>11. Placed(s0, x).heap = h /\ Placed(s0, x).indices = idx
  BY PercolationStarts DEF HeapWith, IndicesWith, s0, x
<1> QED
  BY <1>5, <1>10, <1>11

LEMMA SizeOfArray ==
    ASSUME NEW n \in Nat, NEW h, DOMAIN h = 0 .. n - 1
    PROVE  HeapSize(h) = n
<1>1. Cardinality(0 .. n - 1) = IF 0 > n - 1 THEN 0 ELSE (n - 1) - 0 + 1
  <2>1. 0 \in Int /\ n - 1 \in Int
    OBVIOUS
  <2> QED
    BY <2>1, FS_Interval
<1> QED
  BY <1>1 DEF HeapSize

\* The percolating x is at a place where only the order with its children is broken.
SinksWell(s, k, x, n, D, M, low) ==
    /\ IsPercolation(s, x, n, D, M) /\ low \in 0 .. s.hole
    /\ OrderedButDown(HeapWith(s, x), k, n, low, s.hole)

LEMMA GoesDownMeans ==
    ASSUME NEW n, NEW D, NEW M, NEW s, NEW k, KeysOf(k, M), NEW x,
           IsPercolation(s, x, n, D, M), NEW c, c = SmallerChild(s.heap, k, s.hole)
    PROVE  /\ s.hole \in 0 .. n - 1
           /\ GoesDown(s, k, x) =>
                /\ c \in 1 .. n - 1 /\ Parent(c) = s.hole /\ c > s.hole
                /\ k[HeapWith(s, x)[c]] < k[HeapWith(s, x)[s.hole]]
                /\ \A j \in 1 .. n - 1 : Parent(j) = s.hole =>
                      k[HeapWith(s, x)[c]] <= k[HeapWith(s, x)[j]]
           /\ ~GoesDown(s, k, x) =>
                \A j \in 1 .. n - 1 : Parent(j) = s.hole => IsOrdered(HeapWith(s, x), k, j)
<1> DEFINE i == s.hole
           l == Left(i)
           r == Right(i)
           h == HeapWith(s, x)
           v(j) == k[h[j]]
<1>1. i \in 0 .. n - 1 /\ n \in Nat /\ i \in Nat
  BY DEF IsPercolation, Percolations, Indexed
<1>2. IsPlaced(s, x, n)
  <2>1. x \in M /\ M \subseteq D /\ s \in Percolations(n, D, M)
    BY DEF IsPercolation, Indexed
  <2> QED
    BY <2>1, PlacedValues, Zenon
<1>3. HeapSize(s.heap) = n
  <2>1. DOMAIN s.heap = 0 .. n - 1
    BY DEF IsPercolation, Percolations
  <2> QED
    BY <1>1, <2>1, SizeOfArray
<1>4. \A j \in 0 .. n - 1 : v(j) \in Int
  <2>1. Indexed(h, IndicesWith(s, x), n, D, M)
    BY DEF IsPercolation
  <2>2. IsHeapArray(h, k, n)
    BY <2>1, HeapArrays, Zenon
  <2> QED
    BY <2>2 DEF IsHeapArray
<1>5. h[i] = x /\ \A j \in 0 .. n - 1 : j # i => h[j] = s.heap[j]
  BY <1>2 DEF IsPlaced
<1>6. /\ l \in Nat /\ r \in Nat /\ l > i /\ r = l + 1 /\ Parent(l) = i /\ Parent(r) = i
      /\ \A j \in Nat : j # 0 /\ Parent(j) = i => j = l \/ j = r
  <2> HIDE DEF i
  <2> QED
    BY <1>1, TreeFacts
<1>7. /\ GoesDown(s, k, x) <=> l < n /\ k[s.heap[c]] < k[x]
      /\ c = IF r < n /\ k[s.heap[r]] < k[s.heap[l]] THEN r ELSE l
  BY <1>3 DEF GoesDown, SmallerChild, Lt
<1> HIDE DEF i, l, r, h, v
<1>8. ASSUME l < n
      PROVE  /\ c \in 1 .. n - 1 /\ Parent(c) = i /\ c > i
             /\ \A j \in 1 .. n - 1 : Parent(j) = i => v(c) <= v(j)
             /\ k[s.heap[c]] < k[x] <=> v(c) < v(i)
  <2>1. l \in 0 .. n - 1 /\ l # i /\ (r < n => r \in 0 .. n - 1 /\ r # i)
    BY <1>1, <1>6, <1>8
  <2>2. k[s.heap[l]] = v(l) /\ (r < n => k[s.heap[r]] = v(r))
    BY <1>5, <2>1 DEF v
  <2>3. c \in 1 .. n - 1 /\ Parent(c) = i /\ c > i
    BY <1>1, <1>6, <1>7, <1>8
  <2>4. v(c) <= v(l) /\ (r < n => v(c) <= v(r))
    <3>1. v(l) \in Int /\ (r < n => v(r) \in Int)
      BY <1>4, <2>1
    <3> QED
      BY <1>7, <2>2, <3>1
  <2>5. ASSUME NEW j \in 1 .. n - 1, Parent(j) = i PROVE v(c) <= v(j)
    <3>1. j \in Nat /\ j # 0 /\ j < n
      BY <1>1
    <3>2. j = l \/ j = r
      BY <1>6, <2>5, <3>1
    <3> QED
      BY <2>4, <3>1, <3>2
  <2>6. k[s.heap[c]] = v(c) /\ k[x] = v(i)
    <3>1. c \in 0 .. n - 1 /\ c # i
      BY <1>1, <2>3
    <3> QED
      BY <1>5, <3>1 DEF v
  <2> QED
    BY <2>3, <2>5, <2>6
<1>9. ASSUME NEW j \in 1 .. n - 1, Parent(j) = i PROVE l < n
  <2>1. j \in Nat /\ j # 0 /\ j < n
    BY <1>1
  <2>2. j = l \/ j = r
    BY <1>6, <1>9, <2>1
  <2> QED
    BY <1>1, <1>6, <2>1, <2>2
<1>10. ASSUME GoesDown(s, k, x)
       PROVE  /\ c \in 1 .. n - 1 /\ Parent(c) = i /\ c > i /\ v(c) < v(i)
              /\ \A j \in 1 .. n - 1 : Parent(j) = i => v(c) <= v(j)
  BY <1>7, <1>8, <1>10
<1>11. ASSUME ~GoesDown(s, k, x), NEW j \in 1 .. n - 1, Parent(j) = i
       PROVE  v(i) <= v(j)
  <2>1. l < n
    BY <1>9, <1>11
  <2>2. ~(v(c) < v(i)) /\ v(c) <= v(j) /\ c \in 0 .. n - 1
    BY <1>1, <1>7, <1>8, <1>11, <2>1
  <2>3. v(c) \in Int /\ v(i) \in Int /\ v(j) \in Int
    BY <1>1, <1>4, <2>2
  <2> QED
    BY <2>2, <2>3
<1> QED
  BY <1>1, <1>10, <1>11 DEF i, h, v, IsOrdered

LEMMA DownTurnSinks ==
    ASSUME NEW n, NEW D, NEW M, NEW k, KeysOf(k, M), NEW low, NEW s, NEW x,
           SinksWell(s, k, x, n, D, M, low)
    PROVE  /\ SinksWell(DownTurn(s, k, x), k, x, n, D, M, low)
           /\ GoesDown(s, k, x) => DownTurn(s, k, x).hole > s.hole
           /\ ~GoesDown(s, k, x) => DownTurn(s, k, x) = s
<1> DEFINE c == SmallerChild(s.heap, k, s.hole)
           h == HeapWith(s, x)
<1>1. /\ IsPercolation(s, x, n, D, M) /\ OrderedButDown(h, k, n, low, s.hole)
      /\ low \in 0 .. s.hole
  BY DEF SinksWell
<1>2. CASE ~GoesDown(s, k, x)
  BY <1>2, Zenon DEF DownTurn
<1>3. CASE GoesDown(s, k, x)
  <2>1. DownTurn(s, k, x) = Moved(s, c)
    BY <1>3, Zenon DEF DownTurn
  <2> HIDE DEF c
  <2>2. /\ s.hole \in 0 .. n - 1 /\ c \in 1 .. n - 1 /\ Parent(c) = s.hole /\ c > s.hole
        /\ k[h[c]] < k[h[s.hole]]
        /\ \A j \in 1 .. n - 1 : Parent(j) = s.hole => k[h[c]] <= k[h[j]]
    <3>1. c = SmallerChild(s.heap, k, s.hole)
      BY DEF c
    <3> QED
      BY <1>1, <1>3, <3>1, GoesDownMeans
  <2>3. n \in Nat /\ s.hole \in Nat /\ c \in 0 .. n - 1 /\ c # s.hole
    <3>1. n \in Nat
      BY <1>1 DEF IsPercolation, Indexed
    <3> QED
      BY <2>2, <3>1
  <2>4. /\ IsPercolation(Moved(s, c), x, n, D, M)
        /\ HeapWith(Moved(s, c), x) = Exchanged(h, s.hole, c)
        /\ Moved(s, c).hole = c
    <3>1. IsPercolation(s, x, n, D, M) /\ c \in 0 .. n - 1 /\ c # s.hole
      BY <1>1, <2>3
    <3> QED
      BY <3>1, MovedIsExchanged
  <2>5. IsHeapArray(h, k, n)
    <3>1. Indexed(h, IndicesWith(s, x), n, D, M)
      BY <1>1 DEF IsPercolation
    <3> QED
      BY <3>1, HeapArrays, Zenon
  <2> HIDE DEF h
  <2>6. OrderedButDown(Exchanged(h, s.hole, c), k, n, low, c)
    BY <1>1, <2>2, <2>5, DownKeepsOrder
  <2>7. low \in 0 .. c
    BY <1>1, <2>2, <2>3
  <2> QED
    BY <1>3, <2>1, <2>2, <2>4, <2>6, <2>7 DEF SinksWell
<1> QED
  BY <1>2, <1>3

\* percolateDown puts the heap in order from low on, and the indices are the
\* places.
LEMMA PercolateDownOrders ==
    ASSUME NEW n, NEW D, NEW M, NEW k, KeysOf(k, M), NEW h, NEW idx,
           Indexed(h, idx, n, D, M), NEW start \in 0 .. n - 1, NEW low \in 0 .. start,
           OrderedButDown(h, k, n, low, start)
    PROVE  /\ Indexed(PercolateDown(h, idx, k, start).heap,
                      PercolateDown(h, idx, k, start).indices, n, D, M)
           /\ OrderedFrom(PercolateDown(h, idx, k, start).heap, k, n, low)
<1> DEFINE x == h[start]
           turns == n - start
           s0 == Hole(h, idx, start)
           S == {s \in Percolations(n, D, M) : SinksWell(s, k, x, n, D, M, low)}
           g == [s \in S |-> DownTurn(s, k, x)]
           IsSink(f) == f = [t \in 0 .. turns |->
                               IF t = 0 THEN s0 ELSE DownTurn(f[t - 1], k, x)]
           down == CHOOSE f : IsSink(f)
<1>1. n \in Nat /\ start \in Nat /\ turns \in Nat
  <2>1. n \in Nat
    BY DEF Indexed
  <2> QED
    BY <2>1
<1>2. s0 \in S /\ s0.hole = start
  <2>1. IsPercolation(s0, x, n, D, M) /\ HeapWith(s0, x) = h /\ s0.hole = start
    BY PercolationStarts
  <2>2. s0 \in Percolations(n, D, M)
    BY <2>1 DEF IsPercolation
  <2> HIDE DEF s0, x
  <2> QED
    BY <2>1, <2>2 DEF SinksWell
<1>3. ASSUME NEW s \in S
      PROVE  /\ DownTurn(s, k, x) \in S /\ s.hole \in 0 .. n - 1
             /\ GoesDown(s, k, x) => DownTurn(s, k, x).hole > s.hole
             /\ ~GoesDown(s, k, x) => DownTurn(s, k, x) = s
  <2>1. SinksWell(s, k, x, n, D, M, low)
    OBVIOUS
  <2> HIDE DEF x
  <2>2. /\ SinksWell(DownTurn(s, k, x), k, x, n, D, M, low)
        /\ GoesDown(s, k, x) => DownTurn(s, k, x).hole > s.hole
        /\ ~GoesDown(s, k, x) => DownTurn(s, k, x) = s
    BY <2>1, DownTurnSinks
  <2>3. DownTurn(s, k, x) \in Percolations(n, D, M)
    BY <2>2 DEF SinksWell, IsPercolation
  <2>4. s.hole \in 0 .. n - 1
    BY DEF Percolations
  <2> QED
    BY <2>2, <2>3, <2>4
<1>4. g \in [S -> S]
  <2> HIDE DEF S
  <2> QED
    BY <1>3
<1>5. PICK f \in [0 .. turns -> S] : IsIteration(f, turns, s0, g)
  <2> HIDE DEF S, g, s0, turns
  <2> QED
    BY <1>1, <1>2, <1>4, Iteration, Zenon
<1>6. IsSink(f)
  <2>1. ASSUME NEW t \in 0 .. turns, t # 0 PROVE g[f[t - 1]] = DownTurn(f[t - 1], k, x)
    <3> HIDE DEF turns
    <3>1. t - 1 \in 0 .. turns
      BY <1>1, <2>1
    <3>2. f[t - 1] \in S
      BY <3>1
    <3> HIDE DEF S
    <3> QED
      BY <3>2
  <2> HIDE DEF g, s0, S, turns
  <2> QED
    BY <1>5, <2>1 DEF IsIteration
<1>7. IsSink(down)
  <2> HIDE DEF IsSink
  <2> QED
    BY <1>6, Zenon
<1>8. PercolateDown(h, idx, k, start) = Placed(down[turns], x)
  <2>1. HeapSize(h) = n
    <3>1. DOMAIN h = 0 .. n - 1
      BY DEF Indexed
    <3> QED
      BY <1>1, <3>1, SizeOfArray
  <2> QED
    BY <2>1, Zenon DEF PercolateDown
<1> HIDE DEF down
<1>9. \A t \in 0 .. turns : down[t] = IF t = 0 THEN s0 ELSE DownTurn(down[t - 1], k, x)
  <2> HIDE DEF s0, x, turns
  <2> QED
    BY <1>7
\* After t turns it has ended, or come t places down.
<1> DEFINE T == {t \in 0 .. turns :
                    /\ down[t] \in S
                    /\ GoesDown(down[t], k, x) => down[t].hole >= start + t}
<1>10. start + turns = n
  BY <1>1
<1> HIDE DEF S, x, s0, turns
<1>11. 0 \in T
  BY <1>1, <1>2, <1>9
<1>12. ASSUME NEW t \in 0 .. turns, t # turns, t \in T PROVE t + 1 \in T
  <2>1. /\ t + 1 \in 0 .. turns /\ t + 1 # 0 /\ (t + 1) - 1 = t
        /\ start + (t + 1) = (start + t) + 1 /\ start + t \in Int
    <3>1. t \in Nat /\ t # turns /\ t \in 0 .. turns
      BY <1>12
    <3> QED
      BY <1>1, <3>1
  <2>2. down[t + 1] = DownTurn(down[t], k, x) /\ down[t] \in S
    BY <1>9, <1>12, <2>1
  <2>3. /\ down[t + 1] \in S /\ down[t].hole \in 0 .. n - 1 /\ down[t + 1].hole \in 0 .. n - 1
        /\ GoesDown(down[t], k, x) => down[t + 1].hole > down[t].hole
        /\ ~GoesDown(down[t], k, x) => down[t + 1] = down[t]
    BY <1>3, <2>2
  <2>4. ASSUME GoesDown(down[t + 1], k, x) PROVE down[t + 1].hole >= start + (t + 1)
    <3>1. GoesDown(down[t], k, x)
      BY <2>3, <2>4
    <3>2. down[t].hole >= start + t
      BY <1>12, <3>1
    <3>3. down[t].hole \in Int /\ down[t + 1].hole \in Int
      BY <1>1, <2>3
    <3>4. down[t + 1].hole > down[t].hole
      BY <2>3, <3>1
    <3> QED
      BY <2>1, <3>2, <3>3, <3>4
  <2> QED
    BY <2>1, <2>3, <2>4
<1>13. turns \in T
  <2>1. \A t \in 0 .. turns : t \in T
    <3> HIDE DEF T
    <3> QED
      BY <1>1, <1>11, <1>12, UpTo
  <2> QED
    BY <1>1, <2>1
<1> DEFINE s == down[turns]
<1>14. s \in S /\ ~GoesDown(s, k, x)
  <2>1. s \in S /\ (GoesDown(s, k, x) => s.hole >= n)
    BY <1>1, <1>10, <1>13
  <2>2. s.hole \in 0 .. n - 1
    BY <1>3, <2>1
  <2> QED
    BY <1>1, <2>1, <2>2
<1> HIDE DEF s
<1>15. IsPercolation(s, x, n, D, M) /\ OrderedButDown(HeapWith(s, x), k, n, low, s.hole)
  BY <1>14 DEF S, SinksWell
<1>16. Indexed(HeapWith(s, x), IndicesWith(s, x), n, D, M)
  BY <1>15 DEF IsPercolation
<1>17. OrderedFrom(HeapWith(s, x), k, n, low)
  <2>1. \A j \in 1 .. n - 1 : Parent(j) = s.hole => IsOrdered(HeapWith(s, x), k, j)
    BY <1>14, <1>15, GoesDownMeans
  <2> QED
    BY <1>15, <2>1, DownEndsInOrder
<1> QED
  BY <1>8, <1>16, <1>17 DEF HeapWith, IndicesWith, s

-----------------------------------------------------------------------------
\* The heap in order, with keys k, n elements M and m indices.

IsHeap(h, idx, k, n, m, M) ==
    /\ m \in Nat /\ KeysOf(k, M) /\ Indexed(h, idx, n, 0 .. m - 1, M)
    /\ OrderedFrom(h, k, n, 0)

LEMMA ElementsOfHeap ==
    ASSUME NEW n, NEW D, NEW M, NEW h, NEW idx, Indexed(h, idx, n, D, M), M \subseteq Elements
    PROVE  /\ DOMAIN h = 0 .. n - 1 /\ HeapSize(h) = n /\ DOMAIN idx = D
           /\ {e \in Elements : e \in DOMAIN idx /\ idx[e] >= 0} = M
           /\ IsFiniteSet(M) /\ Cardinality(M) = n
<1>1. /\ n \in Nat /\ M \subseteq D /\ idx \in [D -> Int] /\ h \in [0 .. n - 1 -> M]
      /\ \A i \in 0 .. n - 1 : idx[h[i]] = i
      /\ \A e \in M : idx[e] \in 0 .. n - 1 /\ h[idx[e]] = e
      /\ \A e \in D : e \notin M => idx[e] = -1
  BY DEF Indexed
<1>2. DOMAIN h = 0 .. n - 1 /\ HeapSize(h) = n /\ DOMAIN idx = D
  <2>1. DOMAIN h = 0 .. n - 1 /\ DOMAIN idx = D
    BY <1>1
  <2> QED
    BY <1>1, <2>1, SizeOfArray
<1>3. {e \in Elements : e \in DOMAIN idx /\ idx[e] >= 0} = M
  <2>1. ASSUME NEW e \in M PROVE e \in Elements /\ e \in DOMAIN idx /\ idx[e] >= 0
    BY <1>1, <1>2
  <2>2. ASSUME NEW e \in D, idx[e] >= 0 PROVE e \in M
    BY <1>1, <2>2
  <2> QED
    BY <1>2, <2>1, <2>2
<1>4. h \in Bijection(0 .. n - 1, M)
  <2>1. \A i, j \in 0 .. n - 1 : h[i] = h[j] => i = j
    BY <1>1
  <2>2. \A e \in M : \E i \in 0 .. n - 1 : h[i] = e
    BY <1>1
  <2> QED
    BY <1>1, <1>2, <2>1, <2>2 DEF Bijection, Injection, Surjection, IsInjective
<1>5. IsFiniteSet(0 .. n - 1) /\ Cardinality(0 .. n - 1) = n
  <2>1. IsFiniteSet(0 .. n - 1)
    <3>1. 0 \in Int /\ n - 1 \in Int
      BY <1>1
    <3> QED
      BY <3>1, FS_Interval
  <2> QED
    BY <1>2, <2>1 DEF HeapSize
<1>6. IsFiniteSet(M) /\ Cardinality(M) = n
  <2>1. ExistsBijection(0 .. n - 1, M)
    BY <1>4 DEF ExistsBijection
  <2> QED
    BY <1>5, <2>1, FS_Bijection
<1> QED
  BY <1>2, <1>3, <1>6

LEMMA LargestOf ==
    ASSUME NEW n \in Nat, NEW m \in Nat
    PROVE  Max({n} \cup 0 .. m - 1) = IF n >= m THEN n ELSE m - 1
<1> DEFINE S == {n} \cup 0 .. m - 1
           z == IF n >= m THEN n ELSE m - 1
<1>1. \A x \in S : (\A y \in S : x >= y) <=> x = z
  <2>1. z \in S /\ S \subseteq Int /\ \A y \in S : z >= y
    OBVIOUS
  <2> HIDE DEF S, z
  <2>2. ASSUME NEW x \in S, \A y \in S : x >= y PROVE x = z
    <3>1. x >= z /\ z >= x /\ x \in Int /\ z \in Int
      BY <2>1, <2>2
    <3> QED
      BY <3>1
  <2> QED
    BY <2>1, <2>2
<1>2. z \in S
  OBVIOUS
<1>3. Max(S) = z
  <2> HIDE DEF S, z
  <2> QED
    BY <1>1, <1>2 DEF Max
<1> QED
  BY <1>3

\* An ordered heap is ordered but for the children of any of its elements.
LEMMA OrderedThere ==
    ASSUME NEW n, NEW h, NEW k, IsHeapArray(h, k, n), NEW i \in 0 .. n - 1,
           OrderedFrom(h, k, n, 0)
    PROVE  OrderedButDown(h, k, n, 0, i) /\ OrderedButUp(h, k, n, i)
<1>1. n \in Nat /\ i \in Nat
  BY DEF IsHeapArray
<1>2. \A j \in 1 .. n - 1 : j \in 0 .. n - 1 /\ Parent(j) \in 0 .. n - 1 /\ Parent(j) >= 0
  <2>1. ASSUME NEW j \in 1 .. n - 1 PROVE j \in Nat /\ j # 0 /\ j < n
    BY <1>1
  <2>2. ASSUME NEW j \in 1 .. n - 1 PROVE Parent(j) \in Nat /\ Parent(j) < j
    BY <2>1, TreeFacts
  <2> QED
    BY <1>1, <2>1, <2>2
<1>3. \A j \in 1 .. n - 1 : IsOrdered(h, k, j)
  BY <1>2 DEF OrderedFrom
<1>4. ASSUME NEW j \in 1 .. n - 1, i # 0, Parent(j) = i PROVE k[h[Parent(i)]] <= k[h[j]]
  <2>1. i \in 1 .. n - 1
    BY <1>1, <1>4
  <2>2. /\ k[h[Parent(i)]] \in Int /\ k[h[i]] \in Int /\ k[h[j]] \in Int
    BY <1>2, <2>1 DEF IsHeapArray
  <2>3. k[h[Parent(i)]] <= k[h[i]] /\ k[h[i]] <= k[h[j]]
    BY <1>3, <1>4, <2>1 DEF IsOrdered
  <2> QED
    BY <2>2, <2>3
<1> QED
  BY <1>3, <1>4 DEF OrderedButDown, OrderedButUp

\* What a changed key breaks.
IsChanged(q, k, x, new) == q = [k EXCEPT ![x] = new]

LEMMA ChangedKey ==
    ASSUME NEW n, NEW D, NEW M, NEW h, NEW idx, Indexed(h, idx, n, D, M),
           NEW k, KeysOf(k, M), OrderedFrom(h, k, n, 0), NEW i \in 0 .. n - 1,
           NEW new \in Int, NEW q, IsChanged(q, k, h[i], new)
    PROVE  /\ KeysOf(q, M) /\ q[h[i]] = new
           /\ new <= k[h[i]] => OrderedButUp(h, q, n, i)
           /\ new >= k[h[i]] => /\ OrderedButDown(h, q, n, 0, i)
                                /\ ~GoesUp(Hole(h, idx, i), q, h[i])
<1> DEFINE x == h[i]
           v(j) == k[h[j]]
           w(j) == q[h[j]]
<1>1. /\ n \in Nat /\ i \in Nat /\ h \in [0 .. n - 1 -> M] /\ x \in M /\ x \in Elements
      /\ k \in [Elements -> Int] /\ M \subseteq Elements
  BY DEF Indexed, KeysOf
<1>2. \A j \in 0 .. n - 1 : j # i => h[j] # x
  BY DEF Indexed
<1>3. q \in [Elements -> Int] /\ q[x] = new
  BY <1>1 DEF IsChanged
<1>4. /\ w(i) = new /\ \A j \in 0 .. n - 1 : j # i => w(j) = v(j)
      /\ \A j \in 0 .. n - 1 : v(j) \in Int /\ w(j) \in Int
  <2>1. \A j \in 0 .. n - 1 : h[j] \in Elements
    BY <1>1
  <2>2. \A e \in Elements : e # x => q[e] = k[e]
    BY <1>1 DEF IsChanged
  <2> HIDE DEF x
  <2>3. \A j \in 0 .. n - 1 : j # i => w(j) = v(j)
    BY <1>2, <2>1, <2>2
  <2>4. \A j \in 0 .. n - 1 : v(j) \in Int /\ w(j) \in Int
    BY <1>1, <1>3, <2>1
  <2> QED
    BY <1>3, <2>3, <2>4 DEF x
<1>5. \A j \in 1 .. n - 1 : /\ j \in 0 .. n - 1 /\ Parent(j) \in 0 .. n - 1
                            /\ Parent(j) < j /\ Parent(j) # j
  <2>1. ASSUME NEW j \in 1 .. n - 1 PROVE j \in Nat /\ j # 0 /\ j < n
    BY <1>1
  <2>2. ASSUME NEW j \in 1 .. n - 1 PROVE Parent(j) \in Nat /\ Parent(j) < j
    BY <2>1, TreeFacts
  <2> QED
    BY <1>1, <2>1, <2>2
<1>6. IsHeapArray(h, k, n)
  BY HeapArrays
<1>7. /\ \A j \in 1 .. n - 1 : j # i => v(Parent(j)) <= v(j)
      /\ \A j \in 1 .. n - 1 : i # 0 /\ Parent(j) = i => v(Parent(i)) <= v(j)
      /\ \A j \in 1 .. n - 1 : Parent(j) # i => v(Parent(j)) <= v(j)
      /\ \A j \in 1 .. n - 1 : Parent(j) = i => v(i) <= v(j)
  <2>1. OrderedButUp(h, k, n, i)
    BY <1>6, OrderedThere
  <2>2. \A j \in 1 .. n - 1 : IsOrdered(h, k, j)
    BY <1>5 DEF OrderedFrom
  <2> QED
    BY <2>1, <2>2 DEF OrderedButUp, IsOrdered
<1>8. i # 0 => /\ i \in 1 .. n - 1 /\ Parent(i) \in 0 .. n - 1 /\ Parent(i) # i
               /\ v(Parent(i)) <= v(i)
  <2>1. i # 0 => i \in 1 .. n - 1
    BY <1>1
  <2> QED
    BY <1>5, <1>7, <2>1
<1> HIDE DEF v, w
<1>9. ASSUME new <= v(i) PROVE OrderedButUp(h, q, n, i)
  <2>1. ASSUME NEW j \in 1 .. n - 1, j # i PROVE w(Parent(j)) <= w(j)
    <3>1. w(j) = v(j) /\ v(Parent(j)) <= v(j) /\ w(Parent(j)) <= v(Parent(j))
      <4>1. CASE Parent(j) = i
        BY <1>4, <1>5, <1>7, <1>9, <2>1, <4>1
      <4>2. CASE Parent(j) # i
        <5>1. w(Parent(j)) = v(Parent(j)) /\ v(Parent(j)) \in Int
          BY <1>4, <1>5, <4>2
        <5> QED
          BY <1>4, <1>5, <1>7, <2>1, <5>1
      <4> QED
        BY <4>1, <4>2
    <3>2. w(j) \in Int /\ v(Parent(j)) \in Int /\ w(Parent(j)) \in Int
      BY <1>4, <1>5
    <3> QED
      BY <3>1, <3>2
  <2>2. ASSUME NEW j \in 1 .. n - 1, i # 0, Parent(j) = i PROVE w(Parent(i)) <= w(j)
    <3>1. w(Parent(i)) = v(Parent(i))
      BY <1>4, <1>8, <2>2
    <3>2. w(j) = v(j)
      BY <1>4, <1>5, <2>2
    <3> QED
      BY <1>7, <2>2, <3>1, <3>2
  <2> QED
    BY <2>1, <2>2 DEF OrderedButUp, IsOrdered, w
<1>10. ASSUME new >= v(i)
       PROVE  OrderedButDown(h, q, n, 0, i) /\ ~GoesUp(Hole(h, idx, i), q, h[i])
  <2>1. ASSUME NEW j \in 1 .. n - 1, Parent(j) # i PROVE w(Parent(j)) <= w(j)
    <3>1. w(Parent(j)) = v(Parent(j)) /\ v(Parent(j)) <= v(j) /\ v(j) <= w(j)
      <4>1. w(Parent(j)) = v(Parent(j)) /\ v(Parent(j)) <= v(j)
        BY <1>4, <1>5, <1>7, <2>1
      <4>2. v(j) <= w(j)
        <5>1. v(j) \in Int /\ v(i) \in Int
          BY <1>4, <1>5
        <5> QED
          BY <1>4, <1>5, <1>10, <5>1
      <4> QED
        BY <4>1, <4>2
    <3>2. w(j) \in Int /\ v(j) \in Int /\ v(Parent(j)) \in Int
      BY <1>4, <1>5
    <3> QED
      BY <3>1, <3>2
  <2>2. ASSUME NEW j \in 1 .. n - 1, i # 0, Parent(j) = i PROVE w(Parent(i)) <= w(j)
    <3>1. w(Parent(i)) = v(Parent(i))
      BY <1>4, <1>8, <2>2
    <3>2. w(j) = v(j)
      BY <1>4, <1>5, <2>2
    <3> QED
      BY <1>7, <2>2, <3>1, <3>2
  <2>3. i # 0 => ~(w(i) < w(Parent(i)))
    <3>1. ASSUME i # 0 PROVE w(Parent(i)) = v(Parent(i)) /\ v(Parent(i)) \in Int
      BY <1>4, <1>8, <3>1
    <3>2. v(i) \in Int
      BY <1>4
    <3> QED
      BY <1>4, <1>8, <1>10, <3>1, <3>2
  <2>4. GoesUp(Hole(h, idx, i), q, h[i]) <=> i # 0 /\ w(i) < w(Parent(i))
    BY DEF GoesUp, Hole, Lt, w
  <2>5. OrderedButDown(h, q, n, 0, i)
    BY <2>1, <2>2 DEF OrderedButDown, IsOrdered, w
  <2> QED
    BY <2>3, <2>4, <2>5
<1> QED
  BY <1>1, <1>3, <1>9, <1>10 DEF KeysOf, v

\* What insert leaves to percolate: the new element is the last.
Widened(m, e) == IF e >= m THEN e + 1 ELSE m
LastIs(h, e, n) == [i \in 0 .. n |-> IF i = n THEN e ELSE h[i]]
IndexedLast(idx, e, n) == [Grown(idx, e) EXCEPT ![e] = n]

WidenedIndices(idx, m, e, n) ==
    [x \in 0 .. Widened(m, e) - 1 |->
        IF x = e THEN n ELSE IF x \in 0 .. m - 1 THEN idx[x] ELSE -1]

LEMMA IndicesGrow ==
    ASSUME NEW m \in Nat, NEW e \in Nat, NEW n \in Nat, NEW idx \in [0 .. m - 1 -> Int]
    PROVE  /\ Widened(m, e) \in Nat /\ e \in 0 .. Widened(m, e) - 1
           /\ 0 .. m - 1 \subseteq 0 .. Widened(m, e) - 1
           /\ IndexedLast(idx, e, n) = WidenedIndices(idx, m, e, n)
<1> DEFINE w == Widened(m, e)
<1>1. w \in Nat /\ e \in 0 .. w - 1 /\ 0 .. m - 1 \subseteq 0 .. w - 1
  BY DEF Widened
<1>2. Max({e} \cup DOMAIN idx) = w - 1
  <2>1. DOMAIN idx = 0 .. m - 1
    OBVIOUS
  <2> QED
    BY <2>1, LargestOf DEF Widened
<1> HIDE DEF w
<1>3. Grown(idx, e) = [x \in 0 .. w - 1 |-> IF x \in 0 .. m - 1 THEN idx[x] ELSE -1]
  <2>1. DOMAIN idx = 0 .. m - 1
    OBVIOUS
  <2> QED
    BY <1>2, <2>1, Zenon DEF Grown
<1>4. IndexedLast(idx, e, n) =
        [x \in 0 .. w - 1 |-> IF x = e THEN n ELSE IF x \in 0 .. m - 1 THEN idx[x] ELSE -1]
  BY <1>1, <1>3 DEF IndexedLast
<1> QED
  BY <1>1, <1>4 DEF w, WidenedIndices

LEMMA InsertKeeps ==
    ASSUME Elements \subseteq Nat, NEW h, NEW idx, NEW k, NEW n, NEW m, NEW M,
           IsHeap(h, idx, k, n, m, M),
           NEW e \in Elements, e \notin M, NEW new \in Int, NEW q, IsChanged(q, k, e, new)
    PROVE  /\ n + 1 \in Nat
           /\ IsHeap(PercolateUp(LastIs(h, e, n), IndexedLast(idx, e, n), q, n).heap,
                     PercolateUp(LastIs(h, e, n), IndexedLast(idx, e, n), q, n).indices,
                     q, n + 1, Widened(m, e), M \cup {e})
<1> DEFINE w == Widened(m, e)
           W == 0 .. w - 1
           h1 == LastIs(h, e, n)
           idx1 == IndexedLast(idx, e, n)
           B == M \cup {e}
<1>1. /\ n \in Nat /\ m \in Nat /\ M \subseteq 0 .. m - 1 /\ idx \in [0 .. m - 1 -> Int]
      /\ h \in [0 .. n - 1 -> M]
      /\ \A i \in 0 .. n - 1 : idx[h[i]] = i
      /\ \A x \in M : idx[x] \in 0 .. n - 1 /\ h[idx[x]] = x
      /\ \A x \in 0 .. m - 1 : x \notin M => idx[x] = -1
      /\ k \in [Elements -> Int] /\ M \subseteq Elements
  BY DEF IsHeap, Indexed, KeysOf
<1>2. /\ w \in Nat /\ e \in W /\ 0 .. m - 1 \subseteq W
      /\ idx1 = [x \in W |-> IF x = e THEN n ELSE IF x \in 0 .. m - 1 THEN idx[x] ELSE -1]
  <2>1. e \in Nat
    OBVIOUS
  <2>2. /\ w \in Nat /\ e \in W /\ 0 .. m - 1 \subseteq W
        /\ idx1 = WidenedIndices(idx, m, e, n)
    <3>1. m \in Nat /\ n \in Nat /\ idx \in [0 .. m - 1 -> Int]
      BY <1>1
    <3>2. /\ Widened(m, e) \in Nat /\ e \in 0 .. Widened(m, e) - 1
          /\ 0 .. m - 1 \subseteq 0 .. Widened(m, e) - 1
          /\ IndexedLast(idx, e, n) = WidenedIndices(idx, m, e, n)
      BY <2>1, <3>1, IndicesGrow
    <3> QED
      BY <3>2
  <2> QED
    BY <2>2, Zenon DEF WidenedIndices
<1>3. h1 = [i \in 0 .. n |-> IF i = n THEN e ELSE h[i]]
  BY DEF LastIs
<1>4. /\ (n + 1) - 1 = n /\ n + 1 \in Nat /\ n \in 0 .. n
      /\ \A i \in 0 .. n : i # n => i \in 0 .. n - 1
      /\ \A i \in 0 .. n - 1 : i \in 0 .. n /\ i # n
  BY <1>1
<1> HIDE DEF w, W, h1, idx1
<1>5. Indexed(h1, idx1, n + 1, W, B)
  <2>1. B \subseteq W
    BY <1>1, <1>2
  <2>2. h1 \in [0 .. n -> B]
    BY <1>1, <1>3, <1>4
  <2>3. idx1 \in [W -> Int]
    <3>1. n \in Int /\ -1 \in Int
      BY <1>1
    <3> QED
      BY <1>1, <1>2, <3>1
  <2>4. ASSUME NEW i \in 0 .. n PROVE idx1[h1[i]] = i
    <3>1. CASE i = n
      BY <1>2, <1>3, <3>1
    <3>2. CASE i # n
      <4>1. h1[i] = h[i] /\ h[i] \in M /\ idx[h[i]] = i
        BY <1>1, <1>3, <1>4, <3>2
      <4>2. h[i] # e /\ h[i] \in 0 .. m - 1 /\ h[i] \in W
        BY <1>1, <1>2, <4>1
      <4> QED
        BY <1>2, <4>1, <4>2
    <3> QED
      BY <3>1, <3>2
  <2>5. ASSUME NEW x \in B PROVE idx1[x] \in 0 .. n /\ h1[idx1[x]] = x
    <3>1. CASE x = e
      BY <1>2, <1>3, <1>4, <3>1
    <3>2. CASE x # e
      <4>1. x \in M /\ x \in 0 .. m - 1 /\ x \in W
        BY <1>1, <1>2, <3>2
      <4>2. idx1[x] = idx[x] /\ idx[x] \in 0 .. n - 1 /\ h[idx[x]] = x
        BY <1>1, <1>2, <3>2, <4>1
      <4> QED
        BY <1>3, <1>4, <4>2
    <3> QED
      BY <3>1, <3>2
  <2>6. ASSUME NEW x \in W, x \notin B PROVE idx1[x] = -1
    BY <1>1, <1>2, <2>6
  <2> QED
    BY <1>4, <2>1, <2>2, <2>3, <2>4, <2>5, <2>6 DEF Indexed
<1>6. KeysOf(q, B) /\ \A x \in M : q[x] = k[x]
  BY <1>1 DEF KeysOf, IsChanged
<1>7. OrderedButUp(h1, q, n + 1, n)
  <2>1. ASSUME NEW j \in 1 .. n
        PROVE  j \in 0 .. n /\ Parent(j) \in 0 .. n - 1 /\ Parent(j) \in Nat /\ Parent(j) # n
    <3>1. j \in Nat /\ j # 0 /\ j <= n
      BY <1>1
    <3>2. Parent(j) \in Nat /\ Parent(j) < j
      BY <3>1, TreeFacts
    <3> QED
      BY <1>1, <3>1, <3>2
  <2>2. ASSUME NEW j \in 1 .. n, j # n PROVE IsOrdered(h1, q, j)
    <3>1. j \in 1 .. n - 1 /\ j \in 0 .. n - 1 /\ Parent(j) \in 0 .. n - 1 /\ Parent(j) >= 0
      BY <1>1, <2>1, <2>2
    <3>2. IsOrdered(h, k, j)
      BY <3>1 DEF IsHeap, OrderedFrom
    <3>3. /\ h1[j] = h[j] /\ h1[Parent(j)] = h[Parent(j)]
          /\ h[j] \in M /\ h[Parent(j)] \in M
      BY <1>1, <1>3, <1>4, <3>1
    <3> QED
      BY <1>6, <3>2, <3>3 DEF IsOrdered
  <2> QED
    BY <1>4, <2>1, <2>2 DEF OrderedButUp
<1>8. n \in 0 .. (n + 1) - 1
  BY <1>4
<1> HIDE DEF B
<1>9. /\ Indexed(PercolateUp(h1, idx1, q, n).heap, PercolateUp(h1, idx1, q, n).indices,
                 n + 1, W, B)
      /\ OrderedFrom(PercolateUp(h1, idx1, q, n).heap, q, n + 1, 0)
  BY <1>5, <1>6, <1>7, <1>8, PercolateUpOrders, Zenon
<1> QED
  BY <1>2, <1>4, <1>6, <1>9, Zenon DEF IsHeap, h1, idx1, w, W, B

\* An element with a smaller key rises, one with a larger key sinks.
LEMMA DecreaseKeeps ==
    ASSUME NEW h, NEW idx, NEW k, NEW n, NEW m, NEW M, IsHeap(h, idx, k, n, m, M),
           NEW e \in M, NEW new \in Int, new <= k[e], NEW q, IsChanged(q, k, e, new)
    PROVE  IsHeap(PercolateUp(h, idx, q, idx[e]).heap,
                  PercolateUp(h, idx, q, idx[e]).indices, q, n, m, M)
<1> DEFINE i == idx[e]
<1>1. /\ Indexed(h, idx, n, 0 .. m - 1, M) /\ KeysOf(k, M) /\ OrderedFrom(h, k, n, 0)
      /\ m \in Nat
  BY DEF IsHeap
<1>2. i \in 0 .. n - 1 /\ h[i] = e
  BY <1>1 DEF Indexed
<1> HIDE DEF i
<1>3. KeysOf(q, M) /\ OrderedButUp(h, q, n, i)
  <2>1. IsChanged(q, k, h[i], new) /\ new <= k[h[i]]
    BY <1>2
  <2>2. i \in 0 .. n - 1
    BY <1>2
  <2> QED
    BY <1>1, <2>1, <2>2, ChangedKey, ZenonT(60)
<1>4. /\ Indexed(PercolateUp(h, idx, q, i).heap, PercolateUp(h, idx, q, i).indices,
                 n, 0 .. m - 1, M)
      /\ OrderedFrom(PercolateUp(h, idx, q, i).heap, q, n, 0)
  BY <1>1, <1>2, <1>3, PercolateUpOrders
<1> QED
  BY <1>1, <1>3, <1>4, Zenon DEF IsHeap, i

LEMMA IncreaseKeeps ==
    ASSUME NEW h, NEW idx, NEW k, NEW n, NEW m, NEW M, IsHeap(h, idx, k, n, m, M),
           NEW e \in M, NEW new \in Int, new >= k[e], NEW q, IsChanged(q, k, e, new)
    PROVE  IsHeap(PercolateDown(h, idx, q, idx[e]).heap,
                  PercolateDown(h, idx, q, idx[e]).indices, q, n, m, M)
<1> DEFINE i == idx[e]
<1>1. /\ Indexed(h, idx, n, 0 .. m - 1, M) /\ KeysOf(k, M) /\ OrderedFrom(h, k, n, 0)
      /\ m \in Nat
  BY DEF IsHeap
<1>2. i \in 0 .. n - 1 /\ h[i] = e /\ 0 \in 0 .. i
  BY <1>1 DEF Indexed
<1> HIDE DEF i
<1>3. KeysOf(q, M) /\ OrderedButDown(h, q, n, 0, i)
  <2>1. IsChanged(q, k, h[i], new) /\ new >= k[h[i]]
    BY <1>2
  <2>2. i \in 0 .. n - 1
    BY <1>2
  <2> QED
    BY <1>1, <2>1, <2>2, ChangedKey, ZenonT(60)
<1>4. /\ Indexed(PercolateDown(h, idx, q, i).heap, PercolateDown(h, idx, q, i).indices,
                 n, 0 .. m - 1, M)
      /\ OrderedFrom(PercolateDown(h, idx, q, i).heap, q, n, 0)
  BY <1>1, <1>2, <1>3, PercolateDownOrders
<1> QED
  BY <1>1, <1>3, <1>4, Zenon DEF IsHeap, i

\* An element of a heap in order stays in order when it looks for its place down.
LEMMA SinkingKeeps ==
    ASSUME NEW h, NEW idx, NEW k, NEW n, NEW m, NEW M, IsHeap(h, idx, k, n, m, M), NEW e \in M
    PROVE  IsHeap(PercolateDown(h, idx, k, idx[e]).heap,
                  PercolateDown(h, idx, k, idx[e]).indices, k, n, m, M)
<1> DEFINE i == idx[e]
<1>1. /\ Indexed(h, idx, n, 0 .. m - 1, M) /\ KeysOf(k, M) /\ OrderedFrom(h, k, n, 0)
      /\ m \in Nat
  BY DEF IsHeap
<1>2. i \in 0 .. n - 1 /\ h[i] = e /\ 0 \in 0 .. i
  BY <1>1 DEF Indexed
<1> HIDE DEF i
<1>3. OrderedButDown(h, k, n, 0, i)
  <2>1. IsHeapArray(h, k, n)
    BY <1>1, HeapArrays
  <2> QED
    BY <1>1, <1>2, <2>1, OrderedThere
<1>4. /\ Indexed(PercolateDown(h, idx, k, i).heap, PercolateDown(h, idx, k, i).indices,
                 n, 0 .. m - 1, M)
      /\ OrderedFrom(PercolateDown(h, idx, k, i).heap, k, n, 0)
  BY <1>1, <1>2, <1>3, PercolateDownOrders
<1> QED
  BY <1>1, <1>4, Zenon DEF IsHeap, i

\* update: up, and then down from where the element is.
LEMMA UpdateKeeps ==
    ASSUME NEW h, NEW idx, NEW k, NEW n, NEW m, NEW M, IsHeap(h, idx, k, n, m, M),
           NEW e \in M, NEW new \in Int, NEW q, IsChanged(q, k, e, new),
           NEW g, NEW j, g = PercolateUp(h, idx, q, idx[e]).heap,
           j = PercolateUp(h, idx, q, idx[e]).indices
    PROVE  IsHeap(PercolateDown(g, j, q, j[e]).heap,
                  PercolateDown(g, j, q, j[e]).indices, q, n, m, M)
<1>1. k[e] \in Int /\ idx[e] \in 0 .. n - 1 /\ h[idx[e]] = e
  BY DEF IsHeap, KeysOf, Indexed
<1>2. CASE new <= k[e]
  <2>1. IsHeap(g, j, q, n, m, M)
    BY <1>2, DecreaseKeeps
  <2> QED
    BY <2>1, SinkingKeeps
<1>3. CASE new >= k[e]
  <2>1. ~GoesUp(Hole(h, idx, idx[e]), q, h[idx[e]])
    <3> DEFINE i == idx[e]
    <3>1. Indexed(h, idx, n, 0 .. m - 1, M) /\ KeysOf(k, M) /\ OrderedFrom(h, k, n, 0)
      BY DEF IsHeap
    <3>2. i \in 0 .. n - 1 /\ IsChanged(q, k, h[i], new) /\ new >= k[h[i]]
      BY <1>1, <1>3
    <3> HIDE DEF i
    <3>3. ~GoesUp(Hole(h, idx, i), q, h[i])
      BY <3>1, <3>2, ChangedKey
    <3> QED
      BY <3>3 DEF i
  <2>2. g = h /\ j = idx
    <3>1. Indexed(h, idx, n, 0 .. m - 1, M)
      BY DEF IsHeap
    <3> QED
      BY <1>1, <2>1, <3>1, PercolateUpStays
  <2> QED
    BY <1>3, <2>2, IncreaseKeeps
<1> QED
  BY <1>1, <1>2, <1>3

\* removeMin: the last element takes the place of the first.
FirstForgotten(idx, x, last) == [[idx EXCEPT ![last] = 0] EXCEPT ![x] = -1]
WithoutFirst(h, last, n) == [i \in 0 .. n - 2 |-> IF i = 0 THEN last ELSE h[i]]

LEMMA RemovalKeepsIndices ==
    ASSUME NEW n, NEW D, NEW M, NEW h, NEW idx, Indexed(h, idx, n, D, M), n > 0,
           NEW x, x = h[0], NEW last, last = h[n - 1]
    PROVE  Indexed(WithoutFirst(h, last, n), FirstForgotten(idx, x, last), n - 1, D, M \ {x})
<1> DEFINE g == WithoutFirst(h, last, n)
           new == FirstForgotten(idx, x, last)
           B == M \ {x}
<1>1. /\ n \in Nat /\ M \subseteq D /\ idx \in [D -> Int] /\ h \in [0 .. n - 1 -> M]
      /\ \A i \in 0 .. n - 1 : idx[h[i]] = i
      /\ \A e \in M : idx[e] \in 0 .. n - 1 /\ h[idx[e]] = e
      /\ \A e \in D : e \notin M => idx[e] = -1
  BY DEF Indexed
<1>2. /\ 0 \in 0 .. n - 1 /\ n - 1 \in 0 .. n - 1 /\ n - 1 \in Nat /\ (n - 1) - 1 = n - 2
      /\ \A i \in 0 .. n - 2 : i \in 0 .. n - 1 /\ i # n - 1 /\ n - 1 # 0
      /\ \A i \in 0 .. n - 1 : i # n - 1 => i \in 0 .. n - 2
      /\ n - 1 # 0 => 0 \in 0 .. n - 2
  BY <1>1
<1>3. /\ x \in M /\ last \in M /\ x \in D /\ last \in D /\ idx[x] = 0 /\ idx[last] = n - 1
      /\ x = last <=> n - 1 = 0
  BY <1>1, <1>2
<1>4. g = [i \in 0 .. n - 2 |-> IF i = 0 THEN last ELSE h[i]]
  BY DEF WithoutFirst
<1>5. /\ new = [e \in D |-> new[e]]
      /\ \A e \in D : new[e] = IF e = x THEN -1 ELSE IF e = last THEN 0 ELSE idx[e]
  <2> DEFINE set0 == [idx EXCEPT ![last] = 0]
  <2>1. set0 = [e \in D |-> IF e = last THEN 0 ELSE idx[e]]
    BY <1>1, <1>3
  <2>2. new = [set0 EXCEPT ![x] = -1]
    BY Zenon DEF FirstForgotten
  <2> HIDE DEF set0, new
  <2> QED
    BY <1>3, <2>1, <2>2
<1> HIDE DEF g, new
<1>6. ASSUME NEW i \in 0 .. n - 2 PROVE g[i] \in B /\ new[g[i]] = i
  <2>1. CASE i = 0
    BY <1>2, <1>3, <1>4, <1>5, <2>1
  <2>2. CASE i # 0
    <3>1. g[i] = h[i] /\ h[i] \in M /\ h[i] \in D /\ idx[h[i]] = i
      BY <1>1, <1>2, <1>4, <2>2
    <3>2. h[i] # x /\ h[i] # last
      BY <1>2, <1>3, <2>2, <3>1
    <3> QED
      BY <1>5, <3>1, <3>2
  <2> QED
    BY <2>1, <2>2
<1>7. ASSUME NEW e \in B PROVE new[e] \in 0 .. n - 2 /\ g[new[e]] = e
  <2>1. CASE e = last
    BY <1>2, <1>3, <1>4, <1>5, <2>1
  <2>2. CASE e # last
    <3>1. new[e] = idx[e] /\ idx[e] \in 0 .. n - 1 /\ h[idx[e]] = e
      BY <1>1, <1>5, <2>2
    <3>2. idx[e] # 0 /\ idx[e] # n - 1
      BY <2>2, <3>1
    <3> QED
      BY <1>2, <1>4, <3>1, <3>2
  <2> QED
    BY <2>1, <2>2
<1>8. ASSUME NEW e \in D, e \notin B PROVE new[e] = -1
  BY <1>1, <1>3, <1>5, <1>8
<1>9. \A e \in D : new[e] \in Int
  BY <1>1, <1>5
<1>10. g \in [0 .. n - 2 -> B] /\ new \in [D -> Int] /\ B \subseteq D
  <2>1. g = [i \in 0 .. n - 2 |-> g[i]]
    BY <1>4
  <2> QED
    BY <1>1, <1>5, <1>6, <1>9, <2>1
<1> HIDE DEF B
<1> QED
  BY <1>2, <1>6, <1>7, <1>8, <1>10, Zenon DEF Indexed, g, new, B

LEMMA RemovalBreaksOnlyTheFirst ==
    ASSUME NEW n \in Nat, n > 0, NEW h, NEW k, NEW last, OrderedFrom(h, k, n, 0)
    PROVE  OrderedButDown(WithoutFirst(h, last, n), k, n - 1, 0, 0)
<1> DEFINE g == WithoutFirst(h, last, n)
<1>1. ASSUME NEW j \in 1 .. (n - 1) - 1, Parent(j) # 0 PROVE IsOrdered(g, k, j)
  <2>1. j \in Nat /\ j # 0 /\ j < n - 1
    OBVIOUS
  <2>2. Parent(j) \in Nat /\ Parent(j) < j
    BY <2>1, TreeFacts
  <2>3. /\ j \in 1 .. n - 1 /\ j \in 0 .. n - 2 /\ Parent(j) \in 0 .. n - 2 /\ Parent(j) >= 0
    BY <2>1, <2>2
  <2>4. g[j] = h[j] /\ g[Parent(j)] = h[Parent(j)]
    BY <1>1, <2>1, <2>3 DEF WithoutFirst
  <2>5. IsOrdered(h, k, j)
    BY <2>3 DEF OrderedFrom
  <2> QED
    BY <2>4, <2>5 DEF IsOrdered
<1> QED
  BY <1>1 DEF OrderedButDown

LEMMA RemoveKeeps ==
    ASSUME NEW h, NEW idx, NEW k, NEW n, NEW m, NEW M, IsHeap(h, idx, k, n, m, M), n > 0,
           NEW x, x = h[0], NEW last, last = h[n - 1],
           NEW g, g = WithoutFirst(h, last, n), NEW j, j = FirstForgotten(idx, x, last)
    PROVE  /\ n - 1 \in Nat /\ HeapSize(g) = n - 1
           /\ n - 1 > 1 => IsHeap(PercolateDown(g, j, k, 0).heap,
                                  PercolateDown(g, j, k, 0).indices, k, n - 1, m, M \ {x})
           /\ ~(n - 1 > 1) => IsHeap(g, j, k, n - 1, m, M \ {x})
<1>1. /\ Indexed(h, idx, n, 0 .. m - 1, M) /\ KeysOf(k, M) /\ OrderedFrom(h, k, n, 0)
      /\ m \in Nat /\ n \in Nat
  BY DEF IsHeap, Indexed
<1>2. Indexed(g, j, n - 1, 0 .. m - 1, M \ {x})
  BY <1>1, RemovalKeepsIndices
<1>3. OrderedButDown(g, k, n - 1, 0, 0)
  BY <1>1, RemovalBreaksOnlyTheFirst
<1>4. KeysOf(k, M \ {x})
  BY <1>1 DEF KeysOf
<1>5. n - 1 \in Nat /\ HeapSize(g) = n - 1
  <2>1. M \ {x} \subseteq Elements
    BY <1>4 DEF KeysOf
  <2>2. HeapSize(g) = n - 1
    BY <1>2, <2>1, ElementsOfHeap
  <2> QED
    BY <1>1, <2>2
<1>6. CASE n - 1 > 1
  <2>1. 0 \in 0 .. (n - 1) - 1 /\ 0 \in 0 .. 0
    BY <1>1, <1>6
  <2>2. /\ Indexed(PercolateDown(g, j, k, 0).heap, PercolateDown(g, j, k, 0).indices,
                   n - 1, 0 .. m - 1, M \ {x})
        /\ OrderedFrom(PercolateDown(g, j, k, 0).heap, k, n - 1, 0)
    BY <1>2, <1>3, <1>4, <2>1, PercolateDownOrders
  <2> QED
    BY <1>1, <1>4, <1>5, <1>6, <2>2 DEF IsHeap
<1>7. CASE ~(n - 1 > 1)
  <2>1. OrderedFrom(g, k, n - 1, 0)
    <3>1. 1 .. (n - 1) - 1 = {}
      BY <1>1, <1>7
    <3> QED
      BY <3>1 DEF OrderedFrom
  <2> QED
    BY <1>1, <1>2, <1>4, <1>5, <1>7, <2>1 DEF IsHeap
<1> QED
  BY <1>5, <1>6, <1>7

\* clear, and the elements that build takes instead.
ForgottenIn(h, idx) ==
    [n \in DOMAIN idx |-> IF \E i \in DOMAIN h : h[i] = n THEN -1 ELSE idx[n]]

LEMMA NoneLeft ==
    ASSUME NEW n, NEW D, NEW M, NEW h, NEW idx, Indexed(h, idx, n, D, M)
    PROVE  ForgottenIn(h, idx) = [e \in D |-> -1]
<1>1. /\ idx \in [D -> Int] /\ DOMAIN h = 0 .. n - 1 /\ M \subseteq D
      /\ \A e \in M : idx[e] \in 0 .. n - 1 /\ h[idx[e]] = e
      /\ \A e \in D : e \notin M => idx[e] = -1
  BY DEF Indexed
<1>2. ASSUME NEW e \in D
      PROVE  (IF \E i \in DOMAIN h : h[i] = e THEN -1 ELSE idx[e]) = -1
  <2>1. CASE e \in M
    BY <1>1, <2>1
  <2>2. CASE e \notin M
    BY <1>1, <2>2
  <2> QED
    BY <2>1, <2>2
<1> QED
  BY <1>1, <1>2 DEF ForgottenIn

LEMMA EmptyHeap ==
    ASSUME NEW k, NEW m \in Nat, KeysOf(k, {}), NEW h, h = [i \in {} |-> 0],
           NEW idx, idx = [e \in 0 .. m - 1 |-> -1]
    PROVE  IsHeap(h, idx, k, 0, m, {})
<1>1. 0 .. 0 - 1 = {} /\ 1 .. 0 - 1 = {} /\ -1 \in Int /\ 0 \in Nat
  OBVIOUS
<1>2. h \in [0 .. 0 - 1 -> {}] /\ idx \in [0 .. m - 1 -> Int]
  BY <1>1
<1>3. Indexed(h, idx, 0, 0 .. m - 1, {})
  BY <1>1, <1>2 DEF Indexed
<1>4. OrderedFrom(h, k, 0, 0)
  BY <1>1 DEF OrderedFrom
<1> QED
  BY <1>3, <1>4 DEF IsHeap

ListedHeap(ns)       == [i \in 0 .. Len(ns) - 1 |-> ns[i + 1]]
PlaceIn(ns, n, e)    == CHOOSE i \in 0 .. n - 1 : ns[i + 1] = e
ListedIndices(ns, D) ==
    [e \in D |-> IF e \in ToSet(ns) THEN PlaceIn(ns, Len(ns), e) ELSE -1]

LEMMA ListingIsIndexed ==
    ASSUME NEW n \in Nat, NEW S, S \subseteq Nat, NEW ns \in [1 .. n -> S], Ascending(ns),
           NEW D, ToSet(ns) \subseteq D
    PROVE  /\ Len(ns) = n /\ ToSet(ns) \subseteq S
           /\ Indexed(ListedHeap(ns), ListedIndices(ns, D), n, D, ToSet(ns))
<1> DEFINE M == ToSet(ns)
           g == ListedHeap(ns)
           j == ListedIndices(ns, D)
<1>1. Len(ns) = n /\ DOMAIN ns = 1 .. n
  OBVIOUS
<1>2. M = {ns[i] : i \in 1 .. n}
  BY <1>1 DEF ToSet
<1>3. \A a, b \in 1 .. n : ns[a] = ns[b] => a = b
  <2>1. ASSUME NEW a \in 1 .. n, NEW b \in 1 .. n, a < b PROVE ns[a] # ns[b]
    <3>1. ns[a] < ns[b]
      BY <1>1, <2>1 DEF Ascending
    <3>2. ns[a] \in Nat /\ ns[b] \in Nat
      OBVIOUS
    <3> QED
      BY <3>1, <3>2
  <2>2. ASSUME NEW a \in 1 .. n, NEW b \in 1 .. n, ns[a] = ns[b] PROVE a = b
    <3>1. ~(a < b) /\ ~(b < a)
      BY <2>1, <2>2
    <3> QED
      BY <3>1
  <2> QED
    BY <2>2
<1>4. g = [i \in 0 .. n - 1 |-> ns[i + 1]]
  BY <1>1 DEF ListedHeap
<1>5. \A i \in 0 .. n - 1 : i + 1 \in 1 .. n /\ g[i] = ns[i + 1] /\ g[i] \in M
  BY <1>2, <1>4
<1>6. ASSUME NEW e \in M PROVE \E i \in 0 .. n - 1 : ns[i + 1] = e
  <2>1. PICK a \in 1 .. n : ns[a] = e
    BY <1>2
  <2>2. a - 1 \in 0 .. n - 1 /\ (a - 1) + 1 = a
    OBVIOUS
  <2> QED
    BY <2>1, <2>2
<1>7. j = [e \in D |-> IF e \in M THEN PlaceIn(ns, n, e) ELSE -1]
  BY <1>1 DEF ListedIndices
<1> HIDE DEF M, g, j
<1>8. ASSUME NEW e \in M PROVE j[e] \in 0 .. n - 1 /\ ns[j[e] + 1] = e
  <2>1. e \in D
    BY <1>8 DEF M
  <2>2. j[e] = CHOOSE i \in 0 .. n - 1 : ns[i + 1] = e
    BY <1>7, <2>1 DEF PlaceIn
  <2> QED
    BY <1>6, <2>2
<1>9. ASSUME NEW i \in 0 .. n - 1 PROVE j[g[i]] = i
  <2>1. i + 1 \in 1 .. n /\ g[i] = ns[i + 1] /\ g[i] \in M
    BY <1>5
  <2>2. j[g[i]] \in 0 .. n - 1 /\ ns[j[g[i]] + 1] = ns[i + 1]
    BY <1>8, <2>1
  <2>3. j[g[i]] + 1 \in 1 .. n
    BY <1>5, <2>2
  <2>4. j[g[i]] + 1 = i + 1
    BY <1>3, <2>1, <2>2, <2>3
  <2> QED
    BY <2>2, <2>4
<1>10. ASSUME NEW e \in D, e \notin M PROVE j[e] = -1
  BY <1>7, <1>10
<1>11. g \in [0 .. n - 1 -> M] /\ j \in [D -> Int] /\ M \subseteq D
  <2>1. g \in [0 .. n - 1 -> M]
    BY <1>4, <1>5
  <2>2. j \in [D -> Int]
    <3>1. ASSUME NEW e \in D PROVE j[e] \in Int
      BY <1>8, <1>10
    <3>2. j = [e \in D |-> j[e]]
      BY <1>7
    <3> QED
      BY <3>1, <3>2
  <2> QED
    BY <2>1, <2>2 DEF M
<1>12. \A e \in M : j[e] \in 0 .. n - 1 /\ g[j[e]] = e
  BY <1>5, <1>8
<1>13. Indexed(g, j, n, D, M)
  BY <1>9, <1>10, <1>11, <1>12 DEF Indexed
<1>14. M \subseteq S
  BY <1>2
<1> QED
  BY <1>1, <1>13, <1>14 DEF g, j, M

\* build: the inner nodes go down, the last one first.
HeapRecords(n, D, M) == [heap : [0 .. n - 1 -> M], indices : [D -> Int]]

Sunk(r, k, i) == PercolateDown(r.heap, r.indices, k, i)

IsBuiltFrom(r, k, n, D, M, low) ==
    /\ r \in HeapRecords(n, D, M) /\ Indexed(r.heap, r.indices, n, D, M)
    /\ OrderedFrom(r.heap, k, n, low)

LEMMA SunkFrom ==
    ASSUME NEW n, NEW D, NEW M, NEW k, KeysOf(k, M), NEW i \in 0 .. n - 1, NEW r,
           IsBuiltFrom(r, k, n, D, M, i + 1)
    PROVE  IsBuiltFrom(Sunk(r, k, i), k, n, D, M, i)
<1>1. /\ Indexed(r.heap, r.indices, n, D, M) /\ OrderedFrom(r.heap, k, n, i + 1)
      /\ n \in Nat /\ i \in Nat /\ i \in 0 .. i
  BY DEF IsBuiltFrom, Indexed
<1>2. OrderedButDown(r.heap, k, n, i, i)
  <2>1. ASSUME NEW j \in 1 .. n - 1 PROVE Parent(j) \in Int
    BY <1>1 DEF Parent
  <2>2. i # 0 => ~(Parent(i) >= i)
    BY <1>1 DEF Parent
  <2>3. ASSUME NEW j \in 1 .. n - 1, Parent(j) >= i, Parent(j) # i
        PROVE  IsOrdered(r.heap, k, j)
    <3>1. Parent(j) >= i + 1
      BY <1>1, <2>1, <2>3
    <3> QED
      BY <1>1, <3>1 DEF OrderedFrom
  <2> QED
    BY <2>2, <2>3 DEF OrderedButDown
<1>3. /\ Indexed(Sunk(r, k, i).heap, Sunk(r, k, i).indices, n, D, M)
      /\ OrderedFrom(Sunk(r, k, i).heap, k, n, i)
  BY <1>1, <1>2, PercolateDownOrders DEF Sunk
<1>4. Sunk(r, k, i) = [heap |-> Sunk(r, k, i).heap, indices |-> Sunk(r, k, i).indices]
  BY DEF Sunk, PercolateDown, Placed
<1>5. Sunk(r, k, i).heap \in [0 .. n - 1 -> M] /\ Sunk(r, k, i).indices \in [D -> Int]
  BY <1>3 DEF Indexed
<1>6. Sunk(r, k, i) \in HeapRecords(n, D, M)
  BY <1>4, <1>5, Zenon DEF HeapRecords
<1> QED
  BY <1>3, <1>6 DEF IsBuiltFrom

\* The children of the places from the middle on are beyond the end.
LEMMA InnerNodes ==
    ASSUME NEW n \in Nat
    PROVE  /\ n \div 2 \in Nat /\ \A i \in 0 .. (n \div 2) - 1 : i \in 0 .. n - 1
           /\ \A j \in 1 .. n - 1 : ~(Parent(j) >= n \div 2)
BY DEF Parent

LEMMA BuildOrders ==
    ASSUME NEW n \in Nat, NEW D, NEW M, NEW k, KeysOf(k, M), NEW r0 \in HeapRecords(n, D, M),
           Indexed(r0.heap, r0.indices, n, D, M), NEW inner, inner = n \div 2, NEW built,
           built = CHOOSE f : f = [t \in 0 .. inner |->
                                      IF t = 0 THEN r0 ELSE Sunk(f[t - 1], k, inner - t)]
    PROVE  IsBuiltFrom(built[inner], k, n, D, M, 0)
<1> DEFINE IsBuilt(f) == f = [t \in 0 .. inner |->
                                IF t = 0 THEN r0 ELSE Sunk(f[t - 1], k, inner - t)]
           Good(r, t) == IsBuiltFrom(r, k, n, D, M, inner - t)
           P == {p \in (0 .. inner) \X HeapRecords(n, D, M) : Good(p[2], p[1])}
           Next2(p) == IF p[1] # inner
                       THEN <<p[1] + 1, Sunk(p[2], k, inner - (p[1] + 1))>> ELSE p
           g == [p \in P |-> Next2(p)]
           p0 == <<0, r0>>
<1>1. /\ inner \in Nat /\ \A i \in 0 .. inner - 1 : i \in 0 .. n - 1
      /\ \A j \in 1 .. n - 1 : ~(Parent(j) >= inner)
  BY InnerNodes
<1>2. Good(r0, 0)
  <2>1. inner - 0 = inner
    BY <1>1
  <2>2. OrderedFrom(r0.heap, k, n, inner)
    BY <1>1 DEF OrderedFrom
  <2> QED
    BY <2>1, <2>2 DEF IsBuiltFrom
<1>3. ASSUME NEW t \in 0 .. inner, t # inner, NEW r, Good(r, t)
      PROVE  /\ Good(Sunk(r, k, inner - (t + 1)), t + 1)
             /\ Sunk(r, k, inner - (t + 1)) \in HeapRecords(n, D, M)
             /\ t + 1 \in 0 .. inner /\ t + 1 # 0 /\ (t + 1) - 1 = t
  <2> DEFINE i == inner - (t + 1)
  <2>1. /\ i \in 0 .. inner - 1 /\ i + 1 = inner - t
        /\ t + 1 \in 0 .. inner /\ t + 1 # 0 /\ (t + 1) - 1 = t
    BY <1>1, <1>3
  <2>2. i \in 0 .. n - 1 /\ IsBuiltFrom(r, k, n, D, M, i + 1)
    <3>1. i \in 0 .. n - 1
      BY <1>1, <2>1
    <3> QED
      BY <1>3, <2>1, <3>1
  <2> HIDE DEF i
  <2>3. IsBuiltFrom(Sunk(r, k, i), k, n, D, M, i)
    BY <2>2, SunkFrom
  <2>4. Sunk(r, k, i) \in HeapRecords(n, D, M)
    BY <2>3 DEF IsBuiltFrom
  <2> QED
    BY <2>1, <2>3, <2>4 DEF i
<1> HIDE DEF Good
<1>4. p0 \in P
  BY <1>1, <1>2
<1>5. g \in [P -> P]
  <2>1. ASSUME NEW p \in P PROVE Next2(p) \in P
    <3>1. p[1] \in 0 .. inner /\ p[2] \in HeapRecords(n, D, M) /\ Good(p[2], p[1])
      OBVIOUS
    <3>2. CASE p[1] = inner
      BY <3>2
    <3>3. CASE p[1] # inner
      <4> DEFINE a == p[1] + 1
                 b == Sunk(p[2], k, inner - (p[1] + 1))
      <4>1. a \in 0 .. inner /\ b \in HeapRecords(n, D, M) /\ Good(b, a)
        BY <1>3, <3>1, <3>3
      <4> HIDE DEF a, b
      <4>2. <<a, b>> \in P
        BY <4>1
      <4> HIDE DEF P
      <4> QED
        BY <3>3, <4>2 DEF a, b
    <3> QED
      BY <3>2, <3>3
  <2> HIDE DEF P, Next2
  <2> QED
    BY <2>1
<1>6. PICK f \in [0 .. inner -> P] : IsIteration(f, inner, p0, g)
  <2> HIDE DEF P, g, p0
  <2> QED
    BY <1>1, <1>4, <1>5, Iteration, Zenon
<1>7. \A t \in 0 .. inner : f[t] \in P /\ f[t] = IF t = 0 THEN p0 ELSE Next2(f[t - 1])
  <2>1. ASSUME NEW t \in 0 .. inner, t # 0 PROVE g[f[t - 1]] = Next2(f[t - 1])
    <3>1. t - 1 \in 0 .. inner
      BY <1>1, <2>1
    <3>2. f[t - 1] \in P
      BY <3>1
    <3> HIDE DEF P, Next2
    <3> QED
      BY <3>2
  <2> HIDE DEF P, g, p0, Next2
  <2> QED
    BY <1>6, <2>1 DEF IsIteration
<1> DEFINE T == {t \in 0 .. inner : f[t][1] = t}
<1> HIDE DEF P
<1>8. 0 \in T
  BY <1>1, <1>7
<1>9. ASSUME NEW t \in 0 .. inner, t # inner, t \in T PROVE t + 1 \in T
  <2>1. t + 1 \in 0 .. inner /\ t + 1 # 0 /\ (t + 1) - 1 = t
    BY <1>1, <1>9
  <2>2. f[t + 1] = Next2(f[t]) /\ f[t][1] = t
    <3> HIDE DEF Next2
    <3> QED
      BY <1>7, <1>9, <2>1
  <2> QED
    BY <1>9, <2>1, <2>2
<1>10. \A t \in 0 .. inner : f[t][1] = t
  <2>1. \A t \in 0 .. inner : t \in T
    <3> HIDE DEF T
    <3> QED
      BY <1>1, <1>8, <1>9, UpTo
  <2> QED
    BY <2>1
<1>11. \E b : IsBuilt(b)
  <2> DEFINE b == [t \in 0 .. inner |-> f[t][2]]
  <2>1. ASSUME NEW t \in 0 .. inner
        PROVE  f[t][2] = IF t = 0 THEN r0 ELSE Sunk(b[t - 1], k, inner - t)
    <3>1. CASE t = 0
      BY <1>7, <3>1
    <3>2. CASE t # 0
      <4>1. t - 1 \in 0 .. inner /\ t - 1 # inner /\ (t - 1) + 1 = t
        BY <1>1, <3>2
      <4>2. b[t - 1] = f[t - 1][2] /\ f[t - 1][1] = t - 1
        BY <1>10, <4>1
      <4>3. f[t] = Next2(f[t - 1])
        <5> HIDE DEF Next2
        <5> QED
          BY <1>7, <3>2
      <4> HIDE DEF b
      <4> QED
        BY <3>2, <4>1, <4>2, <4>3
    <3> QED
      BY <3>1, <3>2
  <2>2. IsBuilt(b)
    <3>1. b = [t \in 0 .. inner |-> IF t = 0 THEN r0 ELSE Sunk(b[t - 1], k, inner - t)]
      BY <2>1
    <3> QED
      BY <3>1, Zenon
  <2> HIDE DEF IsBuilt, b
  <2> QED
    BY <2>2
<1>12. IsBuilt(built)
  <2>1. built = CHOOSE b : IsBuilt(b)
    OBVIOUS
  <2> HIDE DEF IsBuilt
  <2> QED
    BY <1>11, <2>1, Zenon
<1>13. \A t \in 0 .. inner :
          built[t] = IF t = 0 THEN r0 ELSE Sunk(built[t - 1], k, inner - t)
  BY <1>12
<1> DEFINE B == {t \in 0 .. inner : Good(built[t], t)}
<1>14. 0 \in B
  BY <1>1, <1>2, <1>13
<1>15. ASSUME NEW t \in 0 .. inner, t # inner, t \in B PROVE t + 1 \in B
  <2>1. Good(built[t], t)
    BY <1>15
  <2>2. /\ Good(Sunk(built[t], k, inner - (t + 1)), t + 1)
        /\ t + 1 \in 0 .. inner /\ t + 1 # 0 /\ (t + 1) - 1 = t
    BY <1>3, <1>15, <2>1
  <2>3. built[t + 1] = Sunk(built[t], k, inner - (t + 1))
    BY <1>13, <2>2
  <2> QED
    BY <2>2, <2>3
<1>16. Good(built[inner], inner)
  <2>1. \A t \in 0 .. inner : t \in B
    <3> HIDE DEF B
    <3> QED
      BY <1>1, <1>14, <1>15, UpTo
  <2> QED
    BY <1>1, <2>1
<1>17. inner - inner = 0
  BY <1>1
<1> QED
  BY <1>16, <1>17 DEF Good

-----------------------------------------------------------------------------
\* The steps of the heap, as those of a priority queue of the elements M.

PutsOne(M, M2) ==
    /\ \E e \in Elements : \E q \in Keys :
          M2 = M \cup {e} /\ keys' = [keys EXCEPT ![e] = q]
    /\ removed' = NoElement

TakesLeast(M, M2) ==
    \E e \in M : /\ \A a \in M : keys[e] <= keys[a]
                 /\ M2 = M \ {e} /\ removed' = e /\ keys' = keys

TakesOthers(M2) == M2 \in SUBSET Elements /\ removed' = NoElement /\ keys' = keys

Steps(M) ==
    \E n2, m2, M2 : /\ IsHeap(heap', indices', keys', n2, m2, M2)
                    /\ PutsOne(M, M2) \/ TakesLeast(M, M2) \/ TakesOthers(M2)

IsState(n, m, M) == keys \in [Elements -> Keys] /\ IsHeap(heap, indices, keys, n, m, M)

LEMMA StateFacts ==
    ASSUME HeapAssumption, NEW n, NEW m, NEW M, IsState(n, m, M)
    PROVE  /\ IsHeap(heap, indices, keys, n, m, M) /\ M \subseteq Elements
           /\ n \in Nat /\ m \in Nat /\ HeapSize(heap) = n /\ DOMAIN indices = 0 .. m - 1
           /\ DOMAIN heap = 0 .. n - 1
           /\ {e \in Elements : InHeap(e)} = M /\ Cardinality(M) = n
           /\ Elements \subseteq Nat /\ Keys \subseteq Int
<1>1. Indexed(heap, indices, n, 0 .. m - 1, M) /\ M \subseteq Elements /\ m \in Nat
  BY DEF IsState, IsHeap, KeysOf
<1>2. /\ DOMAIN heap = 0 .. n - 1 /\ HeapSize(heap) = n /\ DOMAIN indices = 0 .. m - 1
      /\ {e \in Elements : e \in DOMAIN indices /\ indices[e] >= 0} = M /\ Cardinality(M) = n
  BY <1>1, ElementsOfHeap
<1>3. n \in Nat
  BY <1>1 DEF Indexed
<1> QED
  BY <1>1, <1>2, <1>3 DEF IsState, InHeap, HeapAssumption

LEMMA InsertSteps ==
    ASSUME HeapAssumption, NEW n, NEW m, NEW M, IsState(n, m, M), NEW e \in Elements,
           ~InHeap(e), NEW q \in Keys, keys' = [keys EXCEPT ![e] = q],
           HeapBecomes(Inserted(e, keys')), removed' = NoElement
    PROVE  Steps(M)
<1> DEFINE up == PercolateUp(LastIs(heap, e, n), IndexedLast(indices, e, n), keys', n)
<1>1. /\ IsHeap(heap, indices, keys, n, m, M) /\ e \notin M /\ q \in Int
      /\ HeapSize(heap) = n /\ Elements \subseteq Nat
  BY StateFacts
<1>2. heap' = up.heap /\ indices' = up.indices
  BY <1>1, Zenon DEF HeapBecomes, Inserted, LastIs, IndexedLast
<1>3. IsHeap(heap', indices', keys', n + 1, Widened(m, e), M \cup {e})
  <2>1. IsChanged(keys', keys, e, q)
    BY DEF IsChanged
  <2>2. IsHeap(up.heap, up.indices, keys', n + 1, Widened(m, e), M \cup {e})
    BY <1>1, <2>1, InsertKeeps
  <2> QED
    BY <1>2, <2>2
<1>4. PutsOne(M, M \cup {e})
  BY DEF PutsOne
<1> QED
  BY <1>3, <1>4 DEF Steps

\* A changed key and a heap for it make a step of putting.
LEMMA ChangeSteps ==
    ASSUME HeapAssumption, NEW n, NEW m, NEW M, NEW e \in M, NEW q \in Keys,
           M \subseteq Elements, keys' = [keys EXCEPT ![e] = q], removed' = NoElement,
           IsHeap(heap', indices', keys', n, m, M)
    PROVE  Steps(M)
<1>1. M = M \cup {e} /\ e \in Elements
  OBVIOUS
<1>2. PutsOne(M, M)
  BY <1>1 DEF PutsOne
<1> QED
  BY <1>2 DEF Steps

LEMMA DecreaseSteps ==
    ASSUME HeapAssumption, NEW n, NEW m, NEW M, IsState(n, m, M), NEW e \in Elements,
           NEW q \in Keys, Decrease(e, q)
    PROVE  Steps(M)
<1>1. /\ IsHeap(heap, indices, keys, n, m, M) /\ e \in M /\ q \in Int /\ M \subseteq Elements
      /\ q <= keys[e]
  <2>1. e \in M /\ q < keys[e] /\ keys \in [Elements -> Keys] /\ Keys \subseteq Int
    BY StateFacts DEF Decrease, IsState
  <2>2. q <= keys[e]
    <3>1. q \in Int /\ keys[e] \in Int
      BY <2>1
    <3> QED
      BY <2>1, <3>1
  <2> QED
    BY <2>1, <2>2, StateFacts
<1>2. IsChanged(keys', keys, e, q)
  BY DEF Decrease, IsChanged
<1>3. /\ heap' = PercolateUp(heap, indices, keys', indices[e]).heap
      /\ indices' = PercolateUp(heap, indices, keys', indices[e]).indices
      /\ removed' = NoElement /\ keys' = [keys EXCEPT ![e] = q]
  BY DEF Decrease, HeapBecomes
<1>4. IsHeap(heap', indices', keys', n, m, M)
  BY <1>1, <1>2, <1>3, DecreaseKeeps
<1> QED
  BY <1>1, <1>3, <1>4, ChangeSteps

LEMMA IncreaseSteps ==
    ASSUME HeapAssumption, NEW n, NEW m, NEW M, IsState(n, m, M), NEW e \in Elements,
           NEW q \in Keys, Increase(e, q)
    PROVE  Steps(M)
<1>1. /\ IsHeap(heap, indices, keys, n, m, M) /\ e \in M /\ q \in Int /\ M \subseteq Elements
      /\ q >= keys[e]
  <2>1. e \in M /\ q > keys[e] /\ keys \in [Elements -> Keys] /\ Keys \subseteq Int
    BY StateFacts DEF Increase, IsState
  <2>2. q >= keys[e]
    <3>1. q \in Int /\ keys[e] \in Int
      BY <2>1
    <3> QED
      BY <2>1, <3>1
  <2> QED
    BY <2>1, <2>2, StateFacts
<1>2. IsChanged(keys', keys, e, q)
  BY DEF Increase, IsChanged
<1>3. /\ heap' = PercolateDown(heap, indices, keys', indices[e]).heap
      /\ indices' = PercolateDown(heap, indices, keys', indices[e]).indices
      /\ removed' = NoElement /\ keys' = [keys EXCEPT ![e] = q]
  BY DEF Increase, HeapBecomes
<1>4. IsHeap(heap', indices', keys', n, m, M)
  BY <1>1, <1>2, <1>3, IncreaseKeeps
<1> QED
  BY <1>1, <1>3, <1>4, ChangeSteps

LEMMA UpdateSteps ==
    ASSUME HeapAssumption, NEW n, NEW m, NEW M, IsState(n, m, M), NEW e \in Elements,
           NEW q \in Keys, Update(e, q)
    PROVE  Steps(M)
<1>1. keys' = [keys EXCEPT ![e] = q] /\ removed' = NoElement
  BY DEF Update
<1>2. CASE ~InHeap(e)
  <2>1. HeapBecomes(Inserted(e, keys'))
    BY <1>2, Zenon DEF Update
  <2> QED
    BY <1>1, <1>2, <2>1, InsertSteps
<1>3. CASE InHeap(e)
  <2> DEFINE g == PercolateUp(heap, indices, keys', indices[e]).heap
             j == PercolateUp(heap, indices, keys', indices[e]).indices
  <2>1. /\ IsHeap(heap, indices, keys, n, m, M) /\ e \in M /\ q \in Int
        /\ M \subseteq Elements
    BY <1>3, StateFacts
  <2>2. IsChanged(keys', keys, e, q)
    BY <1>1 DEF IsChanged
  <2>3. /\ heap' = PercolateDown(g, j, keys', j[e]).heap
        /\ indices' = PercolateDown(g, j, keys', j[e]).indices
    BY <1>3, Zenon DEF Update, HeapBecomes
  <2>4. IsHeap(PercolateDown(g, j, keys', j[e]).heap,
               PercolateDown(g, j, keys', j[e]).indices, keys', n, m, M)
    BY <2>1, <2>2, UpdateKeeps
  <2>5. IsHeap(heap', indices', keys', n, m, M)
    BY <2>3, <2>4
  <2> QED
    BY <1>1, <2>1, <2>5, ChangeSteps
<1> QED
  BY <1>2, <1>3

LEMMA RemoveSteps ==
    ASSUME HeapAssumption, NEW n, NEW m, NEW M, IsState(n, m, M), RemoveMin
    PROVE  Steps(M)
<1> DEFINE x == heap[0]
           last == heap[n - 1]
           g == WithoutFirst(heap, last, n)
           j == FirstForgotten(indices, x, last)
<1>1. /\ IsHeap(heap, indices, keys, n, m, M) /\ n \in Nat /\ HeapSize(heap) = n
      /\ M \subseteq Elements
  BY StateFacts
<1>2. n > 0 /\ keys' = keys /\ removed' = x
  BY <1>1 DEF RemoveMin
<1>3. IF HeapSize(g) > 1 THEN HeapBecomes(PercolateDown(g, j, keys, 0))
      ELSE HeapBecomes([heap |-> g, indices |-> j])
  BY <1>1, Zenon DEF RemoveMin, WithoutFirst, FirstForgotten
<1> HIDE DEF g, j
<1>4. /\ n - 1 \in Nat /\ HeapSize(g) = n - 1
      /\ n - 1 > 1 => IsHeap(PercolateDown(g, j, keys, 0).heap,
                             PercolateDown(g, j, keys, 0).indices, keys, n - 1, m, M \ {x})
      /\ ~(n - 1 > 1) => IsHeap(g, j, keys, n - 1, m, M \ {x})
  BY <1>1, <1>2, RemoveKeeps DEF g, j
<1>5. IsHeap(heap', indices', keys', n - 1, m, M \ {x})
  <2>1. CASE n - 1 > 1
    <3>1. /\ heap' = PercolateDown(g, j, keys, 0).heap
          /\ indices' = PercolateDown(g, j, keys, 0).indices
      BY <1>3, <1>4, <2>1 DEF HeapBecomes
    <3> QED
      BY <1>2, <1>4, <2>1, <3>1
  <2>2. CASE ~(n - 1 > 1)
    <3>1. heap' = g /\ indices' = j
      BY <1>3, <1>4, <2>2 DEF HeapBecomes
    <3> QED
      BY <1>2, <1>4, <2>2, <3>1
  <2> QED
    BY <2>1, <2>2
<1>6. x \in M /\ \A a \in M : keys[x] <= keys[a]
  <2>1. Indexed(heap, indices, n, 0 .. m - 1, M) /\ KeysOf(keys, M)
        /\ OrderedFrom(heap, keys, n, 0)
    BY <1>1 DEF IsHeap
  <2>2. \A i \in 0 .. n - 1 : keys[x] <= keys[heap[i]]
    <3>1. IsHeapArray(heap, keys, n)
      BY <2>1, HeapArrays
    <3> QED
      BY <2>1, <3>1, FirstIsLeast
  <2>3. 0 \in 0 .. n - 1 /\ \A a \in M : indices[a] \in 0 .. n - 1 /\ heap[indices[a]] = a
    BY <1>1, <1>2, <2>1 DEF Indexed
  <2>4. x \in M
    BY <2>1, <2>3 DEF Indexed
  <2> QED
    BY <2>2, <2>3, <2>4
<1>7. TakesLeast(M, M \ {x})
  BY <1>2, <1>6 DEF TakesLeast
<1> QED
  BY <1>5, <1>7 DEF Steps

LEMMA ClearSteps ==
    ASSUME HeapAssumption, NEW n, NEW m, NEW M, IsState(n, m, M), HeapClear
    PROVE  Steps(M)
<1>1. Indexed(heap, indices, n, 0 .. m - 1, M) /\ m \in Nat /\ KeysOf(keys, {})
  BY DEF IsState, IsHeap, KeysOf
<1>2. indices' = [e \in 0 .. m - 1 |-> -1]
  <2>1. indices' = ForgottenIn(heap, indices)
    BY Zenon DEF HeapClear, Forgotten, ForgottenIn
  <2> QED
    BY <1>1, <2>1, NoneLeft
<1>3. heap' = [i \in {} |-> 0] /\ keys' = keys /\ removed' = NoElement
  BY DEF HeapClear
<1>4. IsHeap(heap', indices', keys', 0, m, {})
  <2>1. IsHeap(heap', indices', keys, 0, m, {})
    BY <1>1, <1>2, <1>3, EmptyHeap
  <2> QED
    BY <1>3, <2>1
<1>5. TakesOthers({})
  BY <1>3 DEF TakesOthers
<1> QED
  BY <1>4, <1>5 DEF Steps

LEMMA BuildSteps ==
    ASSUME HeapAssumption, NEW n, NEW m, NEW M, IsState(n, m, M),
           NEW S \in SUBSET Elements, NEW ns \in [1 .. Cardinality(S) -> S], Ascending(ns),
           Build(ns)
    PROVE  Steps(M)
<1> DEFINE D == 0 .. m - 1
           c == Cardinality(S)
           B == ToSet(ns)
           r0 == Listed(ns)
           inner == c \div 2
           built == CHOOSE f : f = [t \in 0 .. inner |->
                                       IF t = 0 THEN r0 ELSE Sunk(f[t - 1], keys, inner - t)]
<1>1. c \in Nat /\ S \subseteq Nat
  <2>1. IsFiniteSet(S)
    BY FS_Subset DEF HeapAssumption
  <2> QED
    BY <2>1, FS_CardinalityType DEF HeapAssumption
<1>2. m \in Nat /\ DOMAIN indices = D /\ Indexed(heap, indices, n, D, M)
  BY StateFacts DEF IsHeap
<1>3. ToSet(ns) \subseteq D /\ keys' = keys /\ removed' = NoElement
  BY <1>2 DEF Build
<1>4. /\ Len(ns) = c /\ B \subseteq S
      /\ Indexed(ListedHeap(ns), ListedIndices(ns, D), c, D, B)
  <2> HIDE DEF c, D
  <2>1. ns \in [1 .. c -> S]
    BY DEF c
  <2> QED
    BY <1>1, <1>3, <2>1, ListingIsIndexed
<1>5. r0 = [heap |-> ListedHeap(ns), indices |-> ListedIndices(ns, D)]
  <2>1. \A e \in D : Forgotten[e] = -1
    <3>1. Forgotten = ForgottenIn(heap, indices)
      BY Zenon DEF Forgotten, ForgottenIn
    <3>2. Forgotten = [e \in D |-> -1]
      BY <1>2, <3>1, NoneLeft
    <3> QED
      BY <3>2
  <2>2. [e \in DOMAIN indices |->
            IF e \in ToSet(ns) THEN PlaceIn(ns, Len(ns), e) ELSE Forgotten[e]]
          = ListedIndices(ns, D)
    <3> HIDE DEF D
    <3> QED
      BY <1>2, <2>1 DEF ListedIndices
  <2> QED
    BY <2>2, Zenon DEF Listed, ListedHeap, PlaceIn
<1>6. /\ r0 \in HeapRecords(c, D, B) /\ Indexed(r0.heap, r0.indices, c, D, B)
      /\ KeysOf(keys, B)
  <2> HIDE DEF c, D, B, r0
  <2>1. ListedHeap(ns) \in [0 .. c - 1 -> B] /\ ListedIndices(ns, D) \in [D -> Int]
    BY <1>4 DEF Indexed
  <2>2. r0 \in HeapRecords(c, D, B)
    BY <1>5, <2>1 DEF HeapRecords
  <2>3. KeysOf(keys, B)
    BY <1>4 DEF IsState, IsHeap, KeysOf
  <2> QED
    BY <1>4, <1>5, <2>2, <2>3
<1>7. heap' = built[inner].heap /\ indices' = built[inner].indices
  BY <1>4, Zenon DEF Build, HeapBecomes, Sunk
<1> HIDE DEF c, D, B, r0
<1>8. IsBuiltFrom(built[inner], keys, c, D, B, 0)
  <2> HIDE DEF inner, built
  <2>1. inner = c \div 2
    BY DEF inner
  <2>2. built = CHOOSE f : f = [t \in 0 .. inner |->
                                   IF t = 0 THEN r0 ELSE Sunk(f[t - 1], keys, inner - t)]
    BY DEF built
  <2> QED
    BY <1>1, <1>6, <2>1, <2>2, BuildOrders
<1> HIDE DEF built, inner
<1>9. IsHeap(heap', indices', keys', c, m, B)
  <2>1. Indexed(heap', indices', c, D, B) /\ OrderedFrom(heap', keys', c, 0)
    BY <1>3, <1>7, <1>8 DEF IsBuiltFrom
  <2> QED
    BY <1>2, <1>3, <1>6, <2>1 DEF IsHeap, D
<1>10. TakesOthers(B)
  BY <1>3, <1>4 DEF TakesOthers
<1> QED
  BY <1>9, <1>10 DEF Steps

\* The invariant: the heap is in order and the indices are the places.
HeapIInv ==
    /\ removed \in Elements \cup {NoElement}
    /\ \E n, m, M : IsState(n, m, M)

LEMMA InitialHeap ==
    ASSUME HeapAssumption, HeapInit
    PROVE  HeapIInv /\ IsState(0, 0, {})
<1>1. keys \in [Elements -> Keys] /\ KeysOf(keys, {})
  <2>1. (CHOOSE k \in Keys : TRUE) \in Keys
    BY DEF HeapAssumption
  <2>2. keys \in [Elements -> Keys]
    BY <2>1 DEF HeapInit
  <2> QED
    BY <2>2 DEF KeysOf, HeapAssumption
<1>2. heap = [i \in {} |-> 0] /\ indices = [e \in 0 .. 0 - 1 |-> -1]
  <2>1. 0 .. 0 - 1 = {}
    OBVIOUS
  <2> QED
    BY <2>1 DEF HeapInit
<1>3. IsHeap(heap, indices, keys, 0, 0, {})
  <2>1. 0 \in Nat
    OBVIOUS
  <2> QED
    BY <1>1, <1>2, <2>1, EmptyHeap
<1> QED
  BY <1>1, <1>3 DEF HeapIInv, HeapInit, IsState

LEMMA HeapSteps ==
    ASSUME HeapAssumption, NEW n, NEW m, NEW M, IsState(n, m, M), HeapNext
    PROVE  Steps(M)
<1>1. ASSUME NEW e \in Elements, NEW q \in Keys, HeapInsert(e, q) PROVE Steps(M)
  BY <1>1, InsertSteps DEF HeapInsert
<1>2. ASSUME NEW S \in SUBSET Elements, NEW ns \in [1 .. Cardinality(S) -> S],
             Ascending(ns), Build(ns)
      PROVE  Steps(M)
  BY <1>2, BuildSteps
<1>3. ASSUME NEW e \in Elements, NEW q \in Keys,
             Decrease(e, q) \/ Increase(e, q) \/ Update(e, q)
      PROVE  Steps(M)
  BY <1>3, DecreaseSteps, IncreaseSteps, UpdateSteps
<1> QED
  BY <1>1, <1>2, <1>3, RemoveSteps, ClearSteps, Zenon DEF HeapNext

LEMMA HeapStepKeeps ==
    ASSUME HeapAssumption, HeapIInv, HeapNext
    PROVE  HeapIInv'
<1>1. PICK n, m, M : IsState(n, m, M)
  BY DEF HeapIInv
<1>2. PICK n2, m2, M2 : /\ IsHeap(heap', indices', keys', n2, m2, M2)
                        /\ PutsOne(M, M2) \/ TakesLeast(M, M2) \/ TakesOthers(M2)
  BY <1>1, HeapSteps, Zenon DEF Steps
<1>3. keys \in [Elements -> Keys] /\ M \subseteq Elements
  BY <1>1, StateFacts DEF IsState
<1>4. keys' \in [Elements -> Keys] /\ removed' \in Elements \cup {NoElement}
  BY <1>2, <1>3 DEF PutsOne, TakesLeast, TakesOthers
<1> QED
  BY <1>2, <1>4 DEF HeapIInv, IsState

LEMMA HeapInvariance ==
    ASSUME HeapAssumption
    PROVE  HeapSpec => []HeapIInv
<1>1. HeapIInv /\ UNCHANGED heapVars => HeapIInv'
  BY DEF heapVars, HeapIInv, IsState
<1>2. HeapIInv /\ [HeapNext]_heapVars => HeapIInv'
  BY <1>1, HeapStepKeeps
<1>3. HeapInit => HeapIInv
  BY InitialHeap
<1> QED
  BY <1>2, <1>3, PTL DEF HeapSpec

\* The keys and the array hold elements and keys, and the indices are the places:
\* an element says it is in the heap exactly if the array has it, at the place
\* that its index says, after any calls.
THEOREM HeapTypeCorrect ==
    ASSUME HeapAssumption
    PROVE  HeapSpec => []HeapTypeOK
<1>1. HeapIInv => HeapTypeOK
  <2> SUFFICES ASSUME HeapIInv PROVE HeapTypeOK
    OBVIOUS
  <2>1. PICK n, m, M : IsState(n, m, M)
    BY DEF HeapIInv
  <2>2. /\ keys \in [Elements -> Keys] /\ HeapSize(heap) = n /\ M \subseteq Elements
        /\ {e \in Elements : InHeap(e)} = M
        /\ Indexed(heap, indices, n, 0 .. m - 1, M) /\ DOMAIN heap = 0 .. n - 1
    BY <2>1, StateFacts DEF IsState, IsHeap
  <2>3. heap \in [0 .. HeapSize(heap) - 1 -> Elements]
    <3>1. heap \in [0 .. n - 1 -> Elements]
      BY <2>2 DEF Indexed
    <3> QED
      BY <2>2, <3>1
  <2>4. ASSUME NEW e \in Elements
        PROVE  \/ ~InHeap(e) /\ \A i \in DOMAIN heap : heap[i] # e
               \/ InHeap(e) /\ indices[e] \in DOMAIN heap /\ heap[indices[e]] = e
    <3>1. \A i \in 0 .. n - 1 : heap[i] \in M
      BY <2>2 DEF Indexed
    <3>2. \A a \in M : indices[a] \in 0 .. n - 1 /\ heap[indices[a]] = a
      BY <2>2 DEF Indexed
    <3>3. InHeap(e) <=> e \in M
      BY <2>2
    <3> QED
      BY <2>2, <3>1, <3>2, <3>3
  <2> QED
    BY <2>2, <2>3, <2>4 DEF HeapTypeOK, HeapIInv
<1> QED
  BY <1>1, HeapInvariance, PTL

\* The heap of the decision variables is a priority queue: whatever elements are
\* put in, whatever their keys become and however often it is built anew, no call
\* loses an element or has one twice, and removeMin returns one whose key is
\* least.  For every finite set of variables and all keys.
THEOREM HeapImplementsPriorityQueue ==
    ASSUME HeapAssumption
    PROVE  HeapSpec => ImplementsPriorityQueue
<1>1. HeapInit => AsPriorityQueue!Init
  <2> SUFFICES ASSUME HeapInit PROVE AsPriorityQueue!Init
    OBVIOUS
  <2>1. IsState(0, 0, {})
    BY InitialHeap
  <2>2. HeapSize(heap) = 0 /\ {e \in Elements : InHeap(e)} = {}
    BY <2>1, StateFacts
  <2> QED
    BY <2>1, <2>2 DEF AsPriorityQueue!Init, HeapInit, IsState
<1>2. HeapIInv /\ HeapNext => AsPriorityQueueStep
  <2> SUFFICES ASSUME HeapIInv, HeapNext PROVE AsPriorityQueue!Next
    BY DEF AsPriorityQueueStep
  <2>1. PICK n, m, M : IsState(n, m, M)
    BY DEF HeapIInv
  <2>2. {e \in Elements : InHeap(e)} = M /\ M \subseteq Elements
    BY <2>1, StateFacts
  <2>3. PICK n2, m2, M2 : /\ IsHeap(heap', indices', keys', n2, m2, M2)
                          /\ PutsOne(M, M2) \/ TakesLeast(M, M2) \/ TakesOthers(M2)
    BY <2>1, HeapSteps, Zenon DEF Steps
  <2>4. /\ HeapSize(heap') = n2 /\ Cardinality(M2) = n2
        /\ {e \in Elements : e \in DOMAIN indices' /\ indices'[e] >= 0} = M2
    <3>1. Indexed(heap', indices', n2, 0 .. m2 - 1, M2) /\ M2 \subseteq Elements
      BY <2>3 DEF IsHeap, KeysOf
    <3> QED
      BY <3>1, ElementsOfHeap
  <2>5. {e \in Elements : InHeap(e)}' = M2 /\ HeapSize(heap)' = Cardinality(M2)
    BY <2>4 DEF InHeap, HeapSize
  <2>6. HeapSize(heap)' = AsPriorityQueue!Cardinality({e \in Elements : InHeap(e)}')
    <3>1. HeapSize(heap)' = Cardinality({e \in Elements : InHeap(e)}')
      BY <2>5
    <3> QED
      BY <3>1, Zenon DEF Cardinality, AsPriorityQueue!Cardinality
  <2>7. CASE PutsOne(M, M2)
    <3>1. PICK e \in Elements : \E q \in Keys :
              M2 = M \cup {e} /\ keys' = [keys EXCEPT ![e] = q]
      BY <2>7 DEF PutsOne
    <3>2. AsPriorityQueue!Put(e)
      BY <2>2, <2>5, <2>7, <3>1 DEF AsPriorityQueue!Put, PutsOne
    <3> QED
      BY <2>6, <3>2, Zenon DEF AsPriorityQueue!Next
  <2>8. CASE TakesLeast(M, M2)
    <3>1. PICK e \in M : /\ \A a \in M : keys[e] <= keys[a]
                         /\ M2 = M \ {e} /\ removed' = e /\ keys' = keys
      BY <2>8 DEF TakesLeast
    <3>2. AsPriorityQueue!Take(e)
      BY <2>2, <2>5, <3>1 DEF AsPriorityQueue!Take
    <3>3. e \in Elements
      BY <2>2
    <3> QED
      BY <2>6, <3>2, <3>3, Zenon DEF AsPriorityQueue!Next
  <2>9. CASE TakesOthers(M2)
    <3>1. AsPriorityQueue!Replace(M2)
      BY <2>5, <2>9 DEF AsPriorityQueue!Replace, TakesOthers
    <3>2. M2 \in SUBSET Elements
      BY <2>9 DEF TakesOthers
    <3> QED
      BY <2>6, <3>1, <3>2, Zenon DEF AsPriorityQueue!Next
  <2> QED
    BY <2>3, <2>7, <2>8, <2>9
<1>3. UNCHANGED heapVars => AsPriorityQueueStep
  BY DEF heapVars, AsPriorityQueueStep, AsPriorityQueue!vars, InHeap, HeapSize
<1>4. HeapIInv /\ [HeapNext]_heapVars => AsPriorityQueueStep
  BY <1>2, <1>3
<1> QED
  BY <1>1, <1>4, HeapInvariance, PTL
     DEF HeapSpec, ImplementsPriorityQueue, AsPriorityQueue!Spec, AsPriorityQueueStep

-----------------------------------------------------------------------------
\* The sum of a sequence.

IsSum(f, seq) ==
    /\ f \in [0 .. Len(seq) -> Nat]
    /\ f[0] = 0
    /\ \A k \in 1 .. Len(seq) : f[k] = f[k - 1] + seq[k]

LEMMA TotalIsSum ==
    ASSUME NEW seq \in Seq(Nat)
    PROVE  \E f : IsSum(f, seq) /\ Total(seq) = f[Len(seq)]
<1> DEFINE N == Len(seq)
           g == [y \in (1 .. N) \X Nat |-> y[2] + seq[y[1]]]
           IsTotal(f) == f = [i \in 0 .. N |-> IF i = 0 THEN 0 ELSE f[i - 1] + seq[i]]
           upTo == CHOOSE f : IsTotal(f)
<1>1. N \in Nat /\ \A k \in 1 .. N : seq[k] \in Nat
  OBVIOUS
<1>2. g \in [(1 .. N) \X Nat -> Nat]
  BY <1>1
<1>3. \A k \in 1 .. N, y \in Nat : g[<<k, y>>] = y + seq[k]
  BY <1>1
<1> HIDE DEF N, g
<1>4. PICK f \in [0 .. N -> Nat] : IsRecursion(f, N, 0, g)
  BY <1>1, <1>2, Recursion
<1>5. \A k \in 1 .. N : k - 1 \in 0 .. N /\ f[k - 1] \in Nat
  BY <1>1
<1>6. f = [k \in 0 .. N |-> IF k = 0 THEN 0 ELSE g[<<k, f[k - 1]>>]]
  BY <1>4 DEF IsRecursion
<1>7. IsTotal(f)
  <2>1. \A k \in 0 .. N : f[k] = IF k = 0 THEN 0 ELSE f[k - 1] + seq[k]
    BY <1>1, <1>3, <1>5, <1>6
  <2>2. f = [k \in 0 .. N |-> f[k]]
    OBVIOUS
  <2> QED
    BY <2>1, <2>2
<1>8. IsTotal(upTo)
  <2> HIDE DEF IsTotal
  <2> QED
    BY <1>7, Zenon
<1>9. Total(seq) = upTo[N]
  BY DEF Total, N
<1> HIDE DEF upTo
<1>10. \A k \in 0 .. N : upTo[k] = IF k = 0 THEN 0 ELSE upTo[k - 1] + seq[k]
  BY <1>8
<1> DEFINE Numbers == {k \in 0 .. N : upTo[k] \in Nat}
<1>11. 0 \in Numbers
  BY <1>1, <1>10
<1>12. ASSUME NEW k \in 0 .. N, k # N, k \in Numbers PROVE k + 1 \in Numbers
  <2>1. k + 1 \in 0 .. N /\ k + 1 # 0 /\ (k + 1) - 1 = k /\ k + 1 \in 1 .. N
    BY <1>1, <1>12
  <2>2. upTo[k] \in Nat /\ upTo[k + 1] = upTo[k] + seq[k + 1]
    BY <1>10, <1>12, <2>1
  <2>3. upTo[k + 1] \in Nat
    <3>1. \A a, b \in Nat : a + b \in Nat
      OBVIOUS
    <3>2. seq[k + 1] \in Nat
      BY <1>1, <2>1
    <3> QED
      BY <2>2, <3>1, <3>2, Zenon
  <2> QED
    BY <2>1, <2>3
<1>13. \A k \in 0 .. N : upTo[k] \in Nat
  <2> HIDE DEF Numbers
  <2>1. \A k \in 0 .. N : k \in Numbers
    BY <1>1, <1>11, <1>12, UpTo
  <2> QED
    BY <2>1 DEF Numbers
<1>14. upTo \in [0 .. N -> Nat]
  <2>1. upTo = [k \in 0 .. N |-> upTo[k]]
    BY <1>8
  <2> QED
    BY <1>13, <2>1
<1>15. upTo[0] = 0 /\ \A k \in 1 .. N : upTo[k] = upTo[k - 1] + seq[k]
  BY <1>1, <1>10
<1>16. IsSum(upTo, seq)
  BY <1>14, <1>15 DEF IsSum, N
<1> QED
  BY <1>9, <1>16 DEF N

LEMMA SumIsTotal ==
    ASSUME NEW seq \in Seq(Nat), NEW h, IsSum(h, seq)
    PROVE  Total(seq) = h[Len(seq)]
<1>1. PICK f : IsSum(f, seq) /\ Total(seq) = f[Len(seq)]
  BY TotalIsSum
<1> DEFINE N == Len(seq)
           Same == {k \in 0 .. N : f[k] = h[k]}
<1>2. N \in Nat
  OBVIOUS
<1>3. 0 \in Same
  BY <1>1 DEF IsSum
<1>4. ASSUME NEW k \in 0 .. N, k # N, k \in Same PROVE k + 1 \in Same
  <2>1. k + 1 \in 1 .. N /\ (k + 1) - 1 = k /\ k + 1 \in 0 .. N
    BY <1>2, <1>4
  <2> QED
    BY <1>1, <1>4, <2>1 DEF IsSum
<1> HIDE DEF Same
<1>5. \A k \in 0 .. N : k \in Same
  <2> HIDE DEF N
  <2> QED
    BY <1>2, <1>3, <1>4, UpTo
<1> QED
  BY <1>1, <1>2, <1>5 DEF Same

LEMMA TotalOfAppend ==
    ASSUME NEW seq \in Seq(Nat), NEW x \in Nat
    PROVE  Total(Append(seq, x)) = Total(seq) + x
<1>1. PICK f : IsSum(f, seq) /\ Total(seq) = f[Len(seq)]
  BY TotalIsSum
<1> DEFINE N == Len(seq)
           h == [k \in 0 .. N + 1 |-> IF k = N + 1 THEN f[N] + x ELSE f[k]]
<1>2. N \in Nat /\ Append(seq, x) \in Seq(Nat) /\ Len(Append(seq, x)) = N + 1
  OBVIOUS
<1>3. /\ Append(seq, x)[N + 1] = x
      /\ \A k \in 1 .. N : Append(seq, x)[k] = seq[k]
  OBVIOUS
<1>4. IsSum(h, Append(seq, x))
  <2>1. h \in [0 .. N + 1 -> Nat]
    BY <1>1, <1>2 DEF IsSum
  <2>2. h[0] = 0 /\ h[N + 1] = f[N] + x /\ \A k \in 0 .. N : h[k] = f[k]
    BY <1>1, <1>2 DEF IsSum
  <2>3. ASSUME NEW k \in 1 .. N + 1 PROVE h[k] = h[k - 1] + Append(seq, x)[k]
    <3> HIDE DEF h
    <3>1. CASE k = N + 1
      BY <1>2, <1>3, <2>2, <3>1
    <3>2. CASE k # N + 1
      <4>1. k \in 1 .. N /\ k \in 0 .. N /\ k - 1 \in 0 .. N
        BY <1>2, <3>2
      <4> QED
        BY <1>1, <1>3, <2>2, <4>1 DEF IsSum
    <3> QED
      BY <3>1, <3>2
  <2> HIDE DEF h
  <2> QED
    BY <1>2, <2>1, <2>2, <2>3 DEF IsSum
<1>5. h[N + 1] = f[N] + x
  BY <1>2
<1> HIDE DEF h
<1> QED
  BY <1>1, <1>2, <1>4, <1>5, SumIsTotal

LEMMA TotalOfTail ==
    ASSUME NEW seq \in Seq(Nat), seq # << >>
    PROVE  Total(seq) = seq[1] + Total(Tail(seq))
<1> Tail(seq) \in Seq(Nat)
  OBVIOUS
<1>1. PICK f : IsSum(f, Tail(seq)) /\ Total(Tail(seq)) = f[Len(Tail(seq))]
  BY TotalIsSum
<1> DEFINE N == Len(seq)
           h == [k \in 0 .. N |-> IF k = 0 THEN 0 ELSE f[k - 1] + seq[1]]
<1>2. /\ N \in Nat /\ N > 0 /\ Len(Tail(seq)) = N - 1
      /\ \A k \in 1 .. N - 1 : Tail(seq)[k] = seq[k + 1]
      /\ \A k \in 1 .. N : seq[k] \in Nat
  OBVIOUS
<1>3. IsSum(h, seq)
  <2>1. f \in [0 .. N - 1 -> Nat] /\ f[0] = 0
        /\ \A k \in 1 .. N - 1 : f[k] = f[k - 1] + seq[k + 1]
    BY <1>1, <1>2 DEF IsSum
  <2>2. h \in [0 .. N -> Nat]
    BY <1>2, <2>1
  <2>3. h[0] = 0 /\ \A k \in 1 .. N : h[k] = f[k - 1] + seq[1]
    BY <1>2
  <2>4. ASSUME NEW k \in 1 .. N PROVE h[k] = h[k - 1] + seq[k]
    <3> HIDE DEF h
    <3>1. CASE k = 1
      BY <1>2, <2>1, <2>3, <3>1
    <3>2. CASE k # 1
      <4>1. PICK j \in 1 .. N - 1 : k = j + 1
        BY <1>2, <3>2
      <4>2. /\ j \in 1 .. N /\ k - 1 = j
            /\ j - 1 \in 0 .. N - 1
        BY <1>2, <4>1
      <4>3. h[k] = f[j] + seq[1] /\ h[k - 1] = f[j - 1] + seq[1]
        BY <2>3, <4>2
      <4>4. f[j] = f[j - 1] + seq[k]
        BY <2>1, <4>1
      <4>5. f[j - 1] \in Nat /\ seq[1] \in Nat /\ seq[k] \in Nat
        BY <1>2, <2>1, <4>2
      <4>6. \A a, b, c \in Nat : (a + c) + b = (a + b) + c
        OBVIOUS
      <4>7. (f[j - 1] + seq[k]) + seq[1] = (f[j - 1] + seq[1]) + seq[k]
        BY <4>5, <4>6, Zenon
      <4> QED
        BY <4>3, <4>4, <4>7, Zenon
    <3> QED
      BY <3>1, <3>2
  <2> HIDE DEF h
  <2> QED
    BY <2>2, <2>3, <2>4 DEF IsSum
<1>4. h[N] = f[N - 1] + seq[1] /\ f[N - 1] \in Nat
  BY <1>1, <1>2 DEF IsSum
<1> HIDE DEF h
<1> QED
  BY <1>1, <1>2, <1>3, <1>4, SumIsTotal

LEMMA TotalIsBetween ==
    ASSUME NEW seq \in Seq(Nat), NEW lo \in Nat, NEW hi \in Nat,
           \A k \in 1 .. Len(seq) : lo <= seq[k] /\ seq[k] <= hi
    PROVE  /\ Total(seq) \in Nat
           /\ lo * Len(seq) <= Total(seq) /\ Total(seq) <= hi * Len(seq)
<1>1. PICK f : IsSum(f, seq) /\ Total(seq) = f[Len(seq)]
  BY TotalIsSum
<1> DEFINE N == Len(seq)
           Fits == {k \in 0 .. N : lo * k <= f[k] /\ f[k] <= hi * k}
<1>2. N \in Nat /\ \A k \in 1 .. N : seq[k] \in Nat
  OBVIOUS
<1>3. 0 \in Fits
  BY <1>1 DEF IsSum
<1>4. ASSUME NEW k \in 0 .. N, k # N, k \in Fits PROVE k + 1 \in Fits
  <2>1. k + 1 \in 1 .. N /\ (k + 1) - 1 = k /\ k + 1 \in 0 .. N
    BY <1>2, <1>4
  <2>2. f[k + 1] = f[k] + seq[k + 1] /\ f[k] \in Nat
    BY <1>1, <2>1 DEF IsSum
  <2>3. lo <= seq[k + 1] /\ seq[k + 1] <= hi /\ seq[k + 1] \in Nat
    BY <1>2, <2>1
  <2>4. lo * (k + 1) = lo * k + lo /\ hi * (k + 1) = hi * k + hi
    OBVIOUS
  <2>5. lo * k \in Nat /\ hi * k \in Nat /\ lo * k <= f[k] /\ f[k] <= hi * k
    BY <1>4
  <2>6. lo * k + lo <= f[k] + seq[k + 1] /\ f[k] + seq[k + 1] <= hi * k + hi
    <3>1. \A a, b, c, d \in Nat : a <= c /\ b <= d => a + b <= c + d
      OBVIOUS
    <3> QED
      BY <2>2, <2>3, <2>5, <3>1, Zenon
  <2> QED
    BY <2>1, <2>2, <2>4, <2>6
<1> HIDE DEF Fits
<1>5. \A k \in 0 .. N : k \in Fits
  <2> HIDE DEF N
  <2> QED
    BY <1>2, <1>3, <1>4, UpTo
<1>6. N \in Fits /\ f[N] \in Nat
  BY <1>1, <1>2, <1>5 DEF IsSum
<1> QED
  BY <1>1, <1>6 DEF Fits

-----------------------------------------------------------------------------
\* The window: its places from the last on hold the last pushes.

PlaceOf(l, i) == IF l + i - 1 < maxsize THEN l + i - 1 ELSE l + i - 1 - maxsize

WindowSums == sumofqueue = Total(LastPushes)

WindowHolds ==
    /\ pushes \in Seq(WindowValues)
    /\ maxsize \in WindowSizes \cup {0}
    /\ maxsize = 0 => pushes = << >> /\ firstPlace = 0
    /\ elems \in [0 .. maxsize - 1 -> WindowValues \cup {0}]
    /\ maxsize > 0 => firstPlace \in 0 .. maxsize - 1
    /\ queuesize = IF Len(pushes) < maxsize THEN Len(pushes) ELSE maxsize
    /\ queuesize < maxsize => firstPlace = queuesize
    /\ lastPlace = IF queuesize = maxsize THEN firstPlace ELSE 0
    /\ \A i \in 1 .. queuesize : elems[PlaceOf(lastPlace, i)] = LastPushes[i]

WindowIInv == WindowHolds /\ WindowSums

LEMMA WindowNumbers ==
    ASSUME WindowAssumption, WindowHolds
    PROVE  /\ pushes \in Seq(Nat) /\ Len(pushes) \in Nat
           /\ maxsize \in Nat /\ queuesize \in Nat /\ queuesize <= Len(pushes)
           /\ queuesize <= maxsize
           /\ queuesize # maxsize => queuesize = Len(pushes)
<1>1. pushes \in Seq(Nat) /\ maxsize \in Nat
  <2>1. pushes \in Seq(WindowValues) /\ WindowValues \subseteq Nat
    BY DEF WindowAssumption, WindowHolds
  <2>2. \A i \in 1 .. Len(pushes) : pushes[i] \in Nat
    <3>1. \A i \in 1 .. Len(pushes) : pushes[i] \in WindowValues
      BY <2>1, ElementOfSeq, Zenon
    <3> QED
      BY <2>1, <3>1, Zenon
  <2>3. pushes = [i \in 1 .. Len(pushes) |-> pushes[i]] /\ Len(pushes) \in Nat
    BY <2>1
  <2>4. [i \in 1 .. Len(pushes) |-> pushes[i]] \in Seq(Nat)
    BY <2>2, <2>3
  <2> QED
    BY <2>3, <2>4 DEF WindowAssumption, WindowHolds
<1> QED
  BY <1>1 DEF WindowHolds

\* The last q of some pushes begin at from.
StartsAt(from, len, q) ==
    /\ q <= len /\ from \in 1 .. len + 1 /\ len - from + 1 = q
    /\ \A i \in 1 .. q : from + i - 1 = len - q + i

LEMMA WindowStart ==
    ASSUME NEW len \in Nat, NEW n \in Nat, NEW q \in Nat, len < n => q = len, ~(len < n) => q = n
    PROVE  StartsAt(Max({1, len - n + 1}), len, q)
<1>1. Max({1, len - n + 1}) = IF 1 >= len - n + 1 THEN 1 ELSE len - n + 1
  BY MaxOfTwo
<1>2. Max({1, len - n + 1}) = len - q + 1
  <2>1. CASE len < n
    <3>1. Max({1, len - n + 1}) = 1
      BY <1>1, <2>1
    <3> QED
      BY <2>1, <3>1
  <2>2. CASE ~(len < n)
    <3>1. Max({1, len - n + 1}) = len - n + 1
      BY <1>1, <2>2
    <3> QED
      BY <2>2, <3>1
  <2> QED
    BY <2>1, <2>2
<1> QED
  BY <1>2 DEF StartsAt

WindowAt(p, n, len) == SubSeq(p, Max({1, len - n + 1}), len)

HoldsLast(w, p, len, q) ==
    /\ w \in Seq(Nat) /\ Len(w) = q
    /\ \A i \in 1 .. q : w[i] = p[len - q + i]

LEMMA LastPushesAre ==
    ASSUME NEW p \in Seq(Nat), NEW n \in Nat, NEW len, len = Len(p),
           NEW q \in Nat, len < n => q = len, ~(len < n) => q = n
    PROVE  HoldsLast(WindowAt(p, n, len), p, len, q)
<1> DEFINE from == Max({1, len - n + 1})
<1>1. len \in Nat
  OBVIOUS
<1>2. StartsAt(from, len, q)
  BY <1>1, WindowStart, Zenon
<1> HIDE DEF from
<1> USE DEF StartsAt
<1> DEFINE w == SubSeq(p, from, len)
<1>5. w = [i \in 1 .. q |-> p[from + i - 1]]
  BY <1>1, <1>2
<1>6. \A i \in 1 .. q : p[from + i - 1] \in Nat
  BY <1>1, <1>2
<1>7. w \in Seq(Nat) /\ Len(w) = q
  <2> HIDE DEF w
  <2> QED
    BY <1>5, <1>6
<1>8. \A i \in 1 .. q : w[i] = p[len - q + i]
  <2> HIDE DEF w
  <2> QED
    BY <1>2, <1>5
<1> QED
  BY <1>7, <1>8 DEF from, WindowAt, HoldsLast

WindowOf(p, n) == WindowAt(p, n, Len(p))

LEMMA WindowIs ==
    ASSUME NEW p \in Seq(Nat), NEW n \in Nat, NEW q \in Nat,
           Len(p) < n => q = Len(p), ~(Len(p) < n) => q = n
    PROVE  HoldsLast(WindowOf(p, n), p, Len(p), q)
<1> DEFINE len == Len(p)
<1>1. len = Len(p) /\ (len < n => q = len) /\ (~(len < n) => q = n)
  OBVIOUS
<1> HIDE DEF len
<1>2. HoldsLast(WindowAt(p, n, len), p, len, q)
  BY <1>1, LastPushesAre, Zenon
<1> QED
  BY <1>1, <1>2 DEF WindowOf

LEMMA SameSequence ==
    ASSUME NEW a \in Seq(Nat), NEW b \in Seq(Nat), Len(a) = Len(b),
           \A i \in 1 .. Len(a) : a[i] = b[i]
    PROVE  a = b
BY SeqEqual, Zenon

\* A window that is not full grows by a push, a full one also loses its first.
LEMMA WindowGrows ==
    ASSUME NEW p \in Seq(Nat), NEW n \in Nat, Len(p) < n, NEW x \in Nat
    PROVE  WindowOf(Append(p, x), n) = Append(WindowOf(p, n), x)
<1> DEFINE m == Append(p, x)
           w == WindowOf(p, n)
           v == WindowOf(m, n)
           u == Append(w, x)
<1>1. /\ m \in Seq(Nat) /\ Len(p) \in Nat /\ Len(m) = Len(p) + 1
      /\ m[Len(p) + 1] = x /\ \A i \in 1 .. Len(p) : m[i] = p[i]
  OBVIOUS
<1>2. w \in Seq(Nat) /\ Len(w) = Len(p) /\ \A i \in 1 .. Len(p) : w[i] = p[Len(p) - Len(p) + i]
  BY <1>1, WindowIs, Zenon DEF HoldsLast
<1>3. /\ u \in Seq(Nat) /\ Len(u) = Len(p) + 1
      /\ u[Len(p) + 1] = x /\ \A i \in 1 .. Len(p) : u[i] = w[i]
  <2> HIDE DEF w
  <2> QED
    BY <1>2
<1>4. /\ v \in Seq(Nat) /\ Len(v) = Len(m) /\ \A i \in 1 .. Len(m) : v[i] = m[Len(m) - Len(m) + i]
  <2>1. (Len(m) < n => Len(m) = Len(m)) /\ (~(Len(m) < n) => Len(m) = n) /\ Len(m) \in Nat
    BY <1>1
  <2> HIDE DEF m
  <2> QED
    BY <1>1, <2>1, WindowIs, Zenon DEF HoldsLast
<1> HIDE DEF m, w, v, u
<1>5. ASSUME NEW i \in 1 .. Len(m) PROVE v[i] = u[i]
  <2>1. v[i] = m[i]
    BY <1>1, <1>4
  <2>2. CASE i = Len(p) + 1
    BY <1>1, <1>3, <2>1, <2>2
  <2>3. CASE i # Len(p) + 1
    <3>1. i \in 1 .. Len(p) /\ Len(p) - Len(p) + i = i
      BY <1>1, <2>3
    <3> QED
      BY <1>1, <1>2, <1>3, <2>1, <3>1
  <2> QED
    BY <2>2, <2>3
<1>6. v = u
  BY <1>1, <1>3, <1>4, <1>5, SameSequence
<1> QED
  BY <1>6 DEF u, v, w, m

LEMMA WindowMoves ==
    ASSUME NEW p \in Seq(Nat), NEW n \in Nat, n > 0, Len(p) >= n, NEW x \in Nat
    PROVE  /\ WindowOf(Append(p, x), n) = Append(Tail(WindowOf(p, n)), x)
           /\ WindowOf(p, n) # << >> /\ WindowOf(p, n) \in Seq(Nat)
<1> DEFINE m == Append(p, x)
           w == WindowOf(p, n)
           v == WindowOf(m, n)
           u == Append(Tail(w), x)
<1>1. /\ m \in Seq(Nat) /\ Len(p) \in Nat /\ Len(m) = Len(p) + 1
      /\ m[Len(p) + 1] = x /\ \A i \in 1 .. Len(p) : m[i] = p[i]
  OBVIOUS
<1>2. w \in Seq(Nat) /\ Len(w) = n /\ \A i \in 1 .. n : w[i] = p[Len(p) - n + i]
  <2>1. ~(Len(p) < n)
    BY <1>1
  <2> QED
    BY <2>1, WindowIs, Zenon DEF HoldsLast
<1>3. /\ Tail(w) \in Seq(Nat) /\ Len(Tail(w)) = n - 1 /\ w # << >>
      /\ \A i \in 1 .. n - 1 : Tail(w)[i] = w[i + 1]
  <2> HIDE DEF w
  <2> QED
    BY <1>2
<1>4. /\ u \in Seq(Nat) /\ Len(u) = n
      /\ u[n] = x /\ \A i \in 1 .. n - 1 : u[i] = w[i + 1]
  <2> HIDE DEF w
  <2> QED
    BY <1>3
<1>5. /\ v \in Seq(Nat) /\ Len(v) = n /\ \A i \in 1 .. n : v[i] = m[Len(m) - n + i]
  <2>1. ~(Len(m) < n)
    BY <1>1
  <2> HIDE DEF m
  <2> QED
    BY <1>1, <2>1, WindowIs, Zenon DEF HoldsLast
<1> HIDE DEF m, w, v, u
<1>6. ASSUME NEW i \in 1 .. n PROVE v[i] = u[i]
  <2>1. v[i] = m[Len(m) - n + i]
    BY <1>5
  <2>2. CASE i = n
    <3>1. Len(m) - n + i = Len(p) + 1
      BY <1>1, <2>2
    <3> QED
      BY <1>1, <1>4, <2>1, <2>2, <3>1
  <2>3. CASE i # n
    <3>1. /\ i \in 1 .. n - 1 /\ i + 1 \in 1 .. n
          /\ Len(m) - n + i = Len(p) - n + (i + 1) /\ Len(m) - n + i \in 1 .. Len(p)
      <4>1. \A l, k \in Nat : l >= n /\ k = l + 1 =>
                /\ i \in 1 .. n - 1 /\ i + 1 \in 1 .. n
                /\ k - n + i = l - n + (i + 1) /\ k - n + i \in 1 .. l
        BY <2>3
      <4>2. Len(m) \in Nat /\ Len(p) >= n
        BY <1>1
      <4> QED
        BY <1>1, <4>1, <4>2, Zenon
    <3>2. u[i] = w[i + 1] /\ w[i + 1] = p[Len(p) - n + (i + 1)]
      BY <1>2, <1>4, <3>1
    <3> QED
      BY <1>1, <2>1, <3>1, <3>2
  <2> QED
    BY <2>2, <2>3
<1>7. v = u
  BY <1>4, <1>5, <1>6, SameSequence
<1> QED
  BY <1>2, <1>3, <1>7 DEF u, v, w, m

LEMMA LastPushesOf == LastPushes = WindowOf(pushes, maxsize)
BY DEF LastPushes, WindowOf, WindowAt

LEMMA EmptyWindow ==
    ASSUME NEW p, p = << >>, NEW n \in Nat
    PROVE  WindowOf(p, n) \in Seq(Nat) /\ Len(WindowOf(p, n)) = 0 /\ Total(WindowOf(p, n)) = 0
<1>1. p \in Seq(Nat) /\ Len(p) = 0
  OBVIOUS
<1>2. HoldsLast(WindowOf(p, n), p, Len(p), 0)
  <2>1. (Len(p) < n => 0 = Len(p)) /\ (~(Len(p) < n) => 0 = n)
    BY <1>1
  <2>2. 0 \in Nat
    OBVIOUS
  <2> QED
    BY <1>1, <2>1, <2>2, WindowIs, Zenon
<1>3. WindowOf(p, n) \in Seq(Nat) /\ Len(WindowOf(p, n)) = 0
  BY <1>2 DEF HoldsLast
<1>4. PICK f : IsSum(f, WindowOf(p, n)) /\ Total(WindowOf(p, n)) = f[Len(WindowOf(p, n))]
  BY <1>3, TotalIsSum
<1> QED
  BY <1>3, <1>4 DEF IsSum

LEMMA InitialWindow ==
    ASSUME WindowAssumption, WindowInit
    PROVE  WindowIInv
<1>1. /\ pushes = << >> /\ maxsize = 0 /\ queuesize = 0 /\ firstPlace = 0 /\ lastPlace = 0
      /\ sumofqueue = 0
  BY DEF WindowInit
<1>2. << >> \in Seq(Nat) /\ Len(<< >>) = 0 /\ << >> \in Seq(WindowValues)
  OBVIOUS
<1>4. Total(LastPushes) = 0
  BY <1>1, EmptyWindow, LastPushesOf
<1>5. elems \in [0 .. maxsize - 1 -> WindowValues \cup {0}]
  BY <1>1 DEF WindowInit
<1> QED
  BY <1>1, <1>2, <1>4, <1>5 DEF WindowIInv, WindowHolds, WindowSums

LEMMA InitSizeStep ==
    ASSUME WindowAssumption, WindowIInv, NEW n \in WindowSizes, InitSize(n)
    PROVE  WindowIInv'
<1>1. /\ maxsize' = n /\ pushes' = pushes /\ pushes = << >> /\ sumofqueue' = sumofqueue
      /\ firstPlace' = 0 /\ lastPlace' = 0 /\ queuesize' = 0
      /\ elems' = [i \in 0 .. n - 1 |-> 0]
      /\ n \in Nat /\ n > 0
  BY DEF InitSize, WindowIInv, WindowHolds, WindowAssumption
<1>2. sumofqueue = 0 /\ Total(LastPushes)' = 0
  <2>1. maxsize = 0
    BY DEF InitSize
  <2> QED
    BY <1>1, <2>1, EmptyWindow, LastPushesOf DEF WindowIInv, WindowSums, LastPushes, WindowOf, WindowAt
<1>3. WindowSums'
  BY <1>1, <1>2 DEF WindowSums
<1>4. WindowHolds'
  BY <1>1 DEF WindowHolds, WindowIInv
<1> QED
  BY <1>3, <1>4 DEF WindowIInv

LEMMA FastClearStep ==
    ASSUME WindowAssumption, WindowIInv, FastClear
    PROVE  WindowIInv'
<1>1. /\ maxsize' = maxsize /\ pushes' = << >> /\ sumofqueue' = 0
      /\ firstPlace' = 0 /\ lastPlace' = 0 /\ queuesize' = 0
      /\ elems' = elems
  BY DEF FastClear
<1>2. maxsize \in Nat
  BY WindowNumbers DEF WindowIInv
<1>3. Total(LastPushes)' = 0
  BY <1>1, <1>2, EmptyWindow DEF LastPushes, WindowOf, WindowAt
<1>4. WindowSums'
  BY <1>1, <1>3 DEF WindowSums
<1>5. WindowHolds'
  BY <1>1, <1>2 DEF WindowHolds, WindowIInv
<1> QED
  BY <1>4, <1>5 DEF WindowIInv

LEMMA PushStep ==
    ASSUME WindowAssumption, WindowIInv, NEW x \in WindowValues, Push(x)
    PROVE  WindowIInv'
<1> DEFINE n == maxsize
           q == queuesize
           L == Len(pushes)
           w == LastPushes
<1>1. /\ pushes \in Seq(Nat) /\ L \in Nat /\ n \in Nat /\ n > 0 /\ x \in Nat /\ q \in Nat
      /\ q <= n /\ (L < n => q = L) /\ (~(L < n) => q = n)
      /\ (q = n => ~(L < n))
  <2>1. pushes \in Seq(Nat) /\ L \in Nat /\ n \in Nat
    BY WindowNumbers DEF WindowIInv
  <2>2. q = IF L < n THEN L ELSE n
    BY DEF WindowIInv, WindowHolds
  <2>3. n > 0 /\ x \in Nat
    BY DEF Push, WindowAssumption
  <2> QED
    BY <2>1, <2>2, <2>3
<1>2. /\ n' = n /\ pushes' = Append(pushes, x) /\ sumofqueue' = SumWith(x)
      /\ elems' = [elems EXCEPT ![firstPlace] = x]
      /\ firstPlace' = (IF firstPlace + 1 = n THEN 0 ELSE firstPlace + 1)
      /\ q' = IF q = n THEN q ELSE q + 1
      /\ firstPlace \in 0 .. n - 1
      /\ elems \in [0 .. n - 1 -> WindowValues \cup {0}]
      /\ sumofqueue = Total(w)
      /\ lastPlace' = IF firstPlace' = 0 THEN 0
                      ELSE IF q = n THEN PlaceAfter(lastPlace) ELSE lastPlace
  BY <1>1 DEF Push, PlaceAfter, WindowIInv, WindowHolds, WindowSums
<1>3. w = WindowOf(pushes, n) /\ w' = WindowOf(pushes', n)
  BY <1>2 DEF LastPushes, WindowOf, WindowAt
<1>4. w \in Seq(Nat) /\ Len(w) = q
  BY <1>1, <1>3, WindowIs DEF HoldsLast
<1>5. /\ Append(pushes, x) \in Seq(Nat) /\ pushes' \in Seq(WindowValues)
      /\ Len(pushes') = L + 1 /\ Len(pushes') \in Nat
  <2>1. pushes \in Seq(WindowValues)
    BY DEF WindowIInv, WindowHolds
  <2> QED
    BY <1>1, <1>2, <2>1
<1>6. /\ firstPlace' \in 0 .. n - 1
      /\ elems' \in [0 .. n - 1 -> WindowValues \cup {0}]
      /\ elems'[firstPlace] = x
      /\ \A k \in 0 .. n - 1 : k # firstPlace => elems'[k] = elems[k]
  BY <1>1, <1>2
<1>7. \A i \in 1 .. q : elems[PlaceOf(lastPlace, i)] = w[i]
  BY DEF WindowIInv, WindowHolds
<1>8. q' = IF L + 1 < n THEN L + 1 ELSE n
  BY <1>1, <1>2
<1> HIDE DEF w, L
<1>9. CASE q = n
  <2>1. w' = Append(Tail(w), x) /\ w # << >>
    <3>1. L >= n
      BY <1>1, <1>9
    <3> QED
      BY <1>1, <1>2, <1>3, <3>1, WindowMoves DEF L
  <2>2. /\ Tail(w) \in Seq(Nat) /\ Len(Tail(w)) = n - 1
        /\ \A i \in 1 .. n - 1 : Tail(w)[i] = w[i + 1]
    BY <1>4, <1>9, <2>1
  <2>3. /\ \A i \in 1 .. n - 1 : w'[i] = w[i + 1]
        /\ w'[n] = x
    BY <1>1, <2>1, <2>2
  <2>4. lastPlace = firstPlace /\ lastPlace' = firstPlace' /\ q' = n
    BY <1>2, <1>9 DEF WindowIInv, WindowHolds, PlaceAfter
  <2>5. ASSUME NEW i \in 1 .. n PROVE elems'[PlaceOf(lastPlace, i)'] = w'[i]
    <3>1. PlaceOf(lastPlace, i)' = IF firstPlace' + i - 1 < n THEN firstPlace' + i - 1
                                   ELSE firstPlace' + i - 1 - n
      BY <1>2, <2>4 DEF PlaceOf
    <3>2. CASE i = n
      <4>1. \A f \in 0 .. n - 1 : \A g : g = (IF f + 1 = n THEN 0 ELSE f + 1) =>
                (IF g + n - 1 < n THEN g + n - 1 ELSE g + n - 1 - n) = f
        BY <1>1
      <4>2. PlaceOf(lastPlace, i)' = firstPlace
        BY <1>2, <3>1, <3>2, <4>1
      <4> QED
        BY <1>6, <2>3, <3>2, <4>2, <1>2
    <3>3. CASE i # n
      <4>1. i \in 1 .. n - 1 /\ i + 1 \in 1 .. n
        BY <1>1, <3>3
      <4>2. PlaceOf(lastPlace, i)' = PlaceOf(lastPlace, i + 1)
        BY <1>1, <1>2, <2>4, <3>1, <4>1 DEF PlaceOf
      <4>3. PlaceOf(lastPlace, i + 1) \in 0 .. n - 1 /\ PlaceOf(lastPlace, i + 1) # firstPlace
        BY <1>1, <1>2, <2>4, <4>1 DEF PlaceOf
      <4>4. elems[PlaceOf(lastPlace, i + 1)] = w[i + 1]
        BY <1>7, <1>9, <4>1
      <4> QED
        BY <1>6, <2>3, <4>1, <4>2, <4>3, <4>4
    <3> QED
      BY <3>2, <3>3
  <2>6. WindowHolds'
    BY <1>1, <1>2, <1>5, <1>6, <1>8, <2>4, <2>5 DEF WindowHolds, WindowIInv, L, w
  <2>7. WindowSums'
    <3>1. sumofqueue' = sumofqueue - elems[lastPlace] + x
      BY <1>2, <1>9 DEF SumWith
    <3>2. 1 \in 1 .. q /\ PlaceOf(lastPlace, 1) = lastPlace
      BY <1>1, <1>2, <1>9, <2>4 DEF PlaceOf
    <3>3. elems[lastPlace] = w[1]
      BY <1>7, <3>2
    <3>4. Total(w) = w[1] + Total(Tail(w))
      BY <1>4, <2>1, TotalOfTail
    <3>5. Total(w)' = Total(Tail(w)) + x
      BY <1>1, <2>1, <2>2, TotalOfAppend
    <3>6. w[1] \in Nat
      BY <1>4, <3>2
    <3>7. Total(Tail(w)) \in Nat
      <4>1. PICK f : IsSum(f, Tail(w)) /\ Total(Tail(w)) = f[Len(Tail(w))]
        BY <2>2, TotalIsSum
      <4>2. f \in [0 .. Len(Tail(w)) -> Nat]
        BY <4>1 DEF IsSum
      <4>3. Len(Tail(w)) \in Nat
        BY <1>1, <2>2
      <4>4. Len(Tail(w)) \in 0 .. Len(Tail(w))
        BY <4>3
      <4> QED
        BY <4>1, <4>2, <4>4
    <3>8. \A a, b, c \in Nat : (a + b) - a + c = b + c
      OBVIOUS
    <3>9. sumofqueue' = Total(Tail(w)) + x
      BY <1>1, <1>2, <3>1, <3>3, <3>4, <3>6, <3>7, <3>8
    <3> QED
      BY <3>5, <3>9 DEF WindowSums, w
  <2> QED
    BY <2>6, <2>7 DEF WindowIInv
<1>10. CASE q # n
  <2>1. L < n /\ q = L /\ q < n /\ firstPlace = q /\ lastPlace = 0
    BY <1>1, <1>10 DEF WindowIInv, WindowHolds
  <2>2. w' = Append(w, x)
    BY <1>1, <1>2, <1>3, <2>1, WindowGrows DEF L
  <2>3. /\ \A i \in 1 .. q : w'[i] = w[i]
        /\ w'[q + 1] = x
    BY <1>1, <1>4, <2>2
  <2>4. lastPlace' = 0 /\ q' = q + 1
    BY <1>2, <1>10, <2>1
  <2>5. ASSUME NEW i \in 1 .. q + 1 PROVE elems'[PlaceOf(lastPlace, i)'] = w'[i]
    <3>1. PlaceOf(lastPlace, i)' = i - 1 /\ PlaceOf(lastPlace, i) = i - 1 /\ i - 1 \in 0 .. n - 1
      BY <1>1, <1>2, <2>1, <2>4 DEF PlaceOf
    <3>2. CASE i = q + 1
      BY <1>1, <1>6, <2>1, <2>3, <3>1, <3>2
    <3>3. CASE i # q + 1
      <4>1. i \in 1 .. q /\ i - 1 # firstPlace
        BY <1>1, <2>1, <3>3
      <4> QED
        BY <1>6, <1>7, <2>3, <3>1, <4>1
    <3> QED
      BY <3>2, <3>3
  <2>6. (q' < n => firstPlace' = q') /\ (q' = n => firstPlace' = 0)
    BY <1>1, <1>2, <2>1, <2>4
  <2>7. WindowHolds'
    BY <1>1, <1>2, <1>5, <1>6, <1>8, <2>4, <2>5, <2>6 DEF WindowHolds, WindowIInv, L, w
  <2>8. WindowSums'
    BY <1>1, <1>2, <1>4, <1>10, <2>2, TotalOfAppend DEF WindowSums, w, SumWith
  <2> QED
    BY <2>7, <2>8 DEF WindowIInv
<1> QED
  BY <1>9, <1>10

LEMMA WindowInvariance ==
    ASSUME WindowAssumption
    PROVE  WindowSpec => []WindowIInv
<1>1. WindowInit => WindowIInv
  BY InitialWindow
<1>2. WindowIInv /\ [WindowNext]_windowVars => WindowIInv'
  <2> SUFFICES ASSUME WindowIInv, [WindowNext]_windowVars PROVE WindowIInv'
    OBVIOUS
  <2>1. CASE UNCHANGED windowVars
    BY <2>1 DEF windowVars, WindowIInv, WindowHolds, WindowSums, LastPushes, PlaceOf
  <2>2. ASSUME NEW n \in WindowSizes, InitSize(n) PROVE WindowIInv'
    BY <2>2, InitSizeStep
  <2>3. ASSUME NEW x \in WindowValues, Push(x) PROVE WindowIInv'
    BY <2>3, PushStep
  <2>4. CASE FastClear
    BY <2>4, FastClearStep
  <2> QED
    BY <2>1, <2>2, <2>3, <2>4, Zenon DEF WindowNext
<1> QED
  BY <1>1, <1>2, PTL DEF WindowSpec

LEMMA MinOfTwo ==
    ASSUME NEW a \in Int, NEW b \in Int
    PROVE  Min({a, b}) = IF a <= b THEN a ELSE b
<1>1. \A x \in {a, b} : (\A y \in {a, b} : x <= y) <=> x = (IF a <= b THEN a ELSE b)
  OBVIOUS
<1> QED
  BY <1>1 DEF Min

\* What Min and Max choose from the elements of a sequence.
LEMMA LeastAndGreatest ==
    ASSUME NEW w \in Seq(Nat), w # << >>
    PROVE  \A i \in 1 .. Len(w) :
              Min(ToSet(w)) <= w[i] /\ w[i] <= Max(ToSet(w))
              /\ Min(ToSet(w)) \in Nat /\ Max(ToSet(w)) \in Nat
<1> DEFINE T == ToSet(w)
           N == Len(w)
           Good == {k \in 0 .. N : k = 0 \/ \E j \in 1 .. k : \A i \in 1 .. k : w[i] <= w[j]}
<1>1. N \in Nat /\ N > 0 /\ \A i \in 1 .. N : w[i] \in Nat
  OBVIOUS
<1>2. T = {w[i] : i \in 1 .. N}
  BY DEF ToSet
<1>3. T \subseteq Nat /\ T # {} /\ \A i \in 1 .. N : w[i] \in T
  BY <1>1, <1>2
<1> HIDE DEF T, N
<1>4. 0 \in Good
  BY <1>1
<1>5. ASSUME NEW k \in 0 .. N, k # N, k \in Good PROVE k + 1 \in Good
  <2>1. k + 1 \in 0 .. N /\ k + 1 \in 1 .. N /\ k + 1 \in 1 .. k + 1 /\ k \in Nat
    BY <1>1, <1>5
  <2>2. CASE k = 0
    <3>1. \A i \in 1 .. k + 1 : w[i] <= w[k + 1]
      BY <1>1, <2>1, <2>2
    <3> QED
      BY <2>1, <3>1
  <2>3. CASE k # 0
    <3>1. PICK j \in 1 .. k : \A i \in 1 .. k : w[i] <= w[j]
      BY <1>5, <2>3
    <3>2. j \in 1 .. N /\ j \in 1 .. k + 1 /\ \A i \in 1 .. k + 1 : i \in 1 .. N
      BY <1>1, <2>1
    <3>3. \A i \in 1 .. k + 1 : i \in 1 .. k \/ i = k + 1
      BY <2>1
    <3>4. w[j] \in Nat /\ w[k + 1] \in Nat
      BY <1>1, <2>1, <3>2
    <3>5. CASE w[k + 1] <= w[j]
      <4>1. \A i \in 1 .. k + 1 : w[i] <= w[j]
        BY <3>1, <3>3, <3>5
      <4> QED
        BY <2>1, <3>2, <4>1
    <3>6. CASE ~(w[k + 1] <= w[j])
      <4>1. ASSUME NEW i \in 1 .. k + 1 PROVE w[i] <= w[k + 1]
        <5>1. w[i] \in Nat
          BY <1>1, <3>2
        <5>2. i \in 1 .. k => w[i] <= w[j]
          BY <3>1
        <5>3. w[j] <= w[k + 1] /\ w[k + 1] <= w[k + 1]
          <6>1. \A a, b \in Nat : b <= b /\ (~(b <= a) => a <= b)
            OBVIOUS
          <6> QED
            BY <3>4, <3>6, <6>1, Zenon
        <5>4. \A a, b, c \in Nat : a <= b /\ b <= c => a <= c
          OBVIOUS
        <5>5. CASE i \in 1 .. k
          BY <3>4, <5>1, <5>2, <5>3, <5>4, <5>5, Zenon
        <5>6. CASE i = k + 1
          BY <5>3, <5>6
        <5> QED
          BY <3>3, <5>5, <5>6
      <4> QED
        BY <2>1, <4>1
    <3> QED
      BY <3>5, <3>6
  <2> QED
    BY <2>2, <2>3
<1>6. N \in Good
  <2> HIDE DEF Good
  <2>1. \A k \in 0 .. N : k \in Good
    BY <1>1, <1>4, <1>5, UpTo
  <2> QED
    BY <1>1, <2>1
<1>7. \E x \in T : \A y \in T : x >= y
  <2>1. PICK j \in 1 .. N : \A i \in 1 .. N : w[i] <= w[j]
    BY <1>1, <1>6
  <2>2. w[j] \in T /\ \A y \in T : w[j] >= y
    BY <1>1, <1>2, <2>1
  <2> QED
    BY <2>2
<1>8. \E x \in T : \A y \in T : x <= y
  BY <1>3, LeastElement
<1>9. Min(T) \in T /\ \A y \in T : Min(T) <= y
  BY <1>8 DEF Min
<1>10. Max(T) \in T /\ \A y \in T : Max(T) >= y
  BY <1>7 DEF Max
<1>11. ASSUME NEW i \in 1 .. N
      PROVE  Min(T) <= w[i] /\ w[i] <= Max(T) /\ Min(T) \in Nat /\ Max(T) \in Nat
  BY <1>1, <1>3, <1>9, <1>10
<1> QED
  BY <1>11 DEF T, N

LEMMA AverageIsBetween ==
    ASSUME NEW a \in Nat, NEW lo \in Nat, NEW hi \in Nat, NEW n \in Nat, n > 0,
           lo * n <= a, a <= hi * n
    PROVE  a \div n \in lo .. hi
<1> DEFINE d == a \div n
<1>1. d \in Nat /\ n * d <= a /\ a < n * (d + 1)
  OBVIOUS
<1> HIDE DEF d
<1>2. lo * n < n * (d + 1)
  BY <1>1
<1>3. n * d <= hi * n
  BY <1>1
<1>4. lo < d + 1
  <2>1. CASE lo >= d + 1
    BY <1>1, <1>2, <2>1
  <2> QED
    BY <1>1, <2>1
<1>5. d <= hi
  <2>1. CASE d > hi
    BY <1>1, <1>3, <2>1
  <2> QED
    BY <1>1, <2>1
<1> QED
  BY <1>1, <1>4, <1>5 DEF d

\* In every state the window has one of its sizes, no more elements than it has
\* room for, and numbers in its places.
THEOREM WindowTypeCorrect ==
    ASSUME WindowAssumption
    PROVE  WindowSpec => []WindowTypeOK
<1>1. WindowIInv => WindowTypeOK
  BY WindowNumbers DEF WindowIInv, WindowHolds, WindowTypeOK
<1> QED
  BY <1>1, WindowInvariance, PTL

\* The sum from which the restarts are decided is that of the last pushes, and
\* over as many as the window has room for, so that the average of a full window
\* lies between them: for every size of the window and any numbers pushed, over
\* all the times the ring wraps around and is cleared.
THEOREM WindowsSumLastPushes ==
    ASSUME WindowAssumption
    PROVE  WindowSpec => []SumIsOfLastPushes
<1>1. WindowIInv => SumIsOfLastPushes
  <2> SUFFICES ASSUME WindowIInv PROVE SumIsOfLastPushes
    OBVIOUS
  <2>1. /\ pushes \in Seq(Nat) /\ Len(pushes) \in Nat /\ maxsize \in Nat /\ queuesize \in Nat
    BY WindowNumbers DEF WindowIInv
  <2>2. queuesize = IF Len(pushes) < maxsize THEN Len(pushes) ELSE maxsize
    BY DEF WindowIInv, WindowHolds
  <2>3. queuesize = Min({Len(pushes), maxsize})
    <3>1. Min({Len(pushes), maxsize}) = IF Len(pushes) <= maxsize THEN Len(pushes) ELSE maxsize
      BY <2>1, MinOfTwo
    <3> QED
      BY <2>1, <2>2, <3>1
  <2>4. LastPushes \in Seq(Nat) /\ Len(LastPushes) = queuesize
    <3>1. (Len(pushes) < maxsize => queuesize = Len(pushes))
          /\ (~(Len(pushes) < maxsize) => queuesize = maxsize)
      BY <2>2
    <3>2. HoldsLast(WindowOf(pushes, maxsize), pushes, Len(pushes), queuesize)
      BY <2>1, <3>1, WindowIs, Zenon
    <3> QED
      BY <3>2, LastPushesOf DEF HoldsLast
  <2>5. ASSUME queuesize = maxsize, maxsize > 0
        PROVE  Getavg \in Min(ToSet(LastPushes)) .. Max(ToSet(LastPushes))
    <3> DEFINE w == LastPushes
               lo == Min(ToSet(w))
               hi == Max(ToSet(w))
    <3>1. w # << >> /\ Len(w) > 0
      BY <2>4, <2>5
    <3> HIDE DEF w
    <3>2. \A i \in 1 .. Len(w) : lo <= w[i] /\ w[i] <= hi /\ lo \in Nat /\ hi \in Nat
      BY <2>4, <3>1, LeastAndGreatest DEF w
    <3>3. lo \in Nat /\ hi \in Nat
      <4>1. 1 \in 1 .. Len(w)
        BY <2>4, <3>1 DEF w
      <4> QED
        BY <3>2, <4>1
    <3> HIDE DEF lo, hi
    <3>4. /\ Total(w) \in Nat
          /\ lo * Len(w) <= Total(w) /\ Total(w) <= hi * Len(w)
      BY <2>4, <3>2, <3>3, TotalIsBetween DEF w
    <3>5. Total(w) \div queuesize \in lo .. hi
      BY <2>1, <2>4, <2>5, <3>3, <3>4, AverageIsBetween DEF w
    <3>6. sumofqueue = Total(w)
      BY DEF WindowIInv, WindowSums, w
    <3> QED
      BY <3>5, <3>6 DEF Getavg, lo, hi, w
  <2>6. sumofqueue = Total(LastPushes)
    BY DEF WindowIInv, WindowSums
  <2> QED
    BY <2>3, <2>5, <2>6 DEF SumIsOfLastPushes
<1> QED
  BY <1>1, WindowInvariance, PTL


-----------------------------------------------------------------------------
\* What a table of c buckets holds: v gives the data of each key, or none.

Pairs == [key : MapKeys, data : MapData]
MapValues == [MapKeys -> MapData \cup {NoData}]
StoredKeys(v) == {k \in MapKeys : v[k] # NoData}

IsBucket(s, b, c, v) ==
    /\ \A i, j \in 1 .. Len(s) : s[i].key = s[j].key => i = j
    /\ \A i \in 1 .. Len(s) : s[i].key % c = b /\ v[s[i].key] = s[i].data
    /\ \A k \in MapKeys : k % c = b /\ v[k] # NoData => \E i \in 1 .. Len(s) : s[i].key = k

IsTable(f, c, v) ==
    /\ c \in Nat /\ (c = 0 => StoredKeys(v) = {})
    /\ f \in [0 .. c - 1 -> Seq(Pairs)]
    /\ v \in MapValues
    /\ \A b \in 0 .. c - 1 : IsBucket(f[b], b, c, v)

IsMap(t, v) ==
    /\ t = [table |-> t.table, cap |-> t.cap, size |-> t.size]
    /\ t.cap \in ToSet(Primes) \cup {0}
    /\ IsTable(t.table, t.cap, v)
    /\ t.size = Cardinality(StoredKeys(v))

NothingStored == [k \in MapKeys |-> NoData]

LEMMA PairFacts ==
    ASSUME NEW s \in Seq(Pairs)
    PROVE  /\ Len(s) \in Nat
           /\ \A i \in 1 .. Len(s) : s[i] \in Pairs /\ s[i].key \in MapKeys /\ s[i].data \in MapData
<1>1. \A i \in 1 .. Len(s) : s[i] \in Pairs
  BY ElementOfSeq, Zenon
<1>2. \A p \in Pairs : p.key \in MapKeys /\ p.data \in MapData
  BY DEF Pairs
<1> QED
  BY <1>1, <1>2

LEMMA EmptyTable ==
    ASSUME MapAssumption, NEW c \in Nat
    PROVE  IsTable(NoPairs(c), c, NothingStored)
<1>1. << >> \in Seq(Pairs) /\ Len(<< >>) = 0
  OBVIOUS
<1>2. NoPairs(c) \in [0 .. c - 1 -> Seq(Pairs)] /\ \A b \in 0 .. c - 1 : NoPairs(c)[b] = << >>
  BY <1>1 DEF NoPairs
<1>3. NothingStored \in MapValues /\ \A k \in MapKeys : NothingStored[k] = NoData
  BY DEF NothingStored, MapValues
<1>4. ASSUME NEW b \in 0 .. c - 1 PROVE IsBucket(NoPairs(c)[b], b, c, NothingStored)
  <2> DEFINE s == NoPairs(c)[b]
  <2>1. Len(s) = 0
    BY <1>1, <1>2
  <2>2. 1 .. Len(s) = {}
    BY <2>1
  <2> HIDE DEF s
  <2>3. IsBucket(s, b, c, NothingStored)
    BY <1>3, <2>2 DEF IsBucket
  <2> QED
    BY <2>3 DEF s
<1> QED
  BY <1>2, <1>3, <1>4 DEF IsTable, StoredKeys

LEMMA StoreKeeps ==
    ASSUME MapAssumption, NEW f, NEW c, NEW v, IsTable(f, c, v), c > 0,
           NEW k \in MapKeys, NEW d \in MapData, v[k] = NoData
    PROVE  IsTable(Stored(f, c, [key |-> k, data |-> d]), c, [v EXCEPT ![k] = d])
<1> DEFINE p == [key |-> k, data |-> d]
           g == Stored(f, c, p)
           u == [v EXCEPT ![k] = d]
           h == k % c
<1>1. /\ c \in Nat /\ f \in [0 .. c - 1 -> Seq(Pairs)] /\ v \in MapValues
      /\ \A b \in 0 .. c - 1 : IsBucket(f[b], b, c, v)
  BY DEF IsTable
<1>2. h \in 0 .. c - 1
  BY <1>1 DEF MapAssumption
<1>3. p \in Pairs /\ p.key = k /\ p.data = d
  BY DEF Pairs
<1>4. g = [f EXCEPT ![h] = Append(@, p)]
  BY <1>3 DEF Stored
<1>5. /\ u \in MapValues /\ u[k] = d
      /\ \A a \in MapKeys : a # k => u[a] = v[a]
  BY <1>1 DEF MapValues
<1>6. d # NoData
  BY DEF MapAssumption
<1> HIDE DEF p, g, u, h
<1>7. /\ g \in [0 .. c - 1 -> Seq(Pairs)] /\ g[h] = Append(f[h], p)
      /\ \A b \in 0 .. c - 1 : b # h => g[b] = f[b]
  BY <1>1, <1>2, <1>3, <1>4
<1>8. ASSUME NEW b \in 0 .. c - 1 PROVE IsBucket(g[b], b, c, u)
  <2> DEFINE s == f[b]
             N == Len(s)
  <2>1. s \in Seq(Pairs) /\ IsBucket(s, b, c, v)
    BY <1>1
  <2>2. /\ N \in Nat
        /\ \A i \in 1 .. N : s[i] \in Pairs /\ s[i].key \in MapKeys /\ s[i].data \in MapData
    BY <2>1, PairFacts
  <2> HIDE DEF s
  <2>3. \A i \in 1 .. N : s[i].key # k
    BY <2>1, <2>2, <1>6 DEF IsBucket, MapAssumption
  <2>4. CASE b # h
    <3>1. g[b] = s
      BY <1>7, <2>4 DEF s
    <3>2. \A a \in MapKeys : a % c = b => a # k
      BY <2>4 DEF h
    <3>3. IsBucket(s, b, c, u)
      BY <1>5, <2>1, <2>2, <2>3, <3>2 DEF IsBucket
    <3> QED
      BY <3>1, <3>3
  <2>5. CASE b = h
    <3> DEFINE t == Append(s, p)
    <3>1. g[b] = t
      BY <1>7, <2>5 DEF s
    <3>2. /\ Len(t) = N + 1 /\ t[N + 1] = p /\ \A i \in 1 .. N : t[i] = s[i]
      BY <1>3, <2>1
    <3> HIDE DEF t, N
    <3>3. \A i \in 1 .. N + 1 : i \in 1 .. N \/ i = N + 1
      BY <2>2
    <3>4. N + 1 \in 1 .. N + 1 /\ \A i \in 1 .. N : i \in 1 .. N + 1
      BY <2>2
    <3>5. ASSUME NEW i \in 1 .. N + 1, NEW j \in 1 .. N + 1, t[i].key = t[j].key PROVE i = j
      <4>1. CASE i \in 1 .. N /\ j \in 1 .. N
        BY <2>1, <3>2, <3>5, <4>1 DEF IsBucket, N
      <4>2. CASE i = N + 1 \/ j = N + 1
        BY <1>3, <2>3, <3>2, <3>3, <3>5, <4>2
      <4> QED
        BY <3>3, <4>1, <4>2
    <3>6. ASSUME NEW i \in 1 .. N + 1 PROVE t[i].key % c = b /\ u[t[i].key] = t[i].data
      <4>1. CASE i \in 1 .. N
        <5>1. s[i].key % c = b /\ v[s[i].key] = s[i].data /\ s[i].key # k /\ s[i].key \in MapKeys
          BY <2>1, <2>2, <2>3, <4>1 DEF IsBucket, N
        <5> QED
          BY <1>5, <3>2, <4>1, <5>1
      <4>2. CASE i = N + 1
        BY <1>3, <1>5, <2>5, <3>2, <4>2 DEF h
      <4> QED
        BY <3>3, <4>1, <4>2
    <3>7. ASSUME NEW a \in MapKeys, a % c = b, u[a] # NoData
          PROVE  \E i \in 1 .. N + 1 : t[i].key = a
      <4>1. CASE a = k
        BY <1>3, <3>2, <3>4, <4>1
      <4>2. CASE a # k
        <5>1. PICK i \in 1 .. N : s[i].key = a
          BY <1>5, <2>1, <3>7, <4>2 DEF IsBucket, N
        <5> QED
          BY <3>2, <3>4, <5>1
      <4> QED
        BY <4>1, <4>2
    <3>8. IsBucket(t, b, c, u)
      BY <3>2, <3>5, <3>6, <3>7, Zenon DEF IsBucket
    <3> QED
      BY <3>1, <3>8
  <2> QED
    BY <2>4, <2>5
<1>9. IsTable(g, c, u)
  BY <1>1, <1>5, <1>7, <1>8 DEF IsTable
<1> QED
  BY <1>9 DEF g, u, p

\* What u holds, and v at the keys of the first j pairs of a bucket.
Merged(u, v, s, j) ==
    [k \in MapKeys |-> IF \E i \in 1 .. j : s[i].key = k THEN v[k] ELSE u[k]]

\* A bucket whose pairs say what v says of their keys, of which u says nothing.
IsFresh(s, u, v) ==
    /\ s \in Seq(Pairs)
    /\ u \in MapValues /\ v \in MapValues
    /\ \A i, j \in 1 .. Len(s) : s[i].key = s[j].key => i = j
    /\ \A i \in 1 .. Len(s) : v[s[i].key] = s[i].data /\ u[s[i].key] = NoData

LEMMA MergedOne ==
    ASSUME MapAssumption, NEW s, NEW u, NEW v, IsFresh(s, u, v),
           NEW j \in Nat, j + 1 \in 1 .. Len(s)
    PROVE  /\ Merged(u, v, s, j)[s[j + 1].key] = NoData
           /\ Merged(u, v, s, j + 1)
                = [Merged(u, v, s, j) EXCEPT ![s[j + 1].key] = s[j + 1].data]
<1> DEFINE k == s[j + 1].key
           w == Merged(u, v, s, j)
           x == Merged(u, v, s, j + 1)
<1>1. /\ Len(s) \in Nat
      /\ \A i \in 1 .. Len(s) : s[i].key \in MapKeys /\ s[i].data \in MapData
  BY PairFacts DEF IsFresh
<1>2. /\ k \in MapKeys /\ v[k] = s[j + 1].data /\ u[k] = NoData
  BY <1>1 DEF IsFresh
<1>3. \A i \in 1 .. j : i \in 1 .. Len(s) /\ i # j + 1
  BY <1>1
<1>4. \A i \in 1 .. j : s[i].key # k
  BY <1>3 DEF IsFresh
<1>5. w[k] = NoData
  BY <1>2, <1>4 DEF Merged
<1>6. j + 1 \in 1 .. j + 1 /\ \A i \in 1 .. j + 1 : i \in 1 .. j \/ i = j + 1
  OBVIOUS
<1>7. ASSUME NEW a \in MapKeys
      PROVE  x[a] = IF a = k THEN s[j + 1].data ELSE w[a]
  <2> HIDE DEF k
  <2>1. (\E i \in 1 .. j + 1 : s[i].key = a) <=> (a = k \/ \E i \in 1 .. j : s[i].key = a)
    BY <1>6 DEF k
  <2> QED
    BY <1>2, <2>1 DEF Merged
<1>8. x = [a \in MapKeys |-> x[a]] /\ w = [a \in MapKeys |-> w[a]]
  BY DEF Merged
<1> HIDE DEF k, w, x
<1>9. x = [w EXCEPT ![k] = s[j + 1].data]
  BY <1>7, <1>8
<1> QED
  BY <1>5, <1>9 DEF k, w, x

LEMMA FilledKeeps ==
    ASSUME MapAssumption, NEW f, NEW c, NEW u, IsTable(f, c, u), c > 0,
           NEW s, NEW v, IsFresh(s, u, v)
    PROVE  IsTable(Filled(f, c, s), c, Merged(u, v, s, Len(s)))
<1> DEFINE N == Len(s)
           S == [0 .. c - 1 -> Seq(Pairs)]
           g == [y \in (1 .. N) \X S |-> Stored(y[2], c, s[y[1]])]
           IsFilling(h) == h = [j \in 0 .. N |->
                                   IF j = 0 THEN f ELSE Stored(h[j - 1], c, s[j])]
           upTo == CHOOSE h : IsFilling(h)
<1>1. /\ N \in Nat /\ s \in Seq(Pairs)
      /\ \A i \in 1 .. N : s[i] \in Pairs /\ s[i].key \in MapKeys /\ s[i].data \in MapData
  BY PairFacts DEF IsFresh
<1>2. f \in S /\ c \in Nat
  BY DEF IsTable
<1>3. ASSUME NEW t \in S, NEW p \in Pairs PROVE Stored(t, c, p) \in S
  <2>1. p.key % c \in 0 .. c - 1
    <3>1. p.key \in Nat
      BY DEF Pairs, MapAssumption
    <3> QED
      BY <1>2, <3>1
  <2>2. Append(t[p.key % c], p) \in Seq(Pairs)
    BY <2>1
  <2> QED
    BY <2>1, <2>2 DEF Stored
<1> HIDE DEF S, N
<1>4. g \in [(1 .. N) \X S -> S]
  <2>1. \A y \in (1 .. N) \X S : y[2] \in S /\ s[y[1]] \in Pairs
    BY <1>1
  <2> QED
    BY <1>3, <2>1
<1>5. \A k \in 1 .. N, t \in S : g[<<k, t>>] = Stored(t, c, s[k])
  OBVIOUS
<1> HIDE DEF g
<1>6. PICK h \in [0 .. N -> S] : IsRecursion(h, N, f, g)
  BY <1>1, <1>2, <1>4, Recursion, Zenon
<1>7. \A k \in 1 .. N : k - 1 \in 0 .. N /\ h[k - 1] \in S
  BY <1>1
<1>8. IsFilling(h)
  <2>1. h = [k \in 0 .. N |-> IF k = 0 THEN f ELSE g[<<k, h[k - 1]>>]]
    BY <1>6 DEF IsRecursion
  <2>2. \A k \in 0 .. N : h[k] = IF k = 0 THEN f ELSE Stored(h[k - 1], c, s[k])
    BY <1>1, <1>5, <1>7, <2>1
  <2>3. h = [k \in 0 .. N |-> h[k]]
    OBVIOUS
  <2> QED
    BY <2>2, <2>3
<1>9. IsFilling(upTo)
  <2> HIDE DEF IsFilling
  <2> QED
    BY <1>8, Zenon
<1>10. Filled(f, c, s) = upTo[N]
  BY DEF Filled, N
<1> HIDE DEF upTo
<1>11. \A k \in 0 .. N : upTo[k] = IF k = 0 THEN f ELSE Stored(upTo[k - 1], c, s[k])
  BY <1>9
<1> DEFINE Good == {j \in 0 .. N : IsTable(upTo[j], c, Merged(u, v, s, j))}
<1>12. 0 \in Good
  <2>1. 0 \in 0 .. N /\ upTo[0] = f
    BY <1>1, <1>11
  <2>2. Merged(u, v, s, 0) = u
    <3>1. u = [k \in MapKeys |-> u[k]]
      BY DEF IsTable, MapValues
    <3>2. 1 .. 0 = {}
      OBVIOUS
    <3> QED
      BY <3>1, <3>2 DEF Merged
  <2> QED
    BY <2>1, <2>2
<1>13. ASSUME NEW j \in 0 .. N, j # N, j \in Good PROVE j + 1 \in Good
  <2>1. j + 1 \in 0 .. N /\ j + 1 \in 1 .. N /\ (j + 1) - 1 = j /\ j \in Nat /\ j + 1 # 0
    BY <1>1, <1>13
  <2>2. upTo[j + 1] = Stored(upTo[j], c, s[j + 1])
    BY <1>11, <2>1
  <2>3. s[j + 1] = [key |-> s[j + 1].key, data |-> s[j + 1].data]
    BY <1>1, <2>1 DEF Pairs
  <2>4. IsTable(upTo[j], c, Merged(u, v, s, j))
    BY <1>13
  <2>5. s[j + 1].key \in MapKeys /\ s[j + 1].data \in MapData
    BY <1>1, <2>1
  <2>6. /\ Merged(u, v, s, j)[s[j + 1].key] = NoData
        /\ Merged(u, v, s, j + 1)
             = [Merged(u, v, s, j) EXCEPT ![s[j + 1].key] = s[j + 1].data]
    BY <2>1, MergedOne DEF N
  <2> DEFINE k == s[j + 1].key
             d == s[j + 1].data
             w == Merged(u, v, s, j)
  <2> HIDE DEF k, d, w, Good
  <2>7. IsTable(Stored(upTo[j], c, [key |-> k, data |-> d]), c, [w EXCEPT ![k] = d])
    BY <2>4, <2>5, <2>6, StoreKeeps, Zenon DEF k, d, w
  <2>8. IsTable(upTo[j + 1], c, Merged(u, v, s, j + 1))
    BY <2>2, <2>3, <2>6, <2>7 DEF k, d, w
  <2> QED
    BY <2>1, <2>8 DEF Good
<1>14. N \in Good
  <2> HIDE DEF Good
  <2>1. \A j \in 0 .. N : j \in Good
    BY <1>1, <1>12, <1>13, UpTo
  <2> QED
    BY <1>1, <2>1
<1> QED
  BY <1>10, <1>14 DEF N

\* What v says of the keys in the first i of c buckets.
Taken(v, c, i) == [k \in MapKeys |-> IF k % c < i THEN v[k] ELSE NoData]

LEMMA TakenOne ==
    ASSUME MapAssumption, NEW f, NEW c, NEW v, IsTable(f, c, v), NEW i \in 0 .. c - 1
    PROVE  /\ IsFresh(f[i], Taken(v, c, i), v)
           /\ Merged(Taken(v, c, i), v, f[i], Len(f[i])) = Taken(v, c, i + 1)
<1> DEFINE s == f[i]
           N == Len(s)
           u == Taken(v, c, i)
<1>1. /\ c \in Nat /\ s \in Seq(Pairs) /\ v \in MapValues /\ IsBucket(s, i, c, v)
  BY DEF IsTable
<1>2. \A k \in MapKeys : k % c \in 0 .. c - 1
  <2>1. \A k \in MapKeys : k \in Nat
    BY DEF MapAssumption
  <2> QED
    BY <1>1, <2>1
<1>3. u \in MapValues /\ \A k \in MapKeys : u[k] = IF k % c < i THEN v[k] ELSE NoData
  BY <1>1 DEF Taken, MapValues
<1> HIDE DEF s, u
<1>4. \A j \in 1 .. N : s[j].key \in MapKeys
  BY <1>1, PairFacts
<1>5. \A j \in 1 .. N : s[j].key % c = i /\ v[s[j].key] = s[j].data
  BY <1>1 DEF IsBucket
<1>6. ASSUME NEW j \in 1 .. N PROVE u[s[j].key] = NoData
  <2>1. ~(i < i)
    OBVIOUS
  <2> QED
    BY <1>3, <1>4, <1>5, <2>1
<1>7. IsFresh(s, u, v)
  BY <1>1, <1>3, <1>5, <1>6 DEF IsFresh, IsBucket
<1>8. ASSUME NEW k \in MapKeys
      PROVE  (IF \E j \in 1 .. N : s[j].key = k THEN v[k] ELSE u[k])
                = IF k % c < i + 1 THEN v[k] ELSE NoData
  <2>1. CASE \E j \in 1 .. N : s[j].key = k
    <3>1. k % c = i
      BY <1>5, <2>1
    <3> QED
      BY <2>1, <3>1
  <2>2. CASE ~\E j \in 1 .. N : s[j].key = k
    <3>1. k % c = i => v[k] = NoData
      BY <1>1, <2>2 DEF IsBucket
    <3>2. k % c \in Nat /\ (k % c < i + 1 <=> k % c < i \/ k % c = i)
      BY <1>2
    <3> QED
      BY <1>3, <2>2, <3>1, <3>2
  <2> QED
    BY <2>1, <2>2
<1>9. Merged(u, v, s, N) = Taken(v, c, i + 1)
  BY <1>8 DEF Merged, Taken
<1> QED
  BY <1>7, <1>9 DEF s, u

LEMMA RefilledKeeps ==
    ASSUME MapAssumption, NEW t, NEW v, IsTable(t.table, t.cap, v),
           NEW c \in Nat, c > 0
    PROVE  IsTable(Refilled(t, c), c, v)
<1> DEFINE N == t.cap
           S == [0 .. c - 1 -> Seq(Pairs)]
           Good(i, f) == IsTable(f, c, Taken(v, N, i))
           g == [y \in (1 .. N) \X S |->
                   IF Good(y[1] - 1, y[2]) THEN Filled(y[2], c, t.table[y[1] - 1]) ELSE NoPairs(c)]
           IsRefilling(h) == h = [i \in 0 .. N |->
                   IF i = 0 THEN NoPairs(c) ELSE Filled(h[i - 1], c, t.table[i - 1])]
           upTo == CHOOSE h : IsRefilling(h)
<1>1. N \in Nat /\ v \in MapValues /\ (N = 0 => StoredKeys(v) = {})
  BY DEF IsTable
<1>2. IsTable(NoPairs(c), c, NothingStored)
  BY EmptyTable
<1>3. Good(0, NoPairs(c))
  <2>1. ASSUME NEW k \in MapKeys, N > 0 PROVE ~(k % N < 0)
    <3>1. k \in Nat
      BY DEF MapAssumption
    <3> QED
      BY <1>1, <2>1, <3>1
  <2>2. ASSUME NEW k \in MapKeys, N = 0 PROVE v[k] = NoData
    BY <1>1, <2>2 DEF StoredKeys
  <2>3. Taken(v, N, 0) = NothingStored
    BY <1>1, <2>1, <2>2 DEF Taken, NothingStored
  <2> QED
    BY <1>2, <2>3
<1>4. ASSUME NEW i \in 0 .. N - 1, NEW f, Good(i, f)
      PROVE  Good(i + 1, Filled(f, c, t.table[i]))
  <2> DEFINE s == t.table[i]
  <2>1. /\ IsFresh(s, Taken(v, N, i), v)
        /\ Merged(Taken(v, N, i), v, s, Len(s)) = Taken(v, N, i + 1)
    BY TakenOne
  <2> HIDE DEF s
  <2>2. IsTable(Filled(f, c, s), c, Merged(Taken(v, N, i), v, s, Len(s)))
    BY <1>4, <2>1, FilledKeeps
  <2> QED
    BY <2>1, <2>2 DEF s
<1>5. \A i, f : Good(i, f) => f \in S
  BY DEF IsTable
<1>6. NoPairs(c) \in S
  BY <1>2 DEF IsTable
<1> HIDE DEF S, Good
<1>7. g \in [(1 .. N) \X S -> S]
  <2>1. ASSUME NEW y \in (1 .. N) \X S, Good(y[1] - 1, y[2])
        PROVE  Filled(y[2], c, t.table[y[1] - 1]) \in S
    <3>1. y[1] - 1 \in 0 .. N - 1
      BY <1>1
    <3> QED
      BY <1>4, <1>5, <2>1, <3>1, Zenon
  <2> QED
    BY <1>6, <2>1
<1>8. \A i \in 1 .. N, f \in S :
          Good(i - 1, f) => g[<<i, f>>] = Filled(f, c, t.table[i - 1])
  OBVIOUS
<1> HIDE DEF g
<1>9. PICK h \in [0 .. N -> S] : IsRecursion(h, N, NoPairs(c), g)
  BY <1>1, <1>6, <1>7, Recursion, Zenon
<1>10. \A i \in 0 .. N : h[i] = IF i = 0 THEN NoPairs(c) ELSE g[<<i, h[i - 1]>>]
  BY <1>9 DEF IsRecursion
<1>11. \A i \in 0 .. N : Good(i, h[i])
  <2> DEFINE Reached == {i \in 0 .. N : Good(i, h[i])}
  <2>1. 0 \in Reached
    <3>1. 0 \in 0 .. N
      BY <1>1
    <3>2. h[0] = NoPairs(c)
      BY <1>10, <3>1, Zenon
    <3> QED
      BY <1>3, <3>1, <3>2
  <2>2. ASSUME NEW i \in 0 .. N, i # N, i \in Reached PROVE i + 1 \in Reached
    <3>1. i + 1 \in 1 .. N /\ i + 1 \in 0 .. N /\ (i + 1) - 1 = i /\ i \in 0 .. N - 1 /\ i + 1 # 0
      BY <1>1, <2>2
    <3>2. h[i + 1] = g[<<i + 1, h[i]>>] /\ Good(i, h[i]) /\ h[i] \in S
      BY <1>10, <2>2, <3>1
    <3>3. h[i + 1] = Filled(h[i], c, t.table[i])
      BY <1>8, <3>1, <3>2
    <3> QED
      BY <1>4, <3>1, <3>2, <3>3
  <2> HIDE DEF Reached
  <2>3. \A i \in 0 .. N : i \in Reached
    BY <1>1, <2>1, <2>2, UpTo
  <2> QED
    BY <2>3 DEF Reached
<1>12. IsRefilling(h)
  <2>1. ASSUME NEW i \in 0 .. N, i # 0 PROVE h[i] = Filled(h[i - 1], c, t.table[i - 1])
    <3>1. i \in 1 .. N /\ i - 1 \in 0 .. N
      BY <1>1, <2>1
    <3> QED
      BY <1>8, <1>10, <1>11, <2>1, <3>1
  <2>2. h = [i \in 0 .. N |-> h[i]]
    OBVIOUS
  <2> QED
    BY <1>10, <2>1, <2>2
<1>13. IsRefilling(upTo)
  <2> HIDE DEF IsRefilling
  <2> QED
    BY <1>12, Zenon
<1>14. Refilled(t, c) = upTo[N]
  BY DEF Refilled
<1> HIDE DEF upTo
<1>15. \A i \in 0 .. N : upTo[i] = IF i = 0 THEN NoPairs(c)
                                   ELSE Filled(upTo[i - 1], c, t.table[i - 1])
  BY <1>13
<1>16. Good(N, upTo[N])
  <2> DEFINE Reached == {i \in 0 .. N : Good(i, upTo[i])}
  <2>1. 0 \in Reached
    BY <1>1, <1>3, <1>15
  <2>2. ASSUME NEW i \in 0 .. N, i # N, i \in Reached PROVE i + 1 \in Reached
    <3>1. i + 1 \in 0 .. N /\ (i + 1) - 1 = i /\ i \in 0 .. N - 1 /\ i + 1 # 0
      BY <1>1, <2>2
    <3>2. upTo[i + 1] = Filled(upTo[i], c, t.table[i]) /\ Good(i, upTo[i])
      BY <1>15, <2>2, <3>1
    <3> QED
      BY <1>4, <3>1, <3>2
  <2> HIDE DEF Reached
  <2>3. \A i \in 0 .. N : i \in Reached
    BY <1>1, <2>1, <2>2, UpTo
  <2>4. N \in Reached
    BY <1>1, <2>3
  <2> QED
    BY <2>4 DEF Reached
<1>17. Taken(v, N, N) = v
  <2>1. ASSUME NEW k \in MapKeys PROVE (IF k % N < N THEN v[k] ELSE NoData) = v[k]
    <3>1. k \in Nat
      BY DEF MapAssumption
    <3>2. CASE N = 0
      <4>1. v[k] = NoData
        BY <1>1, <3>2 DEF StoredKeys
      <4> QED
        BY <4>1
    <3>3. CASE N # 0
      BY <1>1, <3>1, <3>3
    <3> QED
      BY <3>2, <3>3
  <2>2. v = [k \in MapKeys |-> v[k]]
    BY <1>1 DEF MapValues
  <2> QED
    BY <2>1, <2>2 DEF Taken
<1> QED
  BY <1>14, <1>16, <1>17 DEF Good

LEMMA MatchesAre ==
    ASSUME MapAssumption, NEW f, NEW c, NEW v, IsTable(f, c, v), c > 0,
           NEW k \in MapKeys, NEW s, s = f[k % c], NEW M, M = {j \in DOMAIN s : s[j].key = k}
    PROVE  /\ v[k] = NoData => M = {}
           /\ v[k] # NoData => \E j \in 1 .. Len(s) : M = {j} /\ s[j].data = v[k]
           /\ k % c \in 0 .. c - 1 /\ s \in Seq(Pairs) /\ IsBucket(s, k % c, c, v)
<1>1. k % c \in 0 .. c - 1
  <2>1. k \in Nat /\ c \in Nat
    BY DEF MapAssumption, IsTable
  <2> QED
    BY <2>1
<1>2. s \in Seq(Pairs) /\ IsBucket(s, k % c, c, v)
  BY <1>1 DEF IsTable
<1>3. DOMAIN s = 1 .. Len(s) /\ \A j \in 1 .. Len(s) : s[j].data # NoData
  <2>1. \A j \in 1 .. Len(s) : s[j].data \in MapData
    BY <1>2, PairFacts
  <2>2. DOMAIN s = 1 .. Len(s)
    BY <1>2
  <2> QED
    BY <2>1, <2>2 DEF MapAssumption
<1>4. \A j \in M : j \in 1 .. Len(s) /\ s[j].key = k /\ v[k] = s[j].data
  BY <1>2, <1>3 DEF IsBucket
<1>5. ASSUME v[k] # NoData PROVE \E j \in 1 .. Len(s) : M = {j} /\ s[j].data = v[k]
  <2>1. PICK j \in 1 .. Len(s) : s[j].key = k
    BY <1>2, <1>5 DEF IsBucket
  <2>2. j \in M
    BY <1>3, <2>1
  <2>3. \A i \in M : i = j
    BY <1>2, <1>4, <2>1 DEF IsBucket
  <2> QED
    BY <1>4, <2>2, <2>3
<1>6. v[k] = NoData => M = {}
  BY <1>3, <1>4
<1> QED
  BY <1>1, <1>2, <1>5, <1>6

LEMMA OnlyOne ==
    ASSUME NEW j \in Nat
    PROVE  Min({j}) = j /\ Max({j}) = j
<1>1. \A x \in {j} : (\A y \in {j} : x <= y) <=> x = j
  OBVIOUS
<1>2. \A x \in {j} : (\A y \in {j} : x >= y) <=> x = j
  OBVIOUS
<1> QED
  BY <1>1, <1>2 DEF Min, Max

LEMMA SizeCounts ==
    ASSUME MapAssumption, NEW v
    PROVE  /\ IsFiniteSet(StoredKeys(v)) /\ Cardinality(StoredKeys(v)) \in Nat
           /\ Cardinality(StoredKeys(v)) = 0 <=> StoredKeys(v) = {}
           /\ Cardinality(StoredKeys(v)) <= Cardinality(MapKeys)
           /\ Cardinality(MapKeys) \in Nat
<1>1. IsFiniteSet(MapKeys) /\ StoredKeys(v) \subseteq MapKeys
  BY DEF MapAssumption, StoredKeys
<1>2. IsFiniteSet(StoredKeys(v)) /\ Cardinality(StoredKeys(v)) <= Cardinality(MapKeys)
  BY <1>1, FS_Subset
<1> QED
  BY <1>1, <1>2, FS_CardinalityType, FS_EmptySet

\* What has, peek and [] find in a table.
LEMMA LookupFinds ==
    ASSUME MapAssumption, NEW m, NEW v, IsMap(tables[m], v), NEW k \in MapKeys
    PROVE  /\ Has(m, k) <=> v[k] # NoData
           /\ Peek(m, k) = v[k]
           /\ Has(m, k) => /\ At(m, k) = v[k] /\ Cap(m) > 0
                           /\ \E j \in 1 .. Len(Bucket(m, k)) : Matches(m, k) = {j}
<1> DEFINE f == tables[m].table
           c == tables[m].cap
           s == Bucket(m, k)
           M == Matches(m, k)
<1>1. IsTable(f, c, v) /\ MapSize(m) = Cardinality(StoredKeys(v)) /\ c \in Nat
  BY DEF IsMap, MapSize, IsTable
<1>2. MapSize(m) = 0 <=> StoredKeys(v) = {}
  BY <1>1, SizeCounts
<1>3. v[k] # NoData <=> k \in StoredKeys(v)
  BY DEF StoredKeys
<1>4. s = f[k % c] /\ M = {j \in DOMAIN s : s[j].key = k} /\ Cap(m) = c
  BY DEF Bucket, Matches, Cap
<1>5. c = 0 => StoredKeys(v) = {}
  BY <1>1 DEF IsTable
<1> HIDE DEF s, M, f, c
<1>6. CASE v[k] = NoData
  <2>1. ~Has(m, k)
    <3>1. CASE c = 0
      BY <1>2, <1>5, <3>1 DEF Has
    <3>2. CASE c # 0
      <4>1. M = {}
        BY <1>1, <1>4, <1>6, <3>2, MatchesAre
      <4> QED
        BY <4>1 DEF Has, M
    <3> QED
      BY <3>1, <3>2
  <2> QED
    BY <1>6, <2>1 DEF Peek
<1>7. CASE v[k] # NoData
  <2>1. c > 0 /\ MapSize(m) # 0
    BY <1>1, <1>2, <1>3, <1>5, <1>7
  <2>2. PICK j \in 1 .. Len(s) : M = {j} /\ s[j].data = v[k]
    BY <1>1, <1>4, <1>7, <2>1, MatchesAre
  <2>3. Has(m, k)
    BY <2>1, <2>2 DEF Has, M
  <2>4. Min(M) = j /\ Max(M) = j
    BY <2>2, OnlyOne
  <2>5. Peek(m, k) = v[k] /\ At(m, k) = v[k]
    BY <2>2, <2>3, <2>4 DEF Peek, At, s, M
  <2> QED
    BY <1>4, <1>7, <2>1, <2>2, <2>3, <2>5 DEF s, M
<1> QED
  BY <1>6, <1>7

LEMMA BucketReplaced ==
    ASSUME MapAssumption, NEW f, NEW c, NEW v, IsTable(f, c, v), c > 0,
           NEW k \in MapKeys, NEW d \in MapData \cup {NoData},
           NEW s \in Seq(Pairs), IsBucket(s, k % c, c, [v EXCEPT ![k] = d])
    PROVE  IsTable([f EXCEPT ![k % c] = s], c, [v EXCEPT ![k] = d])
<1> DEFINE h == k % c
           u == [v EXCEPT ![k] = d]
           g == [f EXCEPT ![h] = s]
<1>1. /\ c \in Nat /\ f \in [0 .. c - 1 -> Seq(Pairs)] /\ v \in MapValues
      /\ \A b \in 0 .. c - 1 : IsBucket(f[b], b, c, v)
  BY DEF IsTable
<1>2. u \in MapValues /\ \A a \in MapKeys : a # k => u[a] = v[a]
  BY <1>1 DEF MapValues
<1>3. g \in [0 .. c - 1 -> Seq(Pairs)]
  BY <1>1
<1>4. ASSUME NEW b \in 0 .. c - 1 PROVE IsBucket(g[b], b, c, u)
  <2>1. CASE b = h
    <3>1. g[b] = s
      BY <1>1, <2>1
    <3> QED
      BY <2>1, <3>1
  <2>2. CASE b # h
    <3>1. g[b] = f[b]
      BY <1>1, <2>2
    <3>2. \A a \in MapKeys : a % c = b => a # k
      BY <2>2
    <3>3. \A i \in 1 .. Len(f[b]) : f[b][i].key \in MapKeys
      BY <1>1, PairFacts
    <3> HIDE DEF u, g, h
    <3>4. IsBucket(f[b], b, c, u)
      BY <1>1, <1>2, <3>2, <3>3 DEF IsBucket
    <3> QED
      BY <3>1, <3>4
  <2> QED
    BY <2>1, <2>2
<1> HIDE DEF u, g
<1>5. IsTable(g, c, u)
  BY <1>1, <1>2, <1>3, <1>4 DEF IsTable
<1> QED
  BY <1>5 DEF u, g

LEMMA NextCapIsPositive ==
    ASSUME MapAssumption, NEW c \in Nat
    PROVE  NextCap(c) \in ToSet(Primes) /\ NextCap(c) \in Nat /\ NextCap(c) > 0
<1> DEFINE larger == {i \in DOMAIN Primes : Primes[i] > c}
           N == Len(Primes)
<1>1. Primes \in Seq(Nat \ {0}) /\ N \in Nat /\ N > 0 /\ DOMAIN Primes = 1 .. N
  BY DEF MapAssumption
<1>2. \A i \in 1 .. N : Primes[i] \in Nat \ {0} /\ Primes[i] \in ToSet(Primes)
  BY <1>1, ElementOfSeq DEF ToSet
<1>3. ASSUME larger # {} PROVE Min(larger) \in 1 .. N
  <2>1. larger \subseteq 1 .. N /\ larger \subseteq Nat
    BY <1>1
  <2> HIDE DEF larger
  <2>2. \E x \in larger : \A y \in larger : x <= y
    BY <1>3, <2>1, LeastElement
  <2>3. Min(larger) \in larger
    BY <2>2 DEF Min
  <2> QED
    BY <2>1, <2>3
<1>4. Last(Primes) = Primes[N]
  BY DEF Last
<1>5. N \in 1 .. N
  BY <1>1
<1>6. NextCap(c) = IF larger = {} THEN Last(Primes) ELSE Primes[Min(larger)]
  BY DEF NextCap
<1> HIDE DEF larger, N
<1>7. \E i \in 1 .. N : NextCap(c) = Primes[i]
  BY <1>3, <1>4, <1>5, <1>6
<1> QED
  BY <1>2, <1>7

\* A table that grows holds what it held.
LEMMA RehashedKeeps ==
    ASSUME MapAssumption, NEW t, NEW v, IsMap(t, v)
    PROVE  /\ IsMap(Rehashed(t), v)
           /\ Rehashed(t).cap \in Nat /\ Rehashed(t).cap > 0
<1> DEFINE c == NextCap(t.cap)
           r == Rehashed(t)
<1>1. t.cap \in Nat /\ IsTable(t.table, t.cap, v)
  BY DEF IsMap, IsTable
<1>2. c \in ToSet(Primes) /\ c \in Nat /\ c > 0
  BY <1>1, NextCapIsPositive
<1>3. IsTable(Refilled(t, c), c, v)
  BY <1>1, <1>2, RefilledKeeps
<1>4. t = [table |-> t.table, cap |-> t.cap, size |-> t.size]
  BY DEF IsMap
<1>5. r = [t EXCEPT !.cap = c, !.table = Refilled(t, c)]
  BY DEF Rehashed
<1> HIDE DEF c, r
<1>6. r = [table |-> Refilled(t, c), cap |-> c, size |-> t.size]
  BY <1>4, <1>5
<1>7. IsMap(r, v)
  BY <1>2, <1>3, <1>6 DEF IsMap
<1> QED
  BY <1>2, <1>6, <1>7 DEF r

MapBecomes(m, v) == \E t : IsMap(t, v) /\ tables' = [tables EXCEPT ![m] = t]

LEMMA InsertKeyStep ==
    ASSUME MapAssumption, NEW m, NEW v, IsMap(tables[m], v),
           NEW k \in MapKeys, NEW d \in MapData, InsertKey(m, k, d)
    PROVE  MapBecomes(m, [v EXCEPT ![k] = d])
<1> DEFINE t == IF MapSize(m) + 1 > Cap(m) THEN Rehashed(tables[m]) ELSE tables[m]
           p == [key |-> k, data |-> d]
           r == [t EXCEPT !.table = Stored(t.table, t.cap, p), !.size = @ + 1]
           u == [v EXCEPT ![k] = d]
<1>1. v[k] = NoData /\ d # NoData
  BY LookupFinds DEF InsertKey, MapAssumption
<1>2. tables' = [tables EXCEPT ![m] = r]
  BY DEF InsertKey
<1>3. IsMap(t, v) /\ t.cap \in Nat /\ t.cap > 0
  <2>1. CASE MapSize(m) + 1 > Cap(m)
    <3>1. t = Rehashed(tables[m])
      BY <2>1
    <3> QED
      BY <3>1, RehashedKeeps
  <2>2. CASE ~(MapSize(m) + 1 > Cap(m))
    <3>1. t = tables[m]
      BY <2>2
    <3>2. MapSize(m) \in Nat /\ Cap(m) \in Nat /\ Cap(m) = tables[m].cap
      BY SizeCounts DEF IsMap, MapSize, Cap, IsTable
    <3> QED
      BY <2>2, <3>1, <3>2
  <2> QED
    BY <2>1, <2>2
<1> HIDE DEF t
<1>4. IsTable(Stored(t.table, t.cap, p), t.cap, u)
  BY <1>1, <1>3, StoreKeeps DEF IsMap
<1>5. /\ t = [table |-> t.table, cap |-> t.cap, size |-> t.size]
      /\ t.size = Cardinality(StoredKeys(v)) /\ t.cap \in ToSet(Primes) \cup {0}
      /\ v \in MapValues
  BY <1>3 DEF IsMap, IsTable
<1>6. Cardinality(StoredKeys(u)) = t.size + 1
  <2>1. StoredKeys(u) = StoredKeys(v) \cup {k} /\ k \notin StoredKeys(v)
    BY <1>1, <1>5 DEF StoredKeys, MapValues
  <2> HIDE DEF u
  <2> QED
    BY <1>5, <2>1, SizeCounts, FS_AddElement
<1> HIDE DEF u
<1>7. r = [table |-> Stored(t.table, t.cap, p), cap |-> t.cap, size |-> t.size + 1]
  <2> DEFINE q == Stored(t.table, t.cap, p)
  <2>1. r = [t EXCEPT !.table = q, !.size = t.size + 1]
    OBVIOUS
  <2> HIDE DEF q, r
  <2>2. r = [table |-> q, cap |-> t.cap, size |-> t.size + 1]
    BY <1>5, <2>1
  <2> QED
    BY <2>2 DEF q
<1> HIDE DEF p
<1> HIDE DEF r
<1>8. IsMap(r, u)
  BY <1>4, <1>5, <1>6, <1>7 DEF IsMap
<1> QED
  BY <1>2, <1>8 DEF MapBecomes, u

LEMMA AssignStep ==
    ASSUME MapAssumption, NEW m \in Maps, NEW v, IsMap(tables[m], v),
           tables = [a \in Maps |-> tables[a]],
           NEW k \in MapKeys, NEW d \in MapData, Assign(m, k, d)
    PROVE  MapBecomes(m, [v EXCEPT ![k] = d])
<1> DEFINE t == tables[m]
           c == t.cap
           f == t.table
           h == k % c
           s == Bucket(m, k)
           u == [v EXCEPT ![k] = d]
<1>1. v[k] # NoData /\ d # NoData /\ c > 0 /\ Cap(m) = c
  <2>1. Has(m, k)
    BY DEF Assign
  <2>2. v[k] # NoData /\ Cap(m) > 0
    BY <2>1, LookupFinds
  <2>3. Cap(m) = c
    BY DEF Cap
  <2>4. d # NoData
    BY DEF MapAssumption
  <2> QED
    BY <2>2, <2>3, <2>4
<1>2. PICK j \in 1 .. Len(s) : Matches(m, k) = {j}
  BY LookupFinds DEF Assign
<1>3. s = f[h]
  BY DEF Bucket, Cap
<1>4. IsTable(f, c, v) /\ v \in MapValues /\ c \in Nat /\ f \in [0 .. c - 1 -> Seq(Pairs)]
  BY DEF IsMap, IsTable
<1>5. h \in 0 .. c - 1 /\ s \in Seq(Pairs) /\ IsBucket(s, h, c, v)
  <2> DEFINE M == {i \in DOMAIN s : s[i].key = k}
  <2> HIDE DEF f, c, s, h
  <2>1. s = f[k % c] /\ M = {i \in DOMAIN s : s[i].key = k}
    BY <1>3 DEF h
  <2> HIDE DEF M
  <2>2. k % c \in 0 .. c - 1 /\ s \in Seq(Pairs) /\ IsBucket(s, k % c, c, v)
    BY <1>1, <1>4, <2>1, MatchesAre
  <2> QED
    BY <2>2 DEF h
<1>6. s[j].key = k
  BY <1>2 DEF Matches
<1> DEFINE z == [s EXCEPT ![j].data = d]
           r == [t EXCEPT !.table[h][j].data = d]
<1>7. tables' = [tables EXCEPT ![m] = r]
  <2>1. Max(Matches(m, k)) = j
    <3>1. j \in Nat
      BY <1>5, PairFacts
    <3> QED
      BY <1>2, <3>1, OnlyOne
  <2>2. tables' = [tables EXCEPT ![m].table[h][j].data = d]
    BY <1>1, <2>1 DEF Assign
  <2> QED
    BY <2>2
<1>8. /\ Len(z) = Len(s) /\ z \in Seq(Pairs)
      /\ z[j] = [key |-> k, data |-> d] /\ \A i \in 1 .. Len(s) : i # j => z[i] = s[i]
  <2> HIDE DEF s
  <2>1. \A i \in 1 .. Len(s) : s[i] \in Pairs
    BY <1>5, PairFacts
  <2>2. [s[j] EXCEPT !.data = d] = [key |-> k, data |-> d]
    BY <1>6, <2>1 DEF Pairs
  <2>3. z = [s EXCEPT ![j] = [key |-> k, data |-> d]]
    BY <2>2
  <2>4. [key |-> k, data |-> d] \in Pairs
    BY DEF Pairs
  <2> HIDE DEF z
  <2> QED
    BY <1>5, <2>3, <2>4
<1>9. IsBucket(z, h, c, u)
  <2> HIDE DEF s, h, c, z
  <2>1. Len(s) \in Nat /\ \A i \in 1 .. Len(s) : s[i].key \in MapKeys
    BY <1>5, PairFacts
  <2>2. u[k] = d /\ \A a \in MapKeys : a # k => u[a] = v[a]
    BY <1>4 DEF MapValues
  <2> HIDE DEF u
  <2>3. \A i \in 1 .. Len(s) : z[i].key = s[i].key
    BY <1>6, <1>8
  <2>4. \A i \in 1 .. Len(s) : i # j => s[i].key # k
    BY <1>5, <1>6 DEF IsBucket
  <2>5. ASSUME NEW i \in 1 .. Len(s) PROVE z[i].key % c = h /\ u[z[i].key] = z[i].data
    <3>1. s[i].key % c = h /\ v[s[i].key] = s[i].data
      BY <1>5 DEF IsBucket
    <3>2. CASE i = j
      BY <1>6, <1>8, <2>2, <3>1, <3>2
    <3>3. CASE i # j
      BY <1>8, <2>1, <2>2, <2>4, <3>1, <3>3
    <3> QED
      BY <3>2, <3>3
  <2>6. ASSUME NEW a \in MapKeys, a % c = h, u[a] # NoData
        PROVE  \E i \in 1 .. Len(s) : z[i].key = a
    <3>1. v[a] # NoData
      BY <1>1, <2>2, <2>6
    <3> QED
      BY <1>5, <2>3, <2>6, <3>1 DEF IsBucket
  <2>7. ASSUME NEW i \in 1 .. Len(s), NEW b \in 1 .. Len(s), z[i].key = z[b].key PROVE i = b
    BY <1>5, <2>3, <2>7 DEF IsBucket
  <2> QED
    BY <1>8, <2>5, <2>6, <2>7 DEF IsBucket
<1>10. t = [table |-> f, cap |-> c, size |-> t.size]
  BY DEF IsMap
<1>11. r = [table |-> [f EXCEPT ![h] = z], cap |-> c, size |-> t.size]
  <2>1. r = [t EXCEPT !.table = [f EXCEPT ![h] = z]]
    BY <1>3
  <2> QED
    BY <1>10, <2>1
<1>12. IsTable([f EXCEPT ![h] = z], c, u)
  <2> HIDE DEF f, c, s, z, t
  <2>1. d \in MapData \cup {NoData} /\ c > 0 /\ IsBucket(z, k % c, c, [v EXCEPT ![k] = d])
    BY <1>1, <1>9
  <2> QED
    BY <1>4, <1>8, <2>1, BucketReplaced
<1>13. StoredKeys(u) = StoredKeys(v)
  BY <1>1, <1>4 DEF StoredKeys, MapValues
<1> HIDE DEF r, u, z, s
<1>14. IsMap(r, u)
  BY <1>11, <1>12, <1>13 DEF IsMap
<1> QED
  BY <1>7, <1>14 DEF MapBecomes, u

LEMMA RemovalKeeps ==
    ASSUME MapAssumption, NEW s \in Seq(Pairs), NEW j \in 1 .. Len(s), NEW b, NEW c,
           NEW v \in MapValues, IsBucket(s, b, c, v)
    PROVE  /\ RemovedFrom(s, j) \in Seq(Pairs)
           /\ IsBucket(RemovedFrom(s, j), b, c, [v EXCEPT ![s[j].key] = NoData])
<1> DEFINE N == Len(s)
           k == s[j].key
           x == [s EXCEPT ![j] = s[N]]
           z == RemovedFrom(s, j)
           u == [v EXCEPT ![k] = NoData]
<1>1. /\ N \in Nat /\ N > 0 /\ N \in 1 .. N
      /\ \A i \in 1 .. N : s[i] \in Pairs /\ s[i].key \in MapKeys /\ s[i].data \in MapData
  BY PairFacts
<1>2. /\ x \in Seq(Pairs) /\ Len(x) = N /\ x[j] = s[N]
      /\ \A i \in 1 .. N : i # j => x[i] = s[i]
  BY <1>1
<1>3. z = SubSeq(x, 1, N - 1)
  <2>1. z = SubSeq(x, 1, Len(x) - 1)
    BY DEF RemovedFrom, Front, Last
  <2> QED
    BY <1>2, <2>1
<1> HIDE DEF x, z, N
<1>4. /\ z \in Seq(Pairs) /\ Len(z) = N - 1
      /\ \A i \in 1 .. N - 1 : z[i] = x[i]
  BY <1>1, <1>2, <1>3
<1>5. u[k] = NoData /\ \A a \in MapKeys : a # k => u[a] = v[a]
  BY <1>1 DEF MapValues, N
<1> HIDE DEF u
<1>6. \A i \in 1 .. N - 1 : i \in 1 .. N /\ i # N
  BY <1>1
\* The place of s that a pair of z comes from.
<1> DEFINE from(i) == IF i = j THEN N ELSE i
<1>7. \A i \in 1 .. N - 1 : from(i) \in 1 .. N /\ from(i) # j /\ z[i] = s[from(i)]
  BY <1>1, <1>2, <1>4, <1>6
<1>8. \A i, a \in 1 .. N - 1 : from(i) = from(a) => i = a
  BY <1>6
<1> HIDE DEF from
<1>9. /\ \A i, a \in 1 .. N : s[i].key = s[a].key => i = a
      /\ \A i \in 1 .. N : s[i].key % c = b /\ v[s[i].key] = s[i].data
      /\ \A a \in MapKeys : a % c = b /\ v[a] # NoData => \E i \in 1 .. N : s[i].key = a
  BY DEF IsBucket, N
<1>10. j \in 1 .. N
  BY DEF N
<1>11. \A i \in 1 .. N : i # j => s[i].key # k
  BY <1>9, <1>10
<1>12. ASSUME NEW i \in 1 .. N - 1, NEW a \in 1 .. N - 1, z[i].key = z[a].key PROVE i = a
  BY <1>7, <1>8, <1>9, <1>12
<1>13. ASSUME NEW i \in 1 .. N - 1 PROVE z[i].key % c = b /\ u[z[i].key] = z[i].data
  <2> DEFINE a == from(i)
  <2>1. z[i] = s[a] /\ a \in 1 .. N /\ s[a].key # k /\ s[a].key \in MapKeys
    BY <1>1, <1>7, <1>11
  <2> HIDE DEF a, k
  <2> QED
    BY <1>5, <1>9, <2>1
<1>14. ASSUME NEW a \in MapKeys, a % c = b, u[a] # NoData
       PROVE  \E i \in 1 .. N - 1 : z[i].key = a
  <2>1. a # k /\ v[a] # NoData
    BY <1>5, <1>14
  <2>2. PICK i \in 1 .. N : s[i].key = a
    BY <1>9, <1>14, <2>1
  <2>3. i # j
    BY <2>1, <2>2
  <2>4. CASE i = N
    <3>1. j \in 1 .. N - 1
      BY <1>1, <1>10, <2>3, <2>4
    <3>2. z[j] = s[N]
      BY <1>2, <1>4, <3>1
    <3> QED
      BY <2>2, <2>4, <3>1, <3>2
  <2>5. CASE i # N
    <3>1. i \in 1 .. N - 1
      BY <1>1, <2>5
    <3>2. z[i] = s[i]
      BY <1>2, <1>4, <2>3, <3>1
    <3> QED
      BY <2>2, <3>1, <3>2
  <2> QED
    BY <2>4, <2>5
<1>15. IsBucket(z, b, c, u)
  BY <1>4, <1>12, <1>13, <1>14 DEF IsBucket
<1> QED
  BY <1>4, <1>15 DEF z, u

LEMMA RemoveKeyStep ==
    ASSUME MapAssumption, NEW m \in Maps, NEW v, IsMap(tables[m], v),
           tables = [a \in Maps |-> tables[a]],
           NEW k \in MapKeys, RemoveKey(m, k)
    PROVE  MapBecomes(m, [v EXCEPT ![k] = NoData])
<1> DEFINE t == tables[m]
           c == t.cap
           f == t.table
           h == k % c
           s == Bucket(m, k)
           u == [v EXCEPT ![k] = NoData]
<1>1. v[k] # NoData /\ c > 0 /\ Cap(m) = c
  <2>1. Has(m, k)
    BY DEF RemoveKey
  <2>2. v[k] # NoData /\ Cap(m) > 0
    BY <2>1, LookupFinds
  <2>3. Cap(m) = c
    BY DEF Cap
  <2> QED
    BY <2>2, <2>3
<1>2. PICK j \in 1 .. Len(s) : Matches(m, k) = {j}
  BY LookupFinds DEF RemoveKey
<1>3. s = f[h]
  BY DEF Bucket, Cap
<1>4. IsTable(f, c, v) /\ v \in MapValues /\ c \in Nat /\ f \in [0 .. c - 1 -> Seq(Pairs)]
  BY DEF IsMap, IsTable
<1>5. h \in 0 .. c - 1 /\ s \in Seq(Pairs) /\ IsBucket(s, h, c, v)
  <2> DEFINE M == {i \in DOMAIN s : s[i].key = k}
  <2> HIDE DEF f, c, s, h
  <2>1. s = f[k % c] /\ M = {i \in DOMAIN s : s[i].key = k}
    BY <1>3 DEF h
  <2> HIDE DEF M
  <2>2. k % c \in 0 .. c - 1 /\ s \in Seq(Pairs) /\ IsBucket(s, k % c, c, v)
    BY <1>1, <1>4, <2>1, MatchesAre
  <2> QED
    BY <2>2 DEF h
<1>6. s[j].key = k
  BY <1>2 DEF Matches
<1> DEFINE z == RemovedFrom(s, j)
           r == [t EXCEPT !.table[h] = z, !.size = @ - 1]
<1>7. tables' = [tables EXCEPT ![m] = r]
  <2>1. Min(Matches(m, k)) = j
    <3>1. j \in Nat
      BY <1>5, PairFacts
    <3> QED
      BY <1>2, <3>1, OnlyOne
  <2>2. tables' = [tables EXCEPT ![m].table[h] = RemovedFrom(@, j), ![m].size = @ - 1]
    BY <1>1, <2>1 DEF RemoveKey
  <2>3. tables' = [tables EXCEPT ![m].table[h] = z, ![m].size = @ - 1]
    BY <1>3, <2>2
  <2> HIDE DEF z
  <2> QED
    BY <2>3
<1>8. z \in Seq(Pairs) /\ IsBucket(z, h, c, u)
  <2> HIDE DEF h, c, s
  <2> QED
    BY <1>4, <1>5, <1>6, RemovalKeeps
<1>9. t = [table |-> f, cap |-> c, size |-> t.size] /\ t.size = Cardinality(StoredKeys(v))
      /\ c \in ToSet(Primes) \cup {0}
  BY DEF IsMap
<1>10. IsTable([f EXCEPT ![h] = z], c, u)
  <2> HIDE DEF f, c, s, z, t
  <2>1. NoData \in MapData \cup {NoData} /\ c > 0 /\ IsBucket(z, k % c, c, [v EXCEPT ![k] = NoData])
    BY <1>1, <1>8
  <2> QED
    BY <1>4, <1>8, <2>1, BucketReplaced
<1>11. Cardinality(StoredKeys(u)) = t.size - 1
  <2>1. StoredKeys(u) = StoredKeys(v) \ {k} /\ k \in StoredKeys(v)
    BY <1>1, <1>4 DEF StoredKeys, MapValues
  <2> HIDE DEF u, t
  <2> QED
    BY <1>9, <2>1, SizeCounts, FS_RemoveElement
<1>12. r = [table |-> [f EXCEPT ![h] = z], cap |-> c, size |-> t.size - 1]
  <2> DEFINE g == [f EXCEPT ![h] = z]
  <2>1. r = [t EXCEPT !.table = g, !.size = t.size - 1]
    OBVIOUS
  <2> HIDE DEF g, r
  <2>2. r = [table |-> g, cap |-> c, size |-> t.size - 1]
    BY <1>9, <2>1
  <2> QED
    BY <2>2 DEF g
<1> HIDE DEF r, u, z, s
<1>13. IsMap(r, u)
  BY <1>9, <1>10, <1>11, <1>12 DEF IsMap
<1> QED
  BY <1>7, <1>13 DEF MapBecomes, u

LEMMA EmptyMapHoldsNothing ==
    ASSUME MapAssumption
    PROVE  IsMap(EmptyMap, NothingStored) /\ NothingStored \in MapValues
<1>1. IsTable(NoPairs(0), 0, NothingStored)
  BY EmptyTable
<1>2. StoredKeys(NothingStored) = {}
  BY DEF StoredKeys, NothingStored
<1>3. Cardinality(StoredKeys(NothingStored)) = 0
  BY <1>2, FS_EmptySet
<1> DEFINE f == NoPairs(0)
<1> HIDE DEF f
<1>4. EmptyMap = [table |-> f, cap |-> 0, size |-> 0]
  BY DEF EmptyMap, f
<1>5. IsMap(EmptyMap, NothingStored)
  BY <1>1, <1>3, <1>4 DEF IsMap, f
<1> QED
  BY <1>5 DEF NothingStored, MapValues

\* The inductive invariant: each map holds something.
MapHolds(vs) ==
    /\ tables = [m \in Maps |-> tables[m]]
    /\ vs \in [Maps -> MapValues]
    /\ \A m \in Maps : IsMap(tables[m], vs[m])

MapIInv == \E vs : MapHolds(vs)

\* What an operation does to what the maps hold.
SetsOne(vs, ws) ==
    \E m \in Maps, k \in MapKeys, d \in MapData \cup {NoData} : ws = [vs EXCEPT ![m][k] = d]
ClearsOne(vs, ws) == \E m \in Maps : ws = [vs EXCEPT ![m] = NothingStored]
MovesOne(vs, ws) ==
    \E m, other \in Maps :
        m # other /\ ws = [vs EXCEPT ![other] = vs[m], ![m] = NothingStored]

MapStep(vs, ws) == MapHolds(ws)' /\ (SetsOne(vs, ws) \/ ClearsOne(vs, ws) \/ MovesOne(vs, ws))

LEMMA InitialMaps ==
    ASSUME MapAssumption, MapInit
    PROVE  MapHolds([m \in Maps |-> NothingStored])
<1>1. IsMap(EmptyMap, NothingStored) /\ NothingStored \in MapValues
  BY EmptyMapHoldsNothing
<1>2. tables = [m \in Maps |-> EmptyMap]
  BY DEF MapInit
<1> QED
  BY <1>1, <1>2 DEF MapHolds

LEMMA OneBecomes ==
    ASSUME NEW vs, MapHolds(vs), NEW m \in Maps, NEW w \in MapValues, MapBecomes(m, w)
    PROVE  MapHolds([vs EXCEPT ![m] = w])'
<1>1. PICK t : IsMap(t, w) /\ tables' = [tables EXCEPT ![m] = t]
  BY DEF MapBecomes
<1>2. /\ tables = [a \in Maps |-> tables[a]] /\ vs \in [Maps -> MapValues]
      /\ \A a \in Maps : IsMap(tables[a], vs[a])
  BY DEF MapHolds
<1> DEFINE ws == [vs EXCEPT ![m] = w]
<1>3. tables'[m] = t /\ \A a \in Maps : a # m => tables'[a] = tables[a]
  BY <1>1, <1>2
<1>4. ws \in [Maps -> MapValues] /\ ws[m] = w /\ \A a \in Maps : a # m => ws[a] = vs[a]
  BY <1>2
<1>5. tables' = [a \in Maps |-> tables'[a]]
  BY <1>1, <1>2
<1> HIDE DEF ws
<1>6. ASSUME NEW a \in Maps PROVE IsMap(tables'[a], ws[a])
  <2>1. CASE a = m
    BY <1>1, <1>3, <1>4, <2>1
  <2>2. CASE a # m
    BY <1>2, <1>3, <1>4, <2>2
  <2> QED
    BY <2>1, <2>2
<1>7. MapHolds(ws)'
  BY <1>4, <1>5, <1>6 DEF MapHolds
<1> QED
  BY <1>7 DEF ws

LEMMA MapSteps ==
    ASSUME MapAssumption, NEW vs, MapHolds(vs), MapNext
    PROVE  \E ws : MapStep(vs, ws)
<1>1. /\ tables = [a \in Maps |-> tables[a]] /\ vs \in [Maps -> MapValues]
      /\ \A a \in Maps : IsMap(tables[a], vs[a])
  BY DEF MapHolds
<1>2. IsMap(EmptyMap, NothingStored) /\ NothingStored \in MapValues
  BY EmptyMapHoldsNothing
<1>3. ASSUME NEW m \in Maps, NEW k \in MapKeys, NEW d \in MapData \cup {NoData},
             MapBecomes(m, [vs[m] EXCEPT ![k] = d])
      PROVE  \E ws : MapStep(vs, ws)
  <2> DEFINE w == [vs[m] EXCEPT ![k] = d]
             ws == [vs EXCEPT ![m] = w]
  <2>1. w \in MapValues
    <3>1. vs[m] \in MapValues
      BY <1>1
    <3> QED
      BY <3>1 DEF MapValues
  <2>2. ws = [vs EXCEPT ![m][k] = d]
    OBVIOUS
  <2> HIDE DEF w
  <2>3. MapHolds([vs EXCEPT ![m] = w])'
    BY <1>3, <2>1, OneBecomes DEF w
  <2> HIDE DEF ws
  <2>4. SetsOne(vs, ws)
    BY <2>2 DEF SetsOne
  <2> QED
    BY <2>3, <2>4 DEF MapStep, ws
<1>4. ASSUME NEW m \in Maps, ClearMap(m) PROVE \E ws : MapStep(vs, ws)
  <2> DEFINE ws == [vs EXCEPT ![m] = NothingStored]
  <2>1. MapBecomes(m, NothingStored)
    BY <1>2, <1>4 DEF ClearMap, MapBecomes
  <2>2. MapHolds(ws)'
    BY <1>2, <2>1, OneBecomes
  <2>3. ClearsOne(vs, ws)
    BY DEF ClearsOne
  <2> QED
    BY <2>2, <2>3 DEF MapStep
<1>5. ASSUME NEW m \in Maps, NEW other \in Maps, MoveTo(m, other)
      PROVE  \E ws : MapStep(vs, ws)
  <2> DEFINE ws == [vs EXCEPT ![other] = vs[m], ![m] = NothingStored]
  <2>1. m # other /\ tables' = [tables EXCEPT ![other] = tables[m], ![m] = EmptyMap]
    BY <1>5 DEF MoveTo
  <2>2. MovesOne(vs, ws)
    BY <2>1 DEF MovesOne
  <2>3. /\ ws \in [Maps -> MapValues] /\ ws[m] = NothingStored /\ ws[other] = vs[m]
        /\ \A a \in Maps : a # m /\ a # other => ws[a] = vs[a]
    BY <1>1, <1>2, <2>1
  <2>4. /\ tables' = [a \in Maps |-> tables'[a]]
        /\ tables'[m] = EmptyMap /\ tables'[other] = tables[m]
        /\ \A a \in Maps : a # m /\ a # other => tables'[a] = tables[a]
    BY <1>1, <2>1
  <2> HIDE DEF ws
  <2>5. ASSUME NEW a \in Maps PROVE IsMap(tables'[a], ws[a])
    <3>1. CASE a = m
      BY <1>2, <2>3, <2>4, <3>1
    <3>2. CASE a = other
      BY <1>1, <2>3, <2>4, <3>2
    <3>3. CASE a # m /\ a # other
      BY <1>1, <2>3, <2>4, <3>3
    <3> QED
      BY <3>1, <3>2, <3>3
  <2>6. MapHolds(ws)'
    BY <2>3, <2>4, <2>5 DEF MapHolds
  <2> QED
    BY <2>2, <2>6 DEF MapStep
<1>6. ASSUME NEW m \in Maps, NEW k \in MapKeys, RemoveKey(m, k) PROVE \E ws : MapStep(vs, ws)
  <2>1. MapBecomes(m, [vs[m] EXCEPT ![k] = NoData])
    BY <1>1, <1>6, RemoveKeyStep
  <2> QED
    BY <1>3, <2>1
<1>7. ASSUME NEW m \in Maps, NEW k \in MapKeys, NEW d \in MapData,
             InsertKey(m, k, d) \/ Assign(m, k, d)
      PROVE  \E ws : MapStep(vs, ws)
  <2>1. MapBecomes(m, [vs[m] EXCEPT ![k] = d])
    BY <1>1, <1>7, InsertKeyStep, AssignStep
  <2> QED
    BY <1>3, <2>1
<1> QED
  BY <1>4, <1>5, <1>6, <1>7 DEF MapNext

LEMMA MapInvariance ==
    ASSUME MapAssumption
    PROVE  MapSpec => []MapIInv
<1>1. MapInit => MapIInv
  BY InitialMaps DEF MapIInv
<1>2. MapIInv /\ [MapNext]_mapVars => MapIInv'
  <2> SUFFICES ASSUME MapIInv, [MapNext]_mapVars PROVE MapIInv'
    OBVIOUS
  <2>1. PICK vs : MapHolds(vs)
    BY DEF MapIInv
  <2>2. CASE MapNext
    BY <2>1, <2>2, MapSteps DEF MapIInv, MapStep
  <2>3. CASE UNCHANGED mapVars
    BY <2>1, <2>3 DEF MapIInv, MapHolds, mapVars
  <2> QED
    BY <2>2, <2>3
<1> QED
  BY <1>1, <1>2, PTL DEF MapSpec

\* The tables of the hash table (mtl/Map.h) are well formed: each has one of the
\* capacities, as many buckets, and never more elements than there are keys.
THEOREM MapTypeCorrect ==
    ASSUME MapAssumption
    PROVE  MapSpec => []MapTypeOK
<1>1. MapIInv => MapTypeOK
  <2> SUFFICES ASSUME NEW vs, MapHolds(vs), NEW m \in Maps
               PROVE  /\ Cap(m) \in ToSet(Primes) \cup {0}
                      /\ tables[m].table \in [0 .. Cap(m) - 1 -> Seq([key : MapKeys, data : MapData])]
                      /\ MapSize(m) \in 0 .. Cardinality(MapKeys)
    BY DEF MapIInv, MapTypeOK
  <2>1. IsMap(tables[m], vs[m])
    BY DEF MapHolds
  <2>2. MapSize(m) = Cardinality(StoredKeys(vs[m]))
    BY <2>1 DEF IsMap, MapSize
  <2>3. MapSize(m) \in 0 .. Cardinality(MapKeys)
    <3> DEFINE n == Cardinality(MapKeys)
    <3>1. MapSize(m) \in Nat /\ MapSize(m) <= n /\ n \in Nat
      BY <2>2, SizeCounts
    <3> HIDE DEF n
    <3>2. MapSize(m) \in 0 .. n
      BY <3>1
    <3> QED
      BY <3>2 DEF n
  <2> QED
    BY <2>1, <2>3 DEF IsMap, IsTable, Cap, Pairs
<1> QED
  BY <1>1, MapInvariance, PTL

\* What the refinement mapping makes of the tables: what the maps hold.
Finds(vs) ==
    /\ [m \in Maps |-> [k \in MapKeys |->
           IF Has(m, k) /\ At(m, k) # Peek(m, k) THEN "both" ELSE Peek(m, k)]] = vs
    /\ [m \in Maps |-> MapSize(m)] = [m \in Maps |-> Cardinality(StoredKeys(vs[m]))]

LookupsFind == \A vs : MapHolds(vs) => Finds(vs)

LEMMA LookupsAlwaysFind ==
    ASSUME MapAssumption
    PROVE  LookupsFind
<1> SUFFICES ASSUME NEW vs, MapHolds(vs) PROVE Finds(vs)
  BY DEF LookupsFind
<1>1. vs \in [Maps -> MapValues] /\ \A m \in Maps : IsMap(tables[m], vs[m])
  BY DEF MapHolds
<1>2. ASSUME NEW m \in Maps, NEW k \in MapKeys
      PROVE  (IF Has(m, k) /\ At(m, k) # Peek(m, k) THEN "both" ELSE Peek(m, k)) = vs[m][k]
  <2>1. Peek(m, k) = vs[m][k] /\ (Has(m, k) => At(m, k) = vs[m][k])
    BY <1>1, LookupFinds
  <2> QED
    BY <2>1, Zenon
<1>3. vs = [m \in Maps |-> [k \in MapKeys |-> vs[m][k]]]
  BY <1>1 DEF MapValues
<1>4. ASSUME NEW m \in Maps PROVE MapSize(m) = Cardinality(StoredKeys(vs[m]))
  BY <1>1 DEF IsMap, MapSize
<1> QED
  BY <1>2, <1>3, <1>4, Zenon DEF Finds

\* The hash table (mtl/Map.h) implements a finite map: has, peek and [] say of
\* a key what was inserted or assigned under it last, and the size is the number
\* of keys, whatever collides, however the table grows and its buckets are
\* rehashed, after removals that reorder a bucket, clear and moveTo.  For every
\* finite set of keys, all data and every list of capacities.
THEOREM HashMapImplementsFiniteMap ==
    ASSUME MapAssumption
    PROVE  MapSpec => ImplementsFiniteMap
<1>1. MapInit => AsFiniteMap!Init
  <2> SUFFICES ASSUME MapInit PROVE AsFiniteMap!Init
    OBVIOUS
  <2> DEFINE vs == [m \in Maps |-> NothingStored]
  <2>1. Finds(vs)
    BY InitialMaps, LookupsAlwaysFind DEF LookupsFind
  <2>2. \A m \in Maps : MapSize(m) = 0
    BY DEF MapInit, MapSize, EmptyMap
  <2>3. vs = [m \in Maps |-> AsFiniteMap!Nothing]
    BY DEF NothingStored, AsFiniteMap!Nothing
  <2> HIDE DEF vs
  <2> QED
    BY <2>1, <2>2, <2>3 DEF Finds, AsFiniteMap!Init
<1>2. MapIInv /\ LookupsFind /\ LookupsFind' /\ MapNext => AsFiniteMapStep
  <2> SUFFICES ASSUME MapIInv, LookupsFind, LookupsFind', MapNext PROVE AsFiniteMap!Next
    BY DEF AsFiniteMapStep
  <2>1. PICK vs : MapHolds(vs)
    BY DEF MapIInv
  <2>2. PICK ws : MapStep(vs, ws)
    BY <2>1, MapSteps
  <2>3. Finds(vs) /\ Finds(ws)'
    BY <2>1, <2>2 DEF LookupsFind, MapStep
  <2> DEFINE held == [m \in Maps |-> [k \in MapKeys |->
                 IF Has(m, k) /\ At(m, k) # Peek(m, k) THEN "both" ELSE Peek(m, k)]]
             sizes == [m \in Maps |-> MapSize(m)]
  <2>4. held = vs /\ held' = ws
    BY <2>3, Zenon DEF Finds
  <2>5. sizes' = [m \in Maps |-> Cardinality(StoredKeys(ws[m]))]
    BY <2>3, Zenon DEF Finds
  <2>6. sizes' = [m \in Maps |->
                     AsFiniteMap!Cardinality({k \in MapKeys : held'[m][k] # NoData})]
    <3> HIDE DEF held, sizes
    <3>1. sizes' = [m \in Maps |-> Cardinality({k \in MapKeys : held'[m][k] # NoData})]
      BY <2>4, <2>5 DEF StoredKeys
    <3> QED
      BY <3>1, Zenon DEF Cardinality, AsFiniteMap!Cardinality
  <2>7. \/ \E m \in Maps :
             \/ \E k \in MapKeys, d \in MapData \cup {NoData} :
                   held' = [held EXCEPT ![m][k] = d]
             \/ \E other \in Maps \ {m} :
                   held' = [held EXCEPT ![other] = held[m], ![m] = AsFiniteMap!Nothing]
             \/ held' = [held EXCEPT ![m] = AsFiniteMap!Nothing]
    <3> HIDE DEF held, sizes
    <3>1. NothingStored = AsFiniteMap!Nothing
      BY DEF NothingStored, AsFiniteMap!Nothing
    <3>2. CASE SetsOne(vs, ws)
      BY <2>4, <3>2, Zenon DEF SetsOne
    <3>3. CASE ClearsOne(vs, ws)
      BY <2>4, <3>1, <3>3, Zenon DEF ClearsOne
    <3>4. CASE MovesOne(vs, ws)
      <4>1. PICK m \in Maps, other \in Maps :
                m # other /\ ws = [vs EXCEPT ![other] = vs[m], ![m] = NothingStored]
        BY <3>4 DEF MovesOne
      <4>2. other \in Maps \ {m}
        BY <4>1
      <4> QED
        BY <2>4, <3>1, <4>1, <4>2, Zenon
    <3> QED
      BY <2>2, <3>2, <3>3, <3>4 DEF MapStep
  <2> QED
    BY <2>6, <2>7, Zenon DEF AsFiniteMap!Next
<1>3. UNCHANGED mapVars => AsFiniteMapStep
  BY DEF mapVars, AsFiniteMapStep, AsFiniteMap!vars, Has, At, Peek, Matches, Bucket, Cap, MapSize
<1>4. MapIInv /\ LookupsFind /\ LookupsFind' /\ [MapNext]_mapVars => AsFiniteMapStep
  BY <1>2, <1>3
<1>5. LookupsFind
  BY LookupsAlwaysFind
<1> QED
  BY <1>1, <1>4, <1>5, MapInvariance, PTL
     DEF MapSpec, ImplementsFiniteMap, AsFiniteMap!Spec, AsFiniteMapStep

=============================================================================
