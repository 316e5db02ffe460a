----------------------------- MODULE OrbitProofs -----------------------------
(***************************************************************************)
(* Theorems about the disjoint sets that the orbits are kept in, and about *)
(* the order of the variables that is made of the orbits.                  *)
(*                                                                         *)
(* For every set of elements, the forest of the disjoint sets has no       *)
(* cycle, whatever was linked and compressed, and its trees are the blocks *)
(* of the partition that the calls describe.  For every number of          *)
(* variables and every group, whichever kind of order is asked for and     *)
(* however the orbits are visited, each variable is listed once, and       *)
(* BreakID's order is a chain of stabilizers.                              *)
(***************************************************************************)
EXTENDS DisjointSets, VariableOrder, TLAPS, SequenceTheorems, FiniteSetTheorems

-----------------------------------------------------------------------------
\* Sets of natural numbers have a least element.
LEMMA LeastElement ==
    ASSUME NEW T, T \subseteq Nat, T # {}
    PROVE  \E x \in T : \A y \in T : x <= y
<1>1. PICK x \in T : \A y \in T : <<y, x>> \notin OpToRel(<, Nat)
  BY WFMin, NatLessThanWellFounded, Zenon
<1>2. \A y \in T : ~(y < x)
  BY <1>1, T \subseteq Nat, Zenon DEF OpToRel
<1>3. \A y \in T : x <= y
  BY <1>2
<1> QED
  BY <1>3

\* Induction up to a number, for a set.
LEMMA UpTo ==
    ASSUME NEW n \in Nat, NEW T, 0 \in T,
           \A k \in 0 .. n : k # n /\ k \in T => k + 1 \in T
    PROVE  \A k \in 0 .. n : k \in T
<1> DEFINE Out == {k \in 0 .. n : k \notin T}
<1>1. SUFFICES ASSUME Out # {} PROVE FALSE
  OBVIOUS
<1>2. Out \subseteq Nat
  OBVIOUS
<1>3. PICK k \in Out : \A i \in Out : k <= i
  <2> HIDE DEF Out
  <2> QED
    BY <1>1, <1>2, LeastElement
<1>4. k \in 0 .. n /\ k \notin T /\ k # 0
  BY <1>3
<1>5. k - 1 \in 0 .. n /\ k - 1 # n /\ ~(k <= k - 1) /\ (k - 1) + 1 = k
  BY <1>4
<1>6. k - 1 \in T
  BY <1>3, <1>5
<1> QED
  BY <1>4, <1>5, <1>6

-----------------------------------------------------------------------------
\* Forests.

\* A finite forest, in which ranks grow on the way to the root.
Forest(p, r) ==
    /\ IsFiniteSet(DOMAIN p)
    /\ p \in [DOMAIN p -> DOMAIN p]
    /\ r \in [DOMAIN p -> Nat]
    /\ \A x \in DOMAIN p : p[x] # x => r[x] < r[p[x]]

\* How many elements a forest has, and as many steps an ancestor can be away.
Size(p) == Cardinality(DOMAIN p)

LEMMA AncestorRecursion ==
    ASSUME NEW p, Size(p) \in Nat, NEW x
    PROVE  \A k \in 0 .. Size(p) :
               Ancestor(p, x, k) = IF k = 0 THEN x ELSE p[Ancestor(p, x, k - 1)]
<1> DEFINE N == Size(p)
           Step(f, k) == IF k = 0 THEN x ELSE p[f[k - 1]]
           Good == {n \in 0 .. N : \E f : f = [k \in 0 .. n |-> Step(f, k)]}
<1>0. N \in Nat
  OBVIOUS
<1>1. 0 \in Good
  <2> DEFINE f == [k \in 0 .. 0 |-> x]
  <2>1. f = [k \in 0 .. 0 |-> Step(f, k)]
    OBVIOUS
  <2>2. 0 \in 0 .. N
    BY <1>0
  <2> HIDE DEF f, Step, N
  <2> QED
    BY <2>1, <2>2
<1>2. ASSUME NEW n \in 0 .. N, n # N, n \in Good PROVE n + 1 \in Good
  <2>1. PICK g : g = [k \in 0 .. n |-> Step(g, k)]
    BY <1>2
  <2> DEFINE f == [k \in 0 .. n + 1 |-> IF k = n + 1 THEN Step(g, n + 1) ELSE g[k]]
  <2>2. ASSUME NEW k \in 0 .. n + 1 PROVE f[k] = Step(f, k)
    <3>1. f[k] = Step(g, k)
      <4>1. CASE k = n + 1
        BY <4>1
      <4>2. CASE k # n + 1
        <5>1. k \in 0 .. n
          BY <4>2
        <5> QED
          BY <2>1, <4>2, <5>1
      <4> QED
        BY <4>1, <4>2
    <3>2. CASE k = 0
      BY <3>1, <3>2
    <3>3. CASE k # 0
      <4>1. k - 1 \in 0 .. n + 1 /\ k - 1 # n + 1
        BY <3>3
      <4>2. f[k - 1] = g[k - 1]
        BY <4>1
      <4>3. Step(f, k) = Step(g, k)
        <5> HIDE DEF f
        <5> QED
          BY <3>3, <4>2
      <4> QED
        BY <3>1, <4>3
    <3> QED
      BY <3>2, <3>3
  <2>3. f = [k \in 0 .. n + 1 |-> Step(f, k)]
    BY <2>2
  <2>4. n + 1 \in 0 .. N
    <3> HIDE DEF N
    <3> QED
      BY <1>0, <1>2
  <2> QED
    BY <2>3, <2>4
<1>3. N \in Good
  <2>1. \A k \in 0 .. N : k \in Good
    <3> HIDE DEF Good
    <3> QED
      BY <1>1, <1>2, UpTo
  <2>2. N \in 0 .. N
    OBVIOUS
  <2> HIDE DEF Good
  <2> QED
    BY <2>1, <2>2
<1> DEFINE IsRecursion(f) == f = [k \in 0 .. N |-> Step(f, k)]
<1>4. \E f : IsRecursion(f)
  BY <1>3
<1> DEFINE up == CHOOSE f : IsRecursion(f)
<1>5. IsRecursion(up)
  <2> HIDE DEF IsRecursion
  <2> QED
    BY <1>4, Zenon
<1>6. \A k : Ancestor(p, x, k) = up[k]
  BY DEF Ancestor, Size
<1>7. \A k \in 0 .. N : up[k] = Step(up, k)
  <2> HIDE DEF up
  <2> QED
    BY <1>5
<1> HIDE DEF up
<1> QED
  BY <1>6, <1>7

LEMMA ForestSize ==
    ASSUME NEW p, NEW r, Forest(p, r)
    PROVE  Size(p) \in Nat /\ 0 \in 0 .. Size(p) /\ Size(p) \in 0 .. Size(p)
<1>1. Size(p) \in Nat
  BY FS_CardinalityType DEF Forest, Size
<1> QED
  BY <1>1

\* The way up stays in the forest and, once at a root, stays there.
LEMMA AncestorFacts ==
    ASSUME NEW p, NEW r, Forest(p, r), NEW x \in DOMAIN p
    PROVE  /\ Ancestor(p, x, 0) = x
           /\ \A k \in 0 .. Size(p) :
                 k # Size(p) => /\ k + 1 \in 0 .. Size(p)
                                /\ Ancestor(p, x, k + 1) = p[Ancestor(p, x, k)]
           /\ \A k \in 0 .. Size(p) : Ancestor(p, x, k) \in DOMAIN p
<1> DEFINE N == Size(p)
           T == {k \in 0 .. N : Ancestor(p, x, k) \in DOMAIN p}
<1>1. N \in Nat /\ 0 \in 0 .. N
  BY ForestSize
<1>2. Ancestor(p, x, 0) = x
  BY <1>1, AncestorRecursion
<1>3. ASSUME NEW k \in 0 .. N, k # N
      PROVE  k + 1 \in 0 .. N /\ Ancestor(p, x, k + 1) = p[Ancestor(p, x, k)]
  <2> HIDE DEF N
  <2>1. k + 1 \in 0 .. N /\ k + 1 # 0 /\ (k + 1) - 1 = k
    BY <1>1, <1>3
  <2> QED
    BY <1>1, <2>1, AncestorRecursion DEF N
<1>4. \A k \in DOMAIN p : p[k] \in DOMAIN p
  BY DEF Forest
<1>5. \A k \in 0 .. N : k \in T
  <2>1. 0 \in T
    BY <1>1, <1>2
  <2>2. \A k \in 0 .. N : k # N /\ k \in T => k + 1 \in T
    BY <1>3, <1>4
  <2> HIDE DEF T, N
  <2> QED
    BY <1>1, <2>1, <2>2, UpTo
<1> QED
  BY <1>2, <1>3, <1>5

\* Ranks grow on a way that does not reach a root, which would then be longer
\* than the forest has elements: the way up ends at a root.
LEMMA RootIsReached ==
    ASSUME NEW p, NEW r, Forest(p, r), NEW x \in DOMAIN p
    PROVE  Root(p, x) \in DOMAIN p /\ p[Root(p, x)] = Root(p, x)
<1> DEFINE N == Size(p)
           A(k) == Ancestor(p, x, k)
<1>1. N \in Nat /\ 0 \in 0 .. N /\ N \in 0 .. N
  BY ForestSize
<1>2. /\ \A k \in 0 .. N : k # N => k + 1 \in 0 .. N /\ A(k + 1) = p[A(k)]
      /\ \A k \in 0 .. N : A(k) \in DOMAIN p
  BY AncestorFacts
<1>3. Root(p, x) = A(N)
  BY DEF Root, Size
<1>4. SUFFICES ASSUME p[A(N)] # A(N) PROVE FALSE
  BY <1>1, <1>2, <1>3
<1> HIDE DEF A, N
<1>5. \A k \in 0 .. N : p[A(k)] # A(k)
  <2> SUFFICES ASSUME NEW k \in 0 .. N, p[A(k)] = A(k) PROVE FALSE
    OBVIOUS
  <2> DEFINE T == {m \in 0 .. N : k <= m => A(m) = A(k)}
  <2>1. 0 \in T
    BY <1>1
  <2>2. ASSUME NEW m \in 0 .. N, m # N, m \in T PROVE m + 1 \in T
    <3>1. m + 1 \in 0 .. N /\ A(m + 1) = p[A(m)]
      BY <1>2, <2>2
    <3>2. CASE k <= m
      BY <2>2, <3>1, <3>2
    <3>3. CASE ~(k <= m)
      <4>1. k <= m + 1 => k = m + 1
        BY <3>3
      <4> QED
        BY <3>1, <4>1
    <3> QED
      BY <3>2, <3>3
  <2>3. N \in T
    <3> HIDE DEF T
    <3> QED
      BY <1>1, <2>1, <2>2, UpTo
  <2>4. k <= N
    BY <1>1
  <2> QED
    BY <1>4, <2>3, <2>4
<1>6. \A k \in 0 .. N : r[A(k)] \in Nat
  BY <1>2 DEF Forest
<1>7. \A k \in 0 .. N : k # N => r[A(k)] < r[A(k + 1)]
  BY <1>2, <1>5 DEF Forest
<1>8. \A m \in 0 .. N : \A k \in 0 .. N : k < m => r[A(k)] < r[A(m)]
  <2> DEFINE T == {m \in 0 .. N : \A k \in 0 .. N : k < m => r[A(k)] < r[A(m)]}
  <2>1. 0 \in T
    BY <1>1
  <2>2. ASSUME NEW m \in 0 .. N, m # N, m \in T PROVE m + 1 \in T
    <3>1. m + 1 \in 0 .. N /\ r[A(m)] < r[A(m + 1)]
      BY <1>2, <1>7, <2>2
    <3>2. ASSUME NEW k \in 0 .. N, k < m + 1 PROVE r[A(k)] < r[A(m + 1)]
      <4>1. k = m \/ k < m
        BY <3>2
      <4>2. r[A(k)] \in Nat /\ r[A(m)] \in Nat /\ r[A(m + 1)] \in Nat
        BY <1>6, <3>1
      <4>3. CASE k = m
        BY <3>1, <4>3
      <4>4. CASE k < m
        <5>1. r[A(k)] < r[A(m)]
          BY <2>2, <4>4
        <5> QED
          BY <3>1, <4>2, <5>1
      <4> QED
        BY <4>1, <4>3, <4>4
    <3> QED
      BY <3>1, <3>2
  <2> HIDE DEF T
  <2>3. \A m \in 0 .. N : m \in T
    BY <1>1, <2>1, <2>2, UpTo
  <2> QED
    BY <2>3 DEF T
<1> DEFINE f == [k \in 0 .. N |-> A(k)]
<1>9. f \in [0 .. N -> DOMAIN p]
  BY <1>2
<1>10. IsFiniteSet(0 .. N) /\ Cardinality(0 .. N) = N + 1
  <2>1. 0 \in Int /\ N \in Int /\ ~(0 > N)
    BY <1>1
  <2> QED
    BY <2>1, FS_Interval
<1>11. IsFiniteSet(DOMAIN p) /\ Cardinality(DOMAIN p) < Cardinality(0 .. N)
  <2>1. Cardinality(DOMAIN p) = N /\ IsFiniteSet(DOMAIN p)
    BY DEF N, Size, Forest
  <2> QED
    BY <1>1, <1>10, <2>1
<1>12. \E i, j \in 0 .. N : i # j /\ f[i] = f[j]
  <2> HIDE DEF f
  <2> QED
    BY <1>9, <1>10, <1>11, FS_PigeonHole
<1>13. PICK i \in 0 .. N, j \in 0 .. N : i # j /\ A(i) = A(j)
  BY <1>12
<1>14. r[A(i)] \in Nat /\ r[A(i)] = r[A(j)]
  BY <1>6, <1>13
<1>15. CASE i < j
  BY <1>8, <1>14, <1>15
<1>16. CASE j < i
  BY <1>8, <1>14, <1>16
<1> QED
  BY <1>13, <1>15, <1>16

\* Where the way up ends is told by where the parents' ways end: whatever does
\* not change on the way and is right at the roots is the root.
LEMMA RootIsOnly ==
    ASSUME NEW p, NEW r, Forest(p, r), NEW R,
           \A y \in DOMAIN p : R[p[y]] = R[y],
           \A y \in DOMAIN p : p[y] = y => R[y] = y
    PROVE  \A x \in DOMAIN p : Root(p, x) = R[x]
<1> TAKE x \in DOMAIN p
<1> DEFINE N == Size(p)
           A(k) == Ancestor(p, x, k)
           T == {k \in 0 .. N : R[A(k)] = R[x]}
<1>1. N \in Nat /\ 0 \in 0 .. N /\ N \in 0 .. N
  BY ForestSize
<1>2. /\ A(0) = x
      /\ \A k \in 0 .. N : k # N => k + 1 \in 0 .. N /\ A(k + 1) = p[A(k)]
      /\ \A k \in 0 .. N : A(k) \in DOMAIN p
  BY AncestorFacts
<1>3. Root(p, x) = A(N)
  BY DEF Root, Size
<1> HIDE DEF A, N
<1>4. N \in T
  <2>1. 0 \in T
    BY <1>1, <1>2
  <2>2. \A k \in 0 .. N : k # N /\ k \in T => k + 1 \in T
    BY <1>2
  <2> HIDE DEF T
  <2> QED
    BY <1>1, <2>1, <2>2, UpTo
<1>5. R[A(N)] = A(N)
  BY <1>3, RootIsReached
<1> QED
  BY <1>3, <1>4, <1>5

\* A root is its own root, and a node has the root of its parent.
LEMMA RootOfParent ==
    ASSUME NEW p, NEW r, Forest(p, r), NEW x \in DOMAIN p
    PROVE  /\ p[x] = x => Root(p, x) = x
           /\ p[x] \in DOMAIN p /\ Root(p, p[x]) = Root(p, x)
<1> DEFINE N == Size(p)
           A(k) == Ancestor(p, x, k)
           B(k) == Ancestor(p, p[x], k)
<1>1. N \in Nat /\ 0 \in 0 .. N /\ N \in 0 .. N
  BY ForestSize
<1>2. p[x] \in DOMAIN p
  BY DEF Forest
<1>3. /\ A(0) = x
      /\ \A k \in 0 .. N : k # N => k + 1 \in 0 .. N /\ A(k + 1) = p[A(k)]
  BY AncestorFacts
<1>4. /\ B(0) = p[x]
      /\ \A k \in 0 .. N : k # N => k + 1 \in 0 .. N /\ B(k + 1) = p[B(k)]
  BY <1>2, AncestorFacts
<1>5. Root(p, x) = A(N) /\ Root(p, p[x]) = B(N)
  BY DEF Root, Size
<1>6. p[A(N)] = A(N)
  BY <1>5, RootIsReached
<1> HIDE DEF A, B, N
<1>7. ASSUME p[x] = x PROVE A(N) = x
  <2> DEFINE T == {k \in 0 .. N : A(k) = x}
  <2>1. 0 \in T
    BY <1>1, <1>3
  <2>2. \A k \in 0 .. N : k # N /\ k \in T => k + 1 \in T
    BY <1>3, <1>7
  <2> HIDE DEF T
  <2>3. N \in T
    BY <1>1, <2>1, <2>2, UpTo
  <2> QED
    BY <2>3 DEF T
<1>8. B(N) = A(N)
  <2> DEFINE T == {k \in 0 .. N : B(k) = p[A(k)]}
  <2>1. 0 \in T
    BY <1>1, <1>3, <1>4
  <2>2. \A k \in 0 .. N : k # N /\ k \in T => k + 1 \in T
    BY <1>3, <1>4
  <2> HIDE DEF T
  <2>3. N \in T
    BY <1>1, <2>1, <2>2, UpTo
  <2> QED
    BY <1>6, <2>3 DEF T
<1> QED
  BY <1>2, <1>5, <1>7, <1>8

\* The nodes of a path have its root, and no node's rank is above its root's.
LEMMA PathFacts ==
    ASSUME NEW p, NEW r, Forest(p, r), NEW x \in DOMAIN p
    PROVE  /\ x \in PathToRoot(p, x)
           /\ \A y \in PathToRoot(p, x) : y \in DOMAIN p /\ Root(p, y) = Root(p, x)
           /\ r[x] <= r[Root(p, x)]
<1> DEFINE N == Size(p)
           A(k) == Ancestor(p, x, k)
           T == {k \in 0 .. N : Root(p, A(k)) = Root(p, x) /\ r[x] <= r[A(k)]}
<1>1. N \in Nat /\ 0 \in 0 .. N /\ N \in 0 .. N
  BY ForestSize
<1>2. /\ A(0) = x
      /\ \A k \in 0 .. N : k # N => k + 1 \in 0 .. N /\ A(k + 1) = p[A(k)]
      /\ \A k \in 0 .. N : A(k) \in DOMAIN p
  BY AncestorFacts
<1>3. Root(p, x) = A(N) /\ PathToRoot(p, x) = {A(k) : k \in 0 .. N}
  BY DEF Root, PathToRoot, Size
<1> HIDE DEF A, N
<1>4. \A k \in DOMAIN p : r[k] \in Nat
  BY DEF Forest
<1>5. 0 \in T
  BY <1>1, <1>2, <1>4
<1>6. ASSUME NEW k \in 0 .. N, k # N, k \in T PROVE k + 1 \in T
  <2>1. k + 1 \in 0 .. N /\ A(k + 1) = p[A(k)] /\ A(k) \in DOMAIN p /\ A(k + 1) \in DOMAIN p
    BY <1>2, <1>6
  <2>2. Root(p, A(k + 1)) = Root(p, A(k))
    BY <2>1, RootOfParent
  <2>3. r[A(k)] <= r[A(k + 1)]
    <3>1. A(k + 1) = A(k) \/ r[A(k)] < r[A(k + 1)]
      BY <2>1 DEF Forest
    <3> QED
      BY <1>4, <2>1, <3>1
  <2>4. r[x] \in Nat /\ r[A(k)] \in Nat /\ r[A(k + 1)] \in Nat /\ r[x] <= r[A(k)]
    BY <1>4, <1>6, <2>1
  <2>5. r[x] <= r[A(k + 1)]
    BY <2>3, <2>4
  <2> QED
    BY <1>6, <2>1, <2>2, <2>5
<1>7. \A k \in 0 .. N : k \in T
  <2> HIDE DEF T
  <2> QED
    BY <1>1, <1>5, <1>6, UpTo
<1> QED
  BY <1>1, <1>2, <1>3, <1>7

\* A node that is not a root has a lower rank than its root.
LEMMA RankBelowRoot ==
    ASSUME NEW p, NEW r, Forest(p, r), NEW x \in DOMAIN p, p[x] # x
    PROVE  r[x] < r[Root(p, x)]
<1>1. p[x] \in DOMAIN p /\ Root(p, p[x]) = Root(p, x)
  BY RootOfParent
<1>2. r[p[x]] <= r[Root(p, x)]
  BY <1>1, PathFacts
<1>3. Root(p, x) \in DOMAIN p
  BY RootIsReached
<1>4. r[x] \in Nat /\ r[p[x]] \in Nat /\ r[Root(p, x)] \in Nat /\ r[x] < r[p[x]]
  BY <1>1, <1>3 DEF Forest
<1> QED
  BY <1>2, <1>4

-----------------------------------------------------------------------------
\* Two forests over the same elements with the same roots for all of them.
SameTrees(p, q) ==
    /\ DOMAIN q = DOMAIN p
    /\ \A y \in DOMAIN p : Root(q, y) = Root(p, y)
    /\ \A y \in DOMAIN p : q[y] = y <=> p[y] = y

\* Compressing a path changes neither the roots nor the order of the ranks.
LEMMA CompressionKeepsTrees ==
    ASSUME NEW p, NEW r, Forest(p, r), NEW x \in DOMAIN p
    PROVE  /\ Forest(Compressed(p, x), r)
           /\ SameTrees(p, Compressed(p, x))
           /\ Compressed(p, x)[x] = Root(p, x)
<1> DEFINE q == Compressed(p, x)
           D == DOMAIN p
           R == [y \in D |-> Root(p, y)]
<1>1. /\ DOMAIN q = D
      /\ \A y \in D : q[y] = IF y \in PathToRoot(p, x) THEN Root(p, x) ELSE p[y]
  BY DEF Compressed
<1>2. Root(p, x) \in D /\ p[Root(p, x)] = Root(p, x)
  BY RootIsReached
<1>3. x \in PathToRoot(p, x) /\ \A y \in PathToRoot(p, x) : Root(p, y) = Root(p, x)
  BY PathFacts
<1>4. \A y \in D : p[y] \in D /\ Root(p, p[y]) = Root(p, y) /\ (p[y] = y => Root(p, y) = y)
  BY RootOfParent
<1>5. \A y \in D : Root(p, y) \in D
  BY RootIsReached
<1> HIDE DEF q
<1>6. q \in [D -> D]
  <2>1. q = [y \in D |-> IF y \in PathToRoot(p, x) THEN Root(p, x) ELSE p[y]]
    BY DEF q, Compressed
  <2> QED
    BY <1>2, <1>4, <2>1
<1>7. \A y \in D : q[y] = y <=> p[y] = y
  <2> TAKE y \in D
  <2>1. CASE y \in PathToRoot(p, x)
    BY <1>1, <1>2, <1>3, <1>4, <2>1
  <2>2. CASE y \notin PathToRoot(p, x)
    BY <1>1, <2>2
  <2> QED
    BY <2>1, <2>2
<1>8. \A y \in D : q[y] # y => r[y] < r[q[y]]
  <2> SUFFICES ASSUME NEW y \in D, q[y] # y PROVE r[y] < r[q[y]]
    OBVIOUS
  <2>1. p[y] # y
    BY <1>7
  <2>2. CASE y \in PathToRoot(p, x)
    <3>1. r[y] < r[Root(p, y)]
      BY <2>1, RankBelowRoot
    <3> QED
      BY <1>1, <1>3, <2>2, <3>1
  <2>3. CASE y \notin PathToRoot(p, x)
    BY <1>1, <2>1, <2>3 DEF Forest
  <2> QED
    BY <2>2, <2>3
<1>9. Forest(q, r)
  BY <1>1, <1>6, <1>8 DEF Forest
<1>10. \A y \in DOMAIN q : R[q[y]] = R[y]
  <2> SUFFICES ASSUME NEW y \in D PROVE R[q[y]] = R[y]
    BY <1>1
  <2>1. CASE y \in PathToRoot(p, x)
    BY <1>1, <1>2, <1>3, <1>4, <2>1
  <2>2. CASE y \notin PathToRoot(p, x)
    BY <1>1, <1>4, <2>2
  <2> QED
    BY <2>1, <2>2
<1>11. \A y \in DOMAIN q : q[y] = y => R[y] = y
  BY <1>1, <1>4, <1>7
<1>12. \A y \in D : Root(q, y) = R[y]
  <2> HIDE DEF R
  <2> QED
    BY <1>1, <1>9, <1>10, <1>11, RootIsOnly
<1>13. q[x] = Root(p, x)
  BY <1>1, <1>3
<1> QED
  BY <1>1, <1>7, <1>9, <1>12, <1>13 DEF SameTrees, q

\* The root that becomes a child, and the one that becomes its parent.
Loser(rx, ry)  == IF rank[rx] < rank[ry] THEN rx ELSE ry
Winner(rx, ry) == IF rank[rx] < rank[ry] THEN ry ELSE rx

\* Linking two roots moves the tree of one of them to the other one.
LEMMA LinkingJoinsTrees ==
    ASSUME NEW p, Forest(p, rank),
           NEW rx \in DOMAIN p, p[rx] = rx, NEW ry \in DOMAIN p, p[ry] = ry, rx # ry
    PROVE  /\ DOMAIN Linked(p, rx, ry) = DOMAIN p
           /\ Forest(Linked(p, rx, ry), Raised(rx, ry))
           /\ \A y \in DOMAIN p :
                 Root(Linked(p, rx, ry), y) =
                     IF Root(p, y) = Loser(rx, ry) THEN Winner(rx, ry) ELSE Root(p, y)
           /\ \A y \in DOMAIN p :
                 Linked(p, rx, ry)[y] = y <=> p[y] = y /\ y # Loser(rx, ry)
<1> DEFINE q == Linked(p, rx, ry)
           r == Raised(rx, ry)
           a == Loser(rx, ry)
           b == Winner(rx, ry)
           D == DOMAIN p
           R == [y \in D |-> IF Root(p, y) = a THEN b ELSE Root(p, y)]
<1>1. /\ a \in D /\ b \in D /\ a # b /\ p[a] = a /\ p[b] = b
      /\ rank[a] \in Nat /\ rank[b] \in Nat
      /\ (a = rx /\ b = ry /\ rank[a] < rank[b]) \/ (a = ry /\ b = rx /\ rank[a] <= rank[b])
  BY DEF Loser, Winner, Forest
<1>2. /\ DOMAIN q = D /\ q \in [D -> D]
      /\ \A y \in D : q[y] = IF y = a THEN b ELSE p[y]
  BY <1>1 DEF Linked, Loser, Winner, Forest
<1>3. /\ r \in [D -> Nat]
      /\ \A y \in D : rank[y] \in Nat /\ r[y] \in Nat /\ rank[y] <= r[y]
      /\ \A y \in D : y # rx => r[y] = rank[y]
      /\ rank[a] = rank[b] => r[b] = rank[b] + 1
  <2>1. rank \in [D -> Nat]
    BY DEF Forest
  <2>2. CASE rank[rx] = rank[ry]
    BY <1>1, <2>1, <2>2 DEF Raised
  <2>3. CASE rank[rx] # rank[ry]
    BY <1>1, <2>1, <2>3 DEF Raised
  <2> QED
    BY <2>2, <2>3
<1>4. \A y \in D : /\ p[y] \in D /\ Root(p, p[y]) = Root(p, y) /\ Root(p, y) \in D
                   /\ p[y] = y => Root(p, y) = y
  BY RootOfParent, RootIsReached
<1> HIDE DEF q, r, a, b
<1>5. \A y \in D : q[y] # y => r[y] < r[q[y]]
  <2> SUFFICES ASSUME NEW y \in D, q[y] # y PROVE r[y] < r[q[y]]
    OBVIOUS
  <2>1. CASE y = a
    <3>1. q[y] = b
      BY <1>2, <2>1
    <3>2. a # rx \/ rank[a] < rank[b]
      BY <1>1
    <3>3. r[a] < r[b]
      <4>1. CASE rank[a] = rank[b]
        <5>1. r[a] = rank[a] /\ r[b] = rank[b] + 1
          BY <1>1, <1>3, <4>1
        <5> QED
          BY <1>1, <4>1, <5>1
      <4>2. CASE rank[a] # rank[b]
        <5>1. rank[a] < rank[b] /\ rank[b] <= r[b] /\ r[b] \in Nat
          BY <1>1, <1>3, <4>2
        <5>2. r[a] = rank[a]
          <6>1. CASE a = rx
            <7>1. rank[rx] # rank[ry]
              BY <1>1, <4>2, <6>1
            <7> QED
              BY <7>1 DEF r, Raised
          <6>2. CASE a # rx
            BY <1>1, <1>3, <6>2
          <6> QED
            BY <6>1, <6>2
        <5> QED
          BY <1>1, <5>1, <5>2
      <4> QED
        BY <4>1, <4>2
    <3> QED
      BY <2>1, <3>1, <3>3
  <2>2. CASE y # a
    <3>1. q[y] = p[y] /\ p[y] # y
      BY <1>2, <2>2
    <3>2. rank[y] < rank[p[y]] /\ p[y] \in D
      BY <1>4, <3>1 DEF Forest
    <3>3. y # rx
      BY <3>1
    <3>4. r[y] = rank[y] /\ rank[p[y]] <= r[p[y]]
      BY <1>3, <3>2, <3>3
    <3>5. rank[y] \in Nat /\ rank[p[y]] \in Nat /\ r[p[y]] \in Nat
      BY <1>3, <3>2
    <3>6. r[y] < r[p[y]]
      BY <3>2, <3>4, <3>5
    <3> QED
      BY <3>1, <3>6
  <2> QED
    BY <2>1, <2>2
<1>6. Forest(q, r)
  BY <1>2, <1>3, <1>5 DEF Forest
<1>7. \A y \in D : q[y] = y <=> p[y] = y /\ y # a
  BY <1>1, <1>2
<1>8. \A y \in DOMAIN q : R[q[y]] = R[y]
  <2> SUFFICES ASSUME NEW y \in D PROVE R[q[y]] = R[y]
    BY <1>2
  <2>1. CASE y = a
    <3>1. q[y] = b /\ Root(p, y) = a /\ Root(p, b) = b
      BY <1>1, <1>2, <1>4, <2>1
    <3> QED
      BY <1>1, <3>1
  <2>2. CASE y # a
    BY <1>2, <1>4, <2>2
  <2> QED
    BY <2>1, <2>2
<1>9. \A y \in DOMAIN q : q[y] = y => R[y] = y
  BY <1>2, <1>4, <1>7
<1>10. \A y \in D : Root(q, y) = R[y]
  <2> HIDE DEF R
  <2> QED
    BY <1>2, <1>6, <1>8, <1>9, RootIsOnly
<1> QED
  BY <1>2, <1>6, <1>7, <1>10 DEF q, r, a, b

-----------------------------------------------------------------------------
\* The partition that the trees are.

\* The tree of an element, and all trees.
Class(p, x) == {y \in DOMAIN p : Root(p, y) = Root(p, x)}
Blocks(p) == {Class(p, x) : x \in DOMAIN p}

Roots(p) == {x \in DOMAIN p : p[x] = x}

\* The trees of the roots are the trees of the elements.
LEMMA TreesAreBlocks ==
    ASSUME NEW p, NEW r, Forest(p, r)
    PROVE  {{y \in DOMAIN p : Root(p, y) = z} : z \in Roots(p)} = Blocks(p)
<1> DEFINE Of(z) == {y \in DOMAIN p : Root(p, y) = z}
<1>1. \A x \in DOMAIN p : Root(p, x) \in Roots(p) /\ Class(p, x) = Of(Root(p, x))
  BY RootIsReached DEF Roots, Class
<1>2. \A z \in Roots(p) : z \in DOMAIN p /\ Of(z) = Class(p, z)
  BY RootOfParent DEF Roots, Class
<1> HIDE DEF Of
<1>3. {Of(z) : z \in Roots(p)} = Blocks(p)
  BY <1>1, <1>2, Zenon DEF Blocks
<1> QED
  BY <1>3 DEF Of

\* Each element is in its block, and in no other.
LEMMA BlocksPartition ==
    ASSUME NEW p
    PROVE  /\ UNION Blocks(p) = DOMAIN p
           /\ \A x \in DOMAIN p : x \in Class(p, x)
           /\ \A x \in DOMAIN p : \A B \in Blocks(p) : x \in B => B = Class(p, x)
           /\ \A x \in DOMAIN p : UNION {B \in Blocks(p) : x \in B} = Class(p, x)
<1>1. \A x \in DOMAIN p : x \in Class(p, x) /\ Class(p, x) \in Blocks(p)
  BY DEF Class, Blocks
<1>2. \A x \in DOMAIN p : \A B \in Blocks(p) : x \in B => B = Class(p, x)
  BY DEF Class, Blocks
<1>3. \A B \in Blocks(p) : B \subseteq DOMAIN p
  BY DEF Class, Blocks
<1>4. UNION Blocks(p) = DOMAIN p
  BY <1>1, <1>3
<1>5. \A x \in DOMAIN p : {B \in Blocks(p) : x \in B} = {Class(p, x)}
  BY <1>1, <1>2
<1> QED
  BY <1>1, <1>2, <1>4, <1>5

LEMMA SameTreesSameBlocks ==
    ASSUME NEW p, NEW q, SameTrees(p, q)
    PROVE  Blocks(q) = Blocks(p) /\ Roots(q) = Roots(p)
<1>1. \A x \in DOMAIN p : Class(q, x) = Class(p, x)
  BY DEF Class, SameTrees
<1>2. Blocks(q) = Blocks(p)
  BY <1>1 DEF Blocks, SameTrees
<1>3. Roots(q) = Roots(p)
  BY DEF Roots, SameTrees
<1> QED
  BY <1>2, <1>3

\* q has the roots of p, but that b, of x and y the one root, stands for a, the
\* other one.
Joins(p, q, x, y, a, b) ==
    /\ DOMAIN q = DOMAIN p
    /\ x \in DOMAIN p /\ y \in DOMAIN p
    /\ {a, b} = {Root(p, x), Root(p, y)}
    /\ \A z \in DOMAIN p : Root(q, z) = IF Root(p, z) = a THEN b ELSE Root(p, z)

\* Two classes in one: what linking does to the blocks.
LEMMA JoinedBlocks ==
    ASSUME NEW p, NEW q, NEW x, NEW y, NEW a, NEW b, Joins(p, q, x, y, a, b)
    PROVE  Blocks(q) = {B \in Blocks(p) : x \notin B /\ y \notin B}
                           \cup {Class(p, x) \cup Class(p, y)}
<1> USE DEF Joins
<1> DEFINE J == Class(p, x) \cup Class(p, y)
<1>0. /\ a = Root(p, x) \/ a = Root(p, y)
      /\ b = Root(p, x) \/ b = Root(p, y)
      /\ Root(p, x) = a \/ Root(p, x) = b
      /\ Root(p, y) = a \/ Root(p, y) = b
  OBVIOUS
<1>1. \A z \in DOMAIN p : z \in J <=> Root(p, z) = a \/ Root(p, z) = b
  BY <1>0 DEF Class
<1>2. \A z \in DOMAIN p : z \in J <=> Root(q, z) = b
  BY <1>1
<1>3. J \subseteq DOMAIN p
  BY DEF Class
<1>4. \A z \in DOMAIN p : z \in J => Class(q, z) = J
  BY <1>2, <1>3 DEF Class
<1>5. \A z \in DOMAIN p : z \notin J => Class(q, z) = Class(p, z)
  <2> SUFFICES ASSUME NEW z \in DOMAIN p, z \notin J PROVE Class(q, z) = Class(p, z)
    OBVIOUS
  <2>1. Root(q, z) = Root(p, z) /\ Root(p, z) # a /\ Root(p, z) # b
    BY <1>1
  <2>2. \A w \in DOMAIN p : Root(q, w) = Root(p, z) <=> Root(p, w) = Root(p, z)
    BY <2>1
  <2> QED
    BY <2>1, <2>2 DEF Class
<1>6. \A z \in DOMAIN p : z \notin J <=> x \notin Class(p, z) /\ y \notin Class(p, z)
  BY DEF Class
<1>7. x \in J
  BY DEF Class
<1> HIDE DEF J
<1>8. ASSUME NEW B \in Blocks(q)
      PROVE  B \in {C \in Blocks(p) : x \notin C /\ y \notin C} \cup {J}
  <2>1. PICK z \in DOMAIN p : B = Class(q, z)
    BY DEF Blocks
  <2>2. CASE z \in J
    BY <1>4, <2>1, <2>2
  <2>3. CASE z \notin J
    BY <1>5, <1>6, <2>1, <2>3 DEF Blocks
  <2> QED
    BY <2>2, <2>3
<1>9. J \in Blocks(q)
  BY <1>4, <1>7 DEF Blocks
<1>10. ASSUME NEW B \in Blocks(p), x \notin B, y \notin B PROVE B \in Blocks(q)
  <2>1. PICK z \in DOMAIN p : B = Class(p, z)
    BY DEF Blocks
  <2>2. z \notin J
    BY <1>6, <1>10, <2>1
  <2> QED
    BY <1>5, <2>1, <2>2 DEF Blocks
<1>11. Blocks(q) = {C \in Blocks(p) : x \notin C /\ y \notin C} \cup {J}
  BY <1>8, <1>9, <1>10
<1> QED
  BY <1>11 DEF J

-----------------------------------------------------------------------------
\* What the calls do to the forest.

\* A forest with one more tree, of an element that it does not have.
LEMMA AdditionAddsTree ==
    ASSUME NEW p, NEW r, Forest(p, r), NEW x, x \notin DOMAIN p,
           NEW q, q = [y \in DOMAIN p \cup {x} |-> IF y = x THEN x ELSE p[y]],
           NEW s, s = [y \in DOMAIN p \cup {x} |-> IF y = x THEN 0 ELSE r[y]]
    PROVE  /\ Forest(q, s)
           /\ Blocks(q) = Blocks(p) \cup {{x}}
           /\ Roots(q) = Roots(p) \cup {x}
<1> DEFINE D == DOMAIN p
           E == D \cup {x}
           R == [y \in E |-> IF y = x THEN x ELSE Root(p, y)]
<1>1. \A y \in D : /\ p[y] \in D /\ y # x /\ p[y] # x
                   /\ Root(p, p[y]) = Root(p, y) /\ Root(p, y) \in D /\ Root(p, y) # x
                   /\ p[y] = y => Root(p, y) = y
  BY RootOfParent, RootIsReached
<1>2. /\ DOMAIN q = E /\ q[x] = x /\ \A y \in D : q[y] = p[y]
      /\ s[x] = 0 /\ \A y \in D : s[y] = r[y]
  BY <1>1
<1>3. Forest(q, s)
  <2>1. IsFiniteSet(E)
    BY FS_AddElement DEF Forest
  <2>2. q \in [E -> E]
    BY <1>1
  <2>3. s \in [E -> Nat]
    BY DEF Forest
  <2>4. \A y \in E : q[y] # y => s[y] < s[q[y]]
    BY <1>1, <1>2 DEF Forest
  <2> QED
    BY <1>2, <2>1, <2>2, <2>3, <2>4 DEF Forest
<1>4. \A y \in DOMAIN q : R[q[y]] = R[y]
  BY <1>1, <1>2
<1>5. \A y \in DOMAIN q : q[y] = y => R[y] = y
  BY <1>1, <1>2
<1>6. \A y \in E : Root(q, y) = R[y]
  <2> HIDE DEF R
  <2> QED
    BY <1>2, <1>3, <1>4, <1>5, RootIsOnly
<1>7. /\ Root(q, x) = x
      /\ \A y \in D : Root(q, y) = Root(p, y) /\ Root(q, y) # x
  BY <1>1, <1>6
<1>8. \A y \in D : Class(q, y) = Class(p, y)
  BY <1>2, <1>7 DEF Class
<1>9. Class(q, x) = {x}
  BY <1>2, <1>7 DEF Class
<1>10. Blocks(q) = Blocks(p) \cup {{x}}
  BY <1>2, <1>8, <1>9 DEF Blocks
<1>11. Roots(q) = Roots(p) \cup {x}
  BY <1>1, <1>2 DEF Roots
<1> QED
  BY <1>3, <1>10, <1>11

\* Compressing another path afterwards leaves an element that points at its
\* root where it is.
LEMMA CompressionKeepsRoot ==
    ASSUME NEW p, NEW r, Forest(p, r), NEW x \in DOMAIN p, p[x] = Root(p, x),
           NEW y \in DOMAIN p
    PROVE  Compressed(p, y)[x] = Root(p, x)
<1>1. x \in PathToRoot(p, y) => Root(p, x) = Root(p, y)
  BY PathFacts
<1> QED
  BY <1>1 DEF Compressed

\* Two calls of Find: both elements point at their roots.
LEMMA BothAreFound ==
    ASSUME NEW p, NEW r, Forest(p, r), NEW x \in DOMAIN p, NEW y \in DOMAIN p,
           NEW q, q = Compressed(Compressed(p, x), y)
    PROVE  Forest(q, r) /\ SameTrees(p, q) /\ q[x] = Root(p, x) /\ q[y] = Root(p, y)
<1> DEFINE m == Compressed(p, x)
<1>1. Forest(m, r) /\ SameTrees(p, m) /\ m[x] = Root(p, x)
  BY CompressionKeepsTrees
<1>2. DOMAIN m = DOMAIN p /\ Root(m, x) = Root(p, x) /\ Root(m, y) = Root(p, y)
  BY <1>1 DEF SameTrees
<1> HIDE DEF m
<1>3. Forest(Compressed(m, y), r) /\ SameTrees(m, Compressed(m, y))
      /\ Compressed(m, y)[y] = Root(m, y)
  BY <1>1, <1>2, CompressionKeepsTrees
<1>4. Compressed(m, y)[x] = Root(m, x)
  BY <1>1, <1>2, CompressionKeepsRoot
<1>5. q = Compressed(m, y)
  BY DEF m
<1>6. SameTrees(p, q)
  BY <1>1, <1>3, <1>5 DEF SameTrees
<1> QED
  BY <1>2, <1>3, <1>4, <1>5, <1>6

\* The inductive invariant: what the types say, and that ranks grow on the way
\* to the root, without which Find need not end at one.
SetsIInv ==
    /\ Added \subseteq Elements
    /\ Forest(parent, rank)
    /\ numSets = Cardinality(Roots(parent))

LEMMA RootsAreFinite ==
    ASSUME NEW p, NEW r, Forest(p, r)
    PROVE  IsFiniteSet(Roots(p)) /\ Cardinality(Roots(p)) \in Nat
<1>1. Roots(p) \in SUBSET DOMAIN p
  BY DEF Roots
<1> QED
  BY <1>1, FS_Subset, FS_CardinalityType DEF Forest

\* The effect of each call on the invariant and on the blocks.
LEMMA AddStep ==
    ASSUME SetsIInv, NEW x \in Elements, Add(x)
    PROVE  /\ SetsIInv'
           /\ x \notin UNION Blocks(parent)
           /\ Blocks(parent') = Blocks(parent) \cup {{x}}
<1>1. /\ x \notin DOMAIN parent /\ Forest(parent, rank)
      /\ parent' = [y \in DOMAIN parent \cup {x} |-> IF y = x THEN x ELSE parent[y]]
      /\ rank' = [y \in DOMAIN parent \cup {x} |-> IF y = x THEN 0 ELSE rank[y]]
      /\ numSets' = numSets + 1
  BY DEF Add, Added, SetsIInv
<1>2. /\ Forest(parent', rank')
      /\ Blocks(parent') = Blocks(parent) \cup {{x}}
      /\ Roots(parent') = Roots(parent) \cup {x}
  BY <1>1, AdditionAddsTree
<1>3. x \notin UNION Blocks(parent)
  BY <1>1, BlocksPartition
<1>4. x \notin Roots(parent)
  BY <1>1 DEF Roots
<1>5. Cardinality(Roots(parent')) = Cardinality(Roots(parent)) + 1
  BY <1>1, <1>2, <1>4, RootsAreFinite, FS_AddElement
<1>6. Added' \subseteq Elements
  BY <1>1 DEF SetsIInv, Added
<1> QED
  BY <1>1, <1>2, <1>3, <1>5, <1>6 DEF SetsIInv

LEMMA FindStep ==
    ASSUME SetsIInv, NEW x, Find(x)
    PROVE  SetsIInv' /\ Blocks(parent') = Blocks(parent)
<1>1. /\ x \in DOMAIN parent /\ Forest(parent, rank) /\ parent' = Compressed(parent, x)
      /\ rank' = rank /\ numSets' = numSets
  BY DEF Find, Added, SetsIInv
<1>2. Forest(parent', rank') /\ SameTrees(parent, parent')
  BY <1>1, CompressionKeepsTrees
<1>3. Blocks(parent') = Blocks(parent) /\ Roots(parent') = Roots(parent)
  BY <1>2, SameTreesSameBlocks
<1>4. Added' \subseteq Elements
  BY <1>2 DEF SetsIInv, Added, SameTrees
<1> QED
  BY <1>1, <1>2, <1>3, <1>4 DEF SetsIInv

LEMMA UnionStep ==
    ASSUME SetsIInv, NEW x, NEW y, Union(x, y)
    PROVE  /\ SetsIInv'
           /\ x \in UNION Blocks(parent) /\ y \in UNION Blocks(parent)
           /\ \/ Blocks(parent') = Blocks(parent)
              \/ Blocks(parent') =
                    {B \in Blocks(parent) : x \notin B /\ y \notin B}
                        \cup {Class(parent, x) \cup Class(parent, y)}
<1> DEFINE found == Compressed(Compressed(parent, x), y)
           rx == Root(parent, x)
           ry == Root(parent, y)
<1>1. x \in DOMAIN parent /\ y \in DOMAIN parent /\ Forest(parent, rank)
      /\ Added \subseteq Elements /\ numSets = Cardinality(Roots(parent))
  BY DEF Union, Added, SetsIInv
<1>2. /\ Forest(found, rank) /\ SameTrees(parent, found) /\ found[x] = rx /\ found[y] = ry
  <2> HIDE DEF rx, ry
  <2> QED
    BY <1>1, BothAreFound DEF rx, ry
<1>3. /\ parent' = Linked(found, rx, ry)
      /\ rank' = Raised(rx, ry)
      /\ numSets' = SetsLeft(rx, ry)
  <2> HIDE DEF found, rx, ry
  <2> QED
    BY <1>2 DEF Union, FoundRoot, found
<1>4. x \in UNION Blocks(parent) /\ y \in UNION Blocks(parent)
  BY <1>1, BlocksPartition
<1>5. Blocks(found) = Blocks(parent) /\ Roots(found) = Roots(parent)
  <2> HIDE DEF found
  <2> QED
    BY <1>2, SameTreesSameBlocks
<1>6. /\ rx \in DOMAIN found /\ found[rx] = rx
      /\ ry \in DOMAIN found /\ found[ry] = ry
      /\ DOMAIN found = DOMAIN parent
  <2>1. rx \in DOMAIN parent /\ parent[rx] = rx /\ ry \in DOMAIN parent /\ parent[ry] = ry
    BY <1>1, RootIsReached
  <2> HIDE DEF found, rx, ry
  <2> QED
    BY <1>2, <2>1 DEF SameTrees
<1>7. \A z \in DOMAIN parent : Root(found, z) = Root(parent, z)
  <2> HIDE DEF found
  <2> QED
    BY <1>2 DEF SameTrees
<1>8. rx = Root(parent, x) /\ ry = Root(parent, y)
  OBVIOUS
<1> HIDE DEF found, rx, ry
<1>9. CASE rx = ry
  <2>1. parent' = found
    BY <1>2, <1>3, <1>6, <1>9 DEF Linked, Forest
  <2>2. rank' = rank /\ numSets' = numSets
    BY <1>3, <1>9 DEF Raised, SetsLeft
  <2> QED
    BY <1>1, <1>2, <1>4, <1>5, <1>6, <2>1, <2>2 DEF SetsIInv, Added
<1>10. CASE rx # ry
  <2> DEFINE a == Loser(rx, ry)
             b == Winner(rx, ry)
  <2>1. /\ DOMAIN parent' = DOMAIN found
        /\ Forest(parent', rank')
        /\ \A z \in DOMAIN found :
              Root(parent', z) = IF Root(found, z) = a THEN b ELSE Root(found, z)
        /\ \A z \in DOMAIN found : parent'[z] = z <=> found[z] = z /\ z # a
    BY <1>2, <1>3, <1>6, <1>10, LinkingJoinsTrees
  <2>2. {a, b} = {rx, ry} /\ a \in {rx, ry}
    BY DEF Loser, Winner
  <2> HIDE DEF a, b
  <2>3. Blocks(parent') = {B \in Blocks(parent) : x \notin B /\ y \notin B}
                              \cup {Class(parent, x) \cup Class(parent, y)}
    <3>1. \A z \in DOMAIN parent :
             Root(parent', z) = IF Root(parent, z) = a THEN b ELSE Root(parent, z)
      BY <1>6, <1>7, <2>1
    <3>2. DOMAIN parent' = DOMAIN parent /\ {a, b} = {Root(parent, x), Root(parent, y)}
      BY <1>6, <1>8, <2>1, <2>2
    <3>3. Joins(parent, parent', x, y, a, b)
      BY <1>1, <3>1, <3>2 DEF Joins
    <3> QED
      BY <3>3, JoinedBlocks
  <2>4. Roots(parent') = Roots(parent) \ {a}
    BY <1>5, <2>1 DEF Roots
  <2>5. a \in Roots(parent)
    BY <1>5, <1>6, <2>2 DEF Roots
  <2>6. Cardinality(Roots(parent')) = Cardinality(Roots(parent)) - 1
    BY <1>1, <2>4, <2>5, RootsAreFinite, FS_RemoveElement
  <2>7. numSets' = Cardinality(Roots(parent'))
    BY <1>1, <1>3, <1>10, <2>6 DEF SetsLeft
  <2>8. Added' \subseteq Elements
    BY <1>1, <1>6, <2>1 DEF Added
  <2> QED
    BY <1>4, <2>1, <2>3, <2>7, <2>8 DEF SetsIInv
<1> QED
  BY <1>9, <1>10

LEMMA SetsInvariance == SetsSpec => []SetsIInv
<1>1. SetsInit => SetsIInv
  <2> SUFFICES ASSUME SetsInit PROVE SetsIInv
    OBVIOUS
  <2>1. parent = << >> /\ rank = << >> /\ numSets = 0
    BY DEF SetsInit
  <2>2. DOMAIN parent = {} /\ DOMAIN rank = {}
    BY <2>1
  <2>3. parent \in [{} -> {}] /\ rank \in [{} -> Nat]
    BY <2>1, <2>2
  <2>4. Forest(parent, rank)
    BY <2>2, <2>3, FS_EmptySet DEF Forest
  <2>5. Roots(parent) = {}
    BY <2>2 DEF Roots
  <2> QED
    BY <2>1, <2>2, <2>4, <2>5, FS_EmptySet DEF SetsIInv, Added
<1>2. SetsIInv /\ [SetsNext]_setVars => SetsIInv'
  <2> SUFFICES ASSUME SetsIInv, [SetsNext]_setVars PROVE SetsIInv'
    OBVIOUS
  <2>1. CASE UNCHANGED setVars
    BY <2>1 DEF setVars, SetsIInv, Added
  <2>2. ASSUME NEW x \in Elements, NEW y \in Elements, Add(x) \/ Find(x) \/ Union(x, y)
        PROVE  SetsIInv'
    BY <2>2, AddStep, FindStep, UnionStep
  <2> QED
    BY <2>1, <2>2 DEF SetsNext
<1> QED
  BY <1>1, <1>2, PTL DEF SetsSpec

\* The forest keeps its types, for every set of elements: no parent is outside
\* it, and there are as many roots as numSets says, whatever Union was called
\* on twice.
THEOREM SetsTypeCorrect == SetsSpec => []SetsTypeOK
<1>1. SetsIInv => SetsTypeOK
  <2>1. {x \in Added : IsRoot(x)} = Roots(parent)
    BY DEF Added, IsRoot, Roots
  <2> QED
    BY <2>1 DEF SetsIInv, SetsTypeOK, Forest, Added
<1> QED
  BY <1>1, SetsInvariance, PTL

\* The first half of RanksBoundTrees: the rank of a node is below its parent's.
RanksGrow == \A x \in Added : ~IsRoot(x) => rank[x] < rank[parent[x]]

\* Find ends at a root: ranks grow on the way up, whatever was linked and
\* compressed, and as many steps as there are elements reach the root.
THEOREM FindEnds ==
    SetsSpec => [](RanksGrow /\ \A x \in Added : IsRoot(Root(parent, x)))
<1>1. SetsIInv => RanksGrow
  BY DEF SetsIInv, Forest, RanksGrow, IsRoot, Added
<1>2. SetsIInv => \A x \in Added : IsRoot(Root(parent, x))
  BY RootIsReached DEF SetsIInv, IsRoot, Added
<1> QED
  BY <1>1, <1>2, SetsInvariance, PTL

\* The forest implements the partition, for every set of elements: adding an
\* element makes a block of it, Union makes one block of the two elements'
\* blocks or, when that is one block already, changes none, and neither Find nor
\* the compressions that Union makes on its way move an element.
THEOREM SetsImplementPartition == SetsSpec => ImplementsPartition
<1> DEFINE Trees == {Tree(r) : r \in {x \in Added : IsRoot(x)}}
<1>1. SetsIInv => Trees = Blocks(parent)
  BY TreesAreBlocks DEF SetsIInv, Tree, IsRoot, Added, Roots
<1>2. SetsIInv' => Trees' = Blocks(parent')
  <2> SUFFICES ASSUME SetsIInv' PROVE Trees' = Blocks(parent')
    OBVIOUS
  <2>1. Forest(parent', rank')
    BY DEF SetsIInv
  <2>2. {{y \in DOMAIN parent' : Root(parent', y) = z} : z \in Roots(parent')}
            = Blocks(parent')
    BY <2>1, TreesAreBlocks
  <2> QED
    BY <2>2 DEF Tree, IsRoot, Added, Roots
<1>3. SetsInit => AsPartition!Init
  <2>1. SetsInit => Added = {}
    BY DEF SetsInit, Added
  <2> QED
    BY <2>1 DEF AsPartition!Init
<1>4. SetsIInv /\ SetsIInv' /\ [SetsNext]_setVars => [AsPartition!Next]_(AsPartition!vars)
  <2> SUFFICES ASSUME SetsIInv, SetsIInv', [SetsNext]_setVars
               PROVE  [AsPartition!Next]_(AsPartition!vars)
    OBVIOUS
  <2>1. Trees = Blocks(parent) /\ Trees' = Blocks(parent')
    BY <1>1, <1>2
  <2>2. Blocks(parent') = Blocks(parent) => AsPartition!vars' = AsPartition!vars
    BY <2>1 DEF AsPartition!vars
  <2>3. CASE UNCHANGED setVars
    BY <2>2, <2>3 DEF setVars
  <2>4. ASSUME NEW x \in Elements, Add(x) PROVE AsPartition!Next
    <3>1. AsPartition!Add(x)
      BY <2>1, <2>4, AddStep DEF AsPartition!Add
    <3> QED
      BY <3>1 DEF AsPartition!Next
  <2>5. ASSUME NEW x \in Elements, Find(x) PROVE AsPartition!vars' = AsPartition!vars
    BY <2>2, <2>5, FindStep
  <2>6. ASSUME NEW x \in Elements, NEW y \in Elements, Union(x, y)
        PROVE  [AsPartition!Next]_(AsPartition!vars)
    <3>1. x \in UNION Blocks(parent) /\ y \in UNION Blocks(parent)
      BY <2>6, UnionStep
    <3>2. CASE Blocks(parent') = Blocks(parent)
      BY <2>2, <3>2
    <3>3. CASE Blocks(parent') =
                   {B \in Blocks(parent) : x \notin B /\ y \notin B}
                       \cup {Class(parent, x) \cup Class(parent, y)}
      <4>1. x \in DOMAIN parent /\ y \in DOMAIN parent
        BY <3>1, BlocksPartition
      <4>2. /\ UNION {B \in Blocks(parent) : x \in B} = Class(parent, x)
            /\ UNION {B \in Blocks(parent) : y \in B} = Class(parent, y)
        BY <4>1, BlocksPartition
      <4>3. AsPartition!Union(x, y)
        BY <2>1, <3>1, <3>3, <4>2 DEF AsPartition!Union, AsPartition!BlockOf
      <4> QED
        BY <4>3 DEF AsPartition!Next
    <3> QED
      BY <2>6, <3>2, <3>3, UnionStep
  <2> QED
    BY <2>3, <2>4, <2>5, <2>6 DEF SetsNext
<1> QED
  BY <1>3, <1>4, SetsInvariance, PTL DEF SetsSpec, ImplementsPartition, AsPartition!Spec

-----------------------------------------------------------------------------
\* The variables and the generators.

USE NumVarsAssumption

LEMMA VariablesAreFinite ==
    /\ IsFiniteSet(Variables)
    /\ Cardinality(Variables) = NumVars
    /\ \A v \in Variables : v \in Int /\ v > 0 /\ v \in Literal /\ Variable(v) = v
<1>1. 1 \in Int /\ NumVars \in Int
  OBVIOUS
<1>2. IsFiniteSet(Variables) /\ Cardinality(Variables) = NumVars
  BY <1>1, FS_Interval DEF Variables
<1>3. \A v \in Variables : v \in Int /\ v > 0 /\ v \in Literal /\ Variable(v) = v
  BY DEF Variables, Literal, Variable
<1> QED
  BY <1>2, <1>3

\* A map of the literals that is one to one and compatible with negation.
LEMMA GeneratorFacts ==
    ASSUME group \in Groups, NEW g \in Generators
    PROVE  /\ \A l \in Literal : group[g][l] \in Literal
           /\ \A l, m \in Literal : group[g][l] = group[g][m] => l = m
           /\ \A l \in Literal : -l \in Literal /\ group[g][-l] = -group[g][l]
           /\ \E v \in Variables : Moves(g, v)
<1>1. group \in Seq([Literal -> Literal])
  BY GroupsAssumption
<1>2. group[g] \in [Literal -> Literal]
  BY <1>1, LenProperties, ElementOfSeq DEF Generators
<1>3. IsInjective(group[g]) /\ \E l \in Literal : group[g][l] # l
  BY GroupsAssumption DEF Generators
<1>4. \A l \in Literal : l \in Int /\ l # 0 /\ -l \in Literal /\ -(-l) = l
  BY DEF Literal
<1>5. \A l \in Literal : group[g][-l] = -group[g][l]
  BY GroupsAssumption DEF Generators, Negated
<1>6. \A l \in Literal : group[g][l] \in Literal
  BY <1>2
<1>7. \A l, m \in Literal : group[g][l] = group[g][m] => l = m
  BY <1>2, <1>3 DEF IsInjective
<1>8. \E v \in Variables : Moves(g, v)
  <2>1. PICK l \in Literal : group[g][l] # l
    BY <1>3
  <2>2. CASE l > 0
    BY <2>1, <2>2 DEF Moves, Variables, Literal
  <2>3. CASE ~(l > 0)
    <3>1. -l \in Variables
      BY <2>3 DEF Variables, Literal
    <3>2. group[g][-l] = -group[g][l] /\ group[g][l] \in Int /\ l \in Int
      BY <1>4, <1>5, <1>6
    <3>3. group[g][-l] # -l
      BY <2>1, <3>2
    <3> QED
      BY <3>1, <3>3 DEF Moves
  <2> QED
    BY <2>2, <2>3
<1> QED
  BY <1>4, <1>5, <1>6, <1>7, <1>8

\* The variables that generators move.
MovedBy(gens) == {v \in Variables : \E g \in gens : Moves(g, v)}

\* A generator leads from a variable that it moves to one that it moves.
LEMMA MovedVariablesAreClosed ==
    ASSUME group \in Groups, NEW gens \in SUBSET Generators
    PROVE  IsClosed(MovedBy(gens), gens)
<1>1. SUFFICES ASSUME NEW g \in gens, NEW v \in MovedBy(gens)
               PROVE  Variable(group[g][v]) \in MovedBy(gens)
  BY DEF IsClosed
<1> DEFINE y == group[g][v]
           w == Variable(y)
<1>2. v \in Variables /\ v \in Literal /\ v \in Int /\ v > 0
  BY VariablesAreFinite DEF MovedBy
<1>3. /\ y \in Literal
      /\ \A l, m \in Literal : group[g][l] = group[g][m] => l = m
      /\ \A l \in Literal : -l \in Literal /\ group[g][-l] = -group[g][l]
  BY <1>2, GeneratorFacts
<1>4. /\ y \in Int /\ w \in Variables /\ w \in Literal /\ w \in Int /\ w > 0
      /\ y = w \/ y = -w
  BY <1>3 DEF Variable, Variables, Literal
<1>5. CASE y = v
  <2>1. w = v
    BY <1>2, <1>5 DEF Variable
  <2> QED
    BY <2>1
<1>6. CASE y # v
  <2>1. group[g][w] # w
    <3> SUFFICES ASSUME group[g][w] = w PROVE FALSE
      OBVIOUS
    <3>1. CASE y = w
      BY <1>2, <1>3, <1>4, <1>6, <3>1
    <3>2. CASE y = -w
      <4>1. group[g][-w] = -w /\ -w \in Literal
        BY <1>3, <1>4
      <4>2. -w = v
        BY <1>2, <1>3, <3>2, <4>1
      <4> QED
        BY <1>2, <1>4, <4>2
    <3> QED
      BY <1>4, <3>1, <3>2
  <2> QED
    BY <1>4, <2>1 DEF MovedBy, Moves
<1> QED
  BY <1>5, <1>6

\* Generators have orbits, which are made of variables that they move.
LEMMA OrbitsExist ==
    ASSUME group \in Groups, NEW gens \in SUBSET Generators, gens # {}
    PROVE  /\ OrbitsOf(gens) # {}
           /\ IsFiniteSet(OrbitsOf(gens))
           /\ \A orbit \in OrbitsOf(gens) : orbit # {} /\ orbit \subseteq MovedBy(gens)
<1> DEFINE M == MovedBy(gens)
           closed == {S \in SUBSET M : IsClosed(S, gens)}
           sizes == {Cardinality(S) : S \in closed \ {{}}}
<1>1. OrbitsOf(gens) = {S \in closed \ {{}} : \A T \in closed \ {{}} : T \subseteq S => T = S}
  BY DEF OrbitsOf, MovedBy
<1>2. M \subseteq Variables /\ IsFiniteSet(M) /\ M # {}
  <2>1. M \in SUBSET Variables
    BY DEF MovedBy
  <2>2. PICK g \in gens : TRUE
    OBVIOUS
  <2>3. \E v \in Variables : Moves(g, v)
    BY GeneratorFacts
  <2>4. M # {}
    BY <2>3 DEF MovedBy
  <2> QED
    BY <2>1, <2>4, VariablesAreFinite, FS_Subset
<1> HIDE DEF M
<1>3. M \in closed \ {{}}
  BY <1>2, MovedVariablesAreClosed DEF M
<1>4. \A S \in closed : IsFiniteSet(S) /\ Cardinality(S) \in Nat
  BY <1>2, FS_Subset, FS_CardinalityType
<1>5. sizes \subseteq Nat /\ sizes # {}
  BY <1>3, <1>4
<1>6. PICK a \in sizes : \A b \in sizes : a <= b
  <2> HIDE DEF sizes
  <2> QED
    BY <1>5, LeastElement
<1>7. PICK S \in closed \ {{}} : a = Cardinality(S)
  OBVIOUS
<1>8. ASSUME NEW T \in closed \ {{}}, T \subseteq S PROVE T = S
  <2>1. IsFiniteSet(S) /\ T \in SUBSET S
    BY <1>4, <1>7, <1>8
  <2>2. Cardinality(T) <= Cardinality(S) /\ (Cardinality(S) = Cardinality(T) => S = T)
    BY <2>1, FS_Subset
  <2>3. Cardinality(S) <= Cardinality(T)
    BY <1>6, <1>7
  <2>4. Cardinality(S) \in Nat /\ Cardinality(T) \in Nat
    BY <1>4, <1>7
  <2> QED
    BY <2>2, <2>3, <2>4
<1>9. S \in OrbitsOf(gens)
  BY <1>1, <1>7, <1>8
<1>10. IsFiniteSet(OrbitsOf(gens))
  <2>1. OrbitsOf(gens) \in SUBSET SUBSET M
    BY <1>1
  <2>2. IsFiniteSet(SUBSET M)
    BY <1>2, FS_SUBSET
  <2> QED
    BY <2>1, <2>2, FS_Subset
<1> QED
  BY <1>1, <1>9, <1>10 DEF M

-----------------------------------------------------------------------------
\* The pick of one turn of BreakIDOrder's loop.

\* An orbit has a variable that is better than its others: of those that the
\* fewest generators move, the first one.
LEMMA BestOfOrbit ==
    ASSUME group \in Groups, queue \subseteq Generators,
           NEW orbit \in SUBSET Variables, orbit # {}
    PROVE  \E v \in orbit : \A w \in orbit \ {v} : IsBetter(v, w)
<1> DEFINE numbers == {OccurenceInGenerators(v) : v \in orbit}
<1>1. IsFiniteSet(queue)
  <2>1. group \in Seq([Literal -> Literal])
    BY GroupsAssumption
  <2>2. Generators = 1 .. Len(group) /\ Len(group) \in Nat
    BY <2>1, LenProperties DEF Generators
  <2>3. 1 \in Int /\ Len(group) \in Int
    BY <2>2
  <2>4. IsFiniteSet(1 .. Len(group))
    BY <2>3, FS_Interval
  <2> QED
    BY <2>2, <2>4, FS_Subset
<1>2. \A v : OccurenceInGenerators(v) \in Nat
  <2>1. \A v : {g \in queue : Moves(g, v)} \in SUBSET queue
    OBVIOUS
  <2>2. \A v : IsFiniteSet({g \in queue : Moves(g, v)})
    BY <1>1, <2>1, FS_Subset
  <2> QED
    BY <2>2, FS_CardinalityType DEF OccurenceInGenerators
<1>3. numbers \subseteq Nat /\ numbers # {}
  BY <1>2
<1>4. PICK a \in numbers : \A b \in numbers : a <= b
  <2> HIDE DEF numbers
  <2> QED
    BY <1>3, LeastElement
<1> DEFINE least == {v \in orbit : OccurenceInGenerators(v) = a}
<1>5. least \subseteq Nat /\ least # {}
  BY <1>4 DEF Variables
<1>6. PICK v \in least : \A w \in least : v <= w
  <2> HIDE DEF least
  <2> QED
    BY <1>5, LeastElement
<1>7. ASSUME NEW w \in orbit \ {v} PROVE IsBetter(v, w)
  <2>1. OccurenceInGenerators(w) \in Nat /\ a \in Nat /\ a <= OccurenceInGenerators(w)
    BY <1>2, <1>4
  <2>2. OccurenceInGenerators(v) = a /\ v \in Int /\ w \in Int /\ v # w
    BY <1>6, VariablesAreFinite
  <2>3. CASE OccurenceInGenerators(w) = a
    <3>1. v <= w
      BY <1>6, <2>3
    <3> QED
      BY <2>2, <2>3, <3>1 DEF IsBetter
  <2>4. CASE OccurenceInGenerators(w) # a
    BY <2>1, <2>2, <2>4 DEF IsBetter
  <2> QED
    BY <2>3, <2>4
<1> QED
  BY <1>6, <1>7

LEMMA FoundRecursion ==
    ASSUME NEW visits, Len(visits) \in Nat
    PROVE  \A k \in 0 .. Len(visits) :
               FoundUpTo(visits)[k] =
                   IF k = 0 THEN [next |-> NoVariable, largest |-> 0]
                            ELSE VisitOrbit(FoundUpTo(visits)[k - 1], visits[k])
<1> DEFINE Step(f, k) == IF k = 0 THEN [next |-> NoVariable, largest |-> 0]
                                  ELSE VisitOrbit(f[k - 1], visits[k])
           Bad == {n \in 0 .. Len(visits) : ~ \E f : f = [k \in 0 .. n |-> Step(f, k)]}
<1>1. Bad = {}
  <2>1. SUFFICES ASSUME Bad # {} PROVE FALSE
    OBVIOUS
  <2>2. Bad \subseteq Nat
    OBVIOUS
  <2>3. PICK n \in Bad : \A m \in Bad : n <= m
    BY <2>1, <2>2, LeastElement
  <2>4. n # 0
    <3>1. LET f == [k \in 0 .. 0 |-> Step(<< >>, k)] IN f = [k \in 0 .. 0 |-> Step(f, k)]
      OBVIOUS
    <3> QED
      BY <3>1
  <2>5. n - 1 \in 0 .. Len(visits) /\ n - 1 \notin Bad
    <3>1. n \in 0 .. Len(visits)
      BY <2>3
    <3> HIDE DEF Bad, Step
    <3>2. n - 1 \in 0 .. Len(visits) /\ ~(n <= n - 1)
      BY <2>4, <3>1
    <3> QED
      BY <2>3, <3>2
  <2>6. PICK g : g = [k \in 0 .. n - 1 |-> Step(g, k)]
    BY <2>5
  <2> DEFINE f == [k \in 0 .. n |-> IF k = n THEN Step(g, n) ELSE g[k]]
  <2>7. ASSUME NEW k \in 0 .. n PROVE f[k] = Step(f, k)
    <3>1. CASE k = 0
      <4>1. 0 \in 0 .. n - 1 /\ f[0] = g[0] /\ g[0] = Step(g, 0)
        BY <2>4, <2>5, <2>6
      <4> QED
        BY <3>1, <4>1
    <3>2. CASE k # 0
      <4>1. k - 1 \in 0 .. n - 1 /\ k - 1 \in 0 .. n /\ k - 1 # n
        BY <2>5, <3>2
      <4>2. f[k - 1] = g[k - 1]
        BY <4>1
      <4>3. Step(f, k) = Step(g, k)
        <5> HIDE DEF f
        <5> QED
          BY <3>2, <4>2
      <4>4. f[k] = Step(g, k)
        <5>1. CASE k = n
          BY <5>1
        <5>2. CASE k # n
          <6>1. k \in 0 .. n - 1
            BY <2>5, <5>2
          <6> QED
            BY <2>6, <5>2, <6>1
        <5> QED
          BY <5>1, <5>2
      <4> QED
        BY <4>3, <4>4
    <3> QED
      BY <3>1, <3>2
  <2>8. f = [k \in 0 .. n |-> Step(f, k)]
    BY <2>7
  <2> QED
    BY <2>3, <2>8
<1>2. \E f : f = [k \in 0 .. Len(visits) |-> Step(f, k)]
  <2>1. Len(visits) \in 0 .. Len(visits) /\ Len(visits) \notin Bad
    <3> HIDE DEF Bad
    <3> QED
      BY <1>1
  <2> HIDE DEF Step
  <2> QED
    BY <2>1
<1>3. FoundUpTo(visits) = [k \in 0 .. Len(visits) |-> Step(FoundUpTo(visits), k)]
  <2>1. FoundUpTo(visits) = CHOOSE f : f = [k \in 0 .. Len(visits) |-> Step(f, k)]
    BY DEF FoundUpTo
  <2> HIDE DEF Step
  <2> QED
    BY <1>2, <2>1
<1> QED
  BY <1>3

\* Whatever the order in which the orbits are visited, the loop finds a
\* variable that a generator of Q moves.
LEMMA NextIsMoved ==
    ASSUME group \in Groups, queue \subseteq Generators, queue # {},
           NEW visits \in SetToSeqs(OrbitsOf(queue))
    PROVE  NextVariable(visits) \in MovedBy(queue)
<1> DEFINE m == Len(visits)
           found == FoundUpTo(visits)
           Wrong == {k \in 1 .. m : found[k].next \notin MovedBy(queue)}
<1>1. /\ OrbitsOf(queue) # {} /\ IsFiniteSet(OrbitsOf(queue))
      /\ \A orbit \in OrbitsOf(queue) : orbit # {} /\ orbit \subseteq MovedBy(queue)
  BY OrbitsExist
<1>2. visits \in [1 .. Cardinality(OrbitsOf(queue)) -> OrbitsOf(queue)]
  BY DEF SetToSeqs
<1>3. Cardinality(OrbitsOf(queue)) \in Nat /\ Cardinality(OrbitsOf(queue)) # 0
  BY <1>1, FS_CardinalityType, FS_EmptySet
<1>4. visits \in Seq(OrbitsOf(queue))
  BY <1>2, <1>3, SeqDef
<1>5. m \in Nat /\ m = Cardinality(OrbitsOf(queue)) /\ m > 0
  <2>1. m \in Nat /\ DOMAIN visits = 1 .. m
    BY <1>4, LenProperties
  <2>2. 1 .. m = 1 .. Cardinality(OrbitsOf(queue))
    BY <1>2, <2>1
  <2> HIDE DEF m
  <2> QED
    BY <1>3, <2>1, <2>2
<1>6. \A k \in 1 .. m : visits[k] \in OrbitsOf(queue)
  BY <1>2, <1>5
<1>7. found[0] = [next |-> NoVariable, largest |-> 0]
      /\ \A k \in 1 .. m : found[k] = VisitOrbit(found[k - 1], visits[k])
  <2>1. \A k \in 0 .. m : found[k] =
            IF k = 0 THEN [next |-> NoVariable, largest |-> 0]
                     ELSE VisitOrbit(found[k - 1], visits[k])
    BY <1>5, FoundRecursion
  <2> HIDE DEF m, found
  <2> QED
    BY <1>5, <2>1
<1> HIDE DEF m, found
<1>8. ASSUME NEW k \in 1 .. m
      PROVE  \/ found[k].next \in visits[k]
             \/ found[k] = found[k - 1] /\ k # 1
  <2> DEFINE orbit == visits[k]
             best == CHOOSE v \in orbit : \A w \in orbit \ {v} : IsBetter(v, w)
  <2>1. orbit \subseteq MovedBy(queue) /\ orbit # {}
    BY <1>1, <1>6
  <2>2. orbit \in SUBSET Variables
    BY <2>1 DEF MovedBy
  <2>3. best \in orbit
    <3> HIDE DEF orbit
    <3>1. \E v \in orbit : \A w \in orbit \ {v} : IsBetter(v, w)
      BY <2>1, <2>2, BestOfOrbit
    <3> QED
      BY <3>1
  <2>4. found[k] = IF /\ Cardinality(orbit) >= found[k - 1].largest
                      /\ IsBetter(best, found[k - 1].next)
                   THEN [next |-> best, largest |-> Cardinality(orbit)]
                   ELSE found[k - 1]
    BY <1>7 DEF VisitOrbit
  <2>5. CASE k = 1
    <3>1. Cardinality(orbit) \in Nat
      BY <2>2, VariablesAreFinite, FS_Subset, FS_CardinalityType
    <3>2. found[k - 1] = [next |-> NoVariable, largest |-> 0]
      BY <1>7, <2>5
    <3> HIDE DEF best, orbit
    <3>3. IsBetter(best, found[k - 1].next) /\ Cardinality(orbit) >= found[k - 1].largest
      BY <3>1, <3>2 DEF IsBetter
    <3>4. found[k].next = best
      BY <2>4, <3>3
    <3> QED
      BY <2>3, <3>4 DEF orbit
  <2>6. CASE k # 1
    <3> HIDE DEF best, orbit
    <3>1. found[k].next = best \/ found[k] = found[k - 1]
      BY <2>4
    <3> QED
      BY <2>3, <2>6, <3>1 DEF orbit
  <2> QED
    BY <2>5, <2>6
<1>9. Wrong = {}
  <2>1. SUFFICES ASSUME Wrong # {} PROVE FALSE
    OBVIOUS
  <2>2. Wrong \subseteq Nat
    OBVIOUS
  <2>3. PICK k \in Wrong : \A i \in Wrong : k <= i
    <3> HIDE DEF Wrong
    <3> QED
      BY <2>1, <2>2, LeastElement
  <2>4. k \in 1 .. m /\ found[k].next \notin visits[k]
    BY <1>1, <1>6, <2>3
  <2>5. found[k] = found[k - 1] /\ k # 1
    BY <1>8, <2>4
  <2>6. k - 1 \in 1 .. m /\ ~(k <= k - 1)
    BY <1>5, <2>4, <2>5
  <2>7. k - 1 \in Wrong
    BY <2>3, <2>5, <2>6
  <2> QED
    BY <2>3, <2>6, <2>7
<1>10. found[m].next \in MovedBy(queue)
  <2>1. m \in 1 .. m
    BY <1>5
  <2> QED
    BY <1>9, <2>1
<1> QED
  BY <1>10 DEF NextVariable, m, found

-----------------------------------------------------------------------------
\* Sequences without a repetition.

LEMMA AppendNew ==
    ASSUME NEW S, NEW s \in Seq(S), IsInjective(s), NEW e \in S, e \notin ToSet(s)
    PROVE  /\ Append(s, e) \in Seq(S)
           /\ IsInjective(Append(s, e))
           /\ ToSet(Append(s, e)) = ToSet(s) \cup {e}
<1> DEFINE t == Append(s, e)
           n == Len(s)
<1>1. /\ n \in Nat /\ DOMAIN s = 1 .. n
      /\ t \in Seq(S) /\ DOMAIN t = 1 .. n + 1
      /\ \A i \in 1 .. n : t[i] = s[i]
      /\ t[n + 1] = e
  BY AppendProperties, LenProperties
<1> HIDE DEF t, n
<1>2. \A i \in 1 .. n + 1 : i \in 1 .. n \/ i = n + 1
  BY <1>1
<1>3. \A i \in 1 .. n : s[i] # e
  BY <1>1 DEF ToSet
<1>4. ASSUME NEW i \in 1 .. n + 1, NEW j \in 1 .. n + 1, t[i] = t[j] PROVE i = j
  <2>1. CASE i \in 1 .. n /\ j \in 1 .. n
    BY <1>1, <1>4, <2>1 DEF IsInjective
  <2>2. CASE i \notin 1 .. n \/ j \notin 1 .. n
    BY <1>1, <1>2, <1>3, <1>4, <2>2
  <2> QED
    BY <2>1, <2>2
<1>5. IsInjective(t)
  BY <1>1, <1>4 DEF IsInjective
<1>6. \A i \in 1 .. n : i \in 1 .. n + 1
  BY <1>1
<1>7. n + 1 \in 1 .. n + 1
  BY <1>1
<1>8. ToSet(t) = ToSet(s) \cup {e}
  BY <1>1, <1>2, <1>6, <1>7, Zenon DEF ToSet
<1> QED
  BY <1>1, <1>5, <1>8 DEF t

LEMMA ConcatNew ==
    ASSUME NEW S, NEW s \in Seq(S), NEW t \in Seq(S), IsInjective(s), IsInjective(t),
           \A x \in ToSet(s) : x \notin ToSet(t)
    PROVE  /\ s \o t \in Seq(S)
           /\ IsInjective(s \o t)
           /\ ToSet(s \o t) = ToSet(s) \cup ToSet(t)
<1> DEFINE u == s \o t
           n == Len(s)
           m == Len(t)
<1>1. /\ n \in Nat /\ DOMAIN s = 1 .. n
      /\ m \in Nat /\ DOMAIN t = 1 .. m
      /\ u \in Seq(S) /\ DOMAIN u = 1 .. n + m
      /\ \A i \in 1 .. n + m : u[i] = IF i <= n THEN s[i] ELSE t[i - n]
  BY ConcatProperties, LenProperties
<1> HIDE DEF u, n, m
<1>2. \A i \in 1 .. n + m :
          \/ i \in 1 .. n /\ u[i] = s[i]
          \/ i - n \in 1 .. m /\ u[i] = t[i - n] /\ i \notin 1 .. n
  BY <1>1
<1>3. \A i \in 1 .. n, j \in 1 .. m : s[i] # t[j]
  BY <1>1 DEF ToSet
<1>4. ASSUME NEW i \in 1 .. n + m, NEW j \in 1 .. n + m, u[i] = u[j] PROVE i = j
  <2>1. CASE i \in 1 .. n /\ j \in 1 .. n
    BY <1>1, <1>2, <1>4, <2>1 DEF IsInjective
  <2>2. CASE i \in 1 .. n /\ j \notin 1 .. n
    BY <1>2, <1>3, <1>4, <2>2
  <2>3. CASE i \notin 1 .. n /\ j \in 1 .. n
    BY <1>2, <1>3, <1>4, <2>3
  <2>4. CASE i \notin 1 .. n /\ j \notin 1 .. n
    <3>1. i - n \in 1 .. m /\ j - n \in 1 .. m /\ t[i - n] = t[j - n]
      BY <1>2, <1>4, <2>4
    <3>2. i - n = j - n
      BY <1>1, <3>1 DEF IsInjective
    <3> QED
      BY <1>1, <3>2
  <2> QED
    BY <2>1, <2>2, <2>3, <2>4
<1>5. IsInjective(u)
  BY <1>1, <1>4 DEF IsInjective
<1>6. ToSet(u) \subseteq ToSet(s) \cup ToSet(t)
  BY <1>1, <1>2 DEF ToSet
<1>7. ToSet(s) \subseteq ToSet(u)
  <2>1. \A i \in 1 .. n : i \in 1 .. n + m /\ u[i] = s[i]
    BY <1>1
  <2> QED
    BY <1>1, <2>1 DEF ToSet
<1>8. ToSet(t) \subseteq ToSet(u)
  <2>1. \A i \in 1 .. m : n + i \in 1 .. n + m /\ u[n + i] = t[i]
    <3> TAKE i \in 1 .. m
    <3>1. n + i \in 1 .. n + m /\ ~(n + i <= n) /\ (n + i) - n = i
      BY <1>1
    <3> QED
      BY <1>1, <3>1
  <2>2. \A i \in DOMAIN t : \E j \in DOMAIN u : t[i] = u[j]
    BY <1>1, <2>1
  <2> QED
    BY <2>2, Zenon DEF ToSet
<1> QED
  BY <1>1, <1>5, <1>6, <1>7, <1>8 DEF u

\* A sequence of NumVars variables without a repetition lists them all.
LEMMA ListOfAll ==
    ASSUME NEW s \in [Variables -> Variables], IsInjective(s)
    PROVE  s \in Seq(Variables) /\ ToSet(s) = Variables
<1>1. s \in Seq(Variables)
  BY SeqDef DEF Variables
<1>2. s \in Injection(Variables, Variables)
  BY DEF Injection, IsInjective
<1>3. s \in Surjection(Variables, Variables)
  BY <1>2, VariablesAreFinite, FS_Injection
<1>4. \A v \in Variables : \E i \in Variables : s[i] = v
  BY <1>3 DEF Surjection
<1>5. DOMAIN s = Variables /\ \A i \in Variables : s[i] \in Variables
  OBVIOUS
<1>6. ToSet(s) = Variables
  BY <1>4, <1>5 DEF ToSet
<1> QED
  BY <1>1, <1>6

-----------------------------------------------------------------------------
\* What is left of the variables when Q is empty.

LEMMA RemainingRecursion ==
    \A k \in 0 .. NumVars :
        RemainingUpTo[k] = IF k = 0 THEN << >>
                           ELSE IF k \in ToSet(order) THEN RemainingUpTo[k - 1]
                           ELSE Append(RemainingUpTo[k - 1], k)
<1> DEFINE Step(f, k) == IF k = 0 THEN << >>
                         ELSE IF k \in ToSet(order) THEN f[k - 1]
                         ELSE Append(f[k - 1], k)
           Bad == {n \in 0 .. NumVars : ~ \E f : f = [k \in 0 .. n |-> Step(f, k)]}
<1>1. Bad = {}
  <2>1. SUFFICES ASSUME Bad # {} PROVE FALSE
    OBVIOUS
  <2>2. Bad \subseteq Nat
    OBVIOUS
  <2>3. PICK n \in Bad : \A m \in Bad : n <= m
    BY <2>1, <2>2, LeastElement
  <2>4. n # 0
    <3>1. LET f == [k \in 0 .. 0 |-> Step(<< >>, k)] IN f = [k \in 0 .. 0 |-> Step(f, k)]
      OBVIOUS
    <3> QED
      BY <3>1
  <2>5. n - 1 \in 0 .. NumVars /\ n - 1 \notin Bad
    <3>1. n \in 0 .. NumVars
      BY <2>3
    <3> HIDE DEF Bad, Step
    <3>2. n - 1 \in 0 .. NumVars /\ ~(n <= n - 1)
      BY <2>4, <3>1
    <3> QED
      BY <2>3, <3>2
  <2>6. PICK g : g = [k \in 0 .. n - 1 |-> Step(g, k)]
    BY <2>5
  <2> DEFINE f == [k \in 0 .. n |-> IF k = n THEN Step(g, n) ELSE g[k]]
  <2>7. ASSUME NEW k \in 0 .. n PROVE f[k] = Step(f, k)
    <3>1. CASE k = 0
      <4>1. 0 \in 0 .. n - 1 /\ f[0] = g[0] /\ g[0] = Step(g, 0)
        BY <2>4, <2>5, <2>6
      <4> QED
        BY <3>1, <4>1
    <3>2. CASE k # 0
      <4>1. k - 1 \in 0 .. n - 1 /\ k - 1 \in 0 .. n /\ k - 1 # n
        BY <2>5, <3>2
      <4>2. f[k - 1] = g[k - 1]
        BY <4>1
      <4>3. Step(f, k) = Step(g, k)
        <5> HIDE DEF f
        <5> QED
          BY <3>2, <4>2
      <4>4. f[k] = Step(g, k)
        <5>1. CASE k = n
          BY <5>1
        <5>2. CASE k # n
          <6>1. k \in 0 .. n - 1
            BY <2>5, <5>2
          <6> QED
            BY <2>6, <5>2, <6>1
        <5> QED
          BY <5>1, <5>2
      <4> QED
        BY <4>3, <4>4
    <3> QED
      BY <3>1, <3>2
  <2>8. f = [k \in 0 .. n |-> Step(f, k)]
    BY <2>7
  <2> QED
    BY <2>3, <2>8
<1>2. \E f : f = [k \in 0 .. NumVars |-> Step(f, k)]
  <2>1. NumVars \in 0 .. NumVars /\ NumVars \notin Bad
    <3> HIDE DEF Bad
    <3> QED
      BY <1>1
  <2> HIDE DEF Step
  <2> QED
    BY <2>1
<1> DEFINE IsRecursion(f) == f = [k \in 0 .. NumVars |-> Step(f, k)]
<1>3. IsRecursion(RemainingUpTo)
  <2>1. RemainingUpTo = CHOOSE f : IsRecursion(f)
    BY DEF RemainingUpTo
  <2>2. \E f : IsRecursion(f)
    BY <1>2
  <2> HIDE DEF IsRecursion
  <2> QED
    BY <2>1, <2>2, Zenon
<1> QED
  BY <1>3

\* s lists, without a repetition, those of the first k variables that are not
\* in the order.
ListsTheRest(s, k) ==
    /\ s \in Seq(Variables)
    /\ IsInjective(s)
    /\ ToSet(s) = {v \in Variables : v <= k /\ v \notin ToSet(order)}

LEMMA RemainingFacts == ListsTheRest(RemainingUpTo[NumVars], NumVars)
<1> DEFINE Wrong == {k \in 0 .. NumVars : ~ListsTheRest(RemainingUpTo[k], k)}
<1>1. Wrong = {}
  <2>1. SUFFICES ASSUME Wrong # {} PROVE FALSE
    OBVIOUS
  <2>2. Wrong \subseteq Nat
    OBVIOUS
  <2>3. PICK k \in Wrong : \A i \in Wrong : k <= i
    <3> HIDE DEF Wrong
    <3> QED
      BY <2>1, <2>2, LeastElement
  <2>4. k \in 0 .. NumVars /\ ~ListsTheRest(RemainingUpTo[k], k)
    BY <2>3
  <2>5. k # 0
    <3> SUFFICES ASSUME k = 0 PROVE FALSE
      OBVIOUS
    <3>1. RemainingUpTo[k] = << >>
      BY <2>4, RemainingRecursion
    <3>2. << >> \in Seq(Variables) /\ IsInjective(<< >>) /\ ToSet(<< >>) = {}
      BY EmptySeq DEF IsInjective, ToSet
    <3>3. {v \in Variables : v <= k /\ v \notin ToSet(order)} = {}
      BY DEF Variables
    <3> QED
      BY <2>4, <3>1, <3>2, <3>3 DEF ListsTheRest
  <2>6. k - 1 \in 0 .. NumVars /\ ~(k <= k - 1) /\ k \in Variables
    BY <2>4, <2>5 DEF Variables
  <2> DEFINE s == RemainingUpTo[k - 1]
  <2>7. ListsTheRest(s, k - 1)
    BY <2>3, <2>6
  <2>8. \A v \in Variables : v <= k <=> (v <= k - 1 \/ v = k)
    BY <2>4 DEF Variables
  <2>9. ~(k <= k - 1)
    BY <2>6
  <2>10. RemainingUpTo[k] = IF k \in ToSet(order) THEN s ELSE Append(s, k)
    BY <2>4, <2>5, RemainingRecursion
  <2> HIDE DEF s, Wrong
  <2>11. CASE k \in ToSet(order)
    <3>1. {v \in Variables : v <= k /\ v \notin ToSet(order)} =
          {v \in Variables : v <= k - 1 /\ v \notin ToSet(order)}
      BY <2>8, <2>11
    <3> QED
      BY <2>4, <2>7, <2>10, <2>11, <3>1 DEF ListsTheRest
  <2>12. CASE k \notin ToSet(order)
    <3>1. {v \in Variables : v <= k /\ v \notin ToSet(order)} =
          {v \in Variables : v <= k - 1 /\ v \notin ToSet(order)} \cup {k}
      BY <2>6, <2>8, <2>12
    <3>2. k \notin ToSet(s)
      BY <2>7, <2>9 DEF ListsTheRest
    <3>3. /\ Append(s, k) \in Seq(Variables) /\ IsInjective(Append(s, k))
          /\ ToSet(Append(s, k)) = ToSet(s) \cup {k}
      BY <2>6, <2>7, <3>2, AppendNew DEF ListsTheRest
    <3> QED
      BY <2>4, <2>7, <2>10, <2>12, <3>1, <3>3 DEF ListsTheRest
  <2> QED
    BY <2>11, <2>12
<1>2. NumVars \in 0 .. NumVars
  OBVIOUS
<1> QED
  BY <1>1, <1>2

-----------------------------------------------------------------------------
\* The inductive invariant: no variable is in the order twice, and nothing is
\* in it before the constructor of the kind asked for starts.
OrderIInv ==
    /\ OrderTypeOK
    /\ OrderIsRight
    /\ IsInjective(order)
    /\ orderPhase = "create" => order = << >>

\* What an action that ends the construction has to add.
CompletesTheOrder(s) ==
    /\ s \in Seq(Variables)
    /\ IsInjective(s)
    /\ ToSet(s) = Variables \ ToSet(order)

LEMMA AddAllEnds ==
    ASSUME OrderIInv, NEW s, CompletesTheOrder(s), AddAll(s),
           UNCHANGED <<group, counts, mode, queue>>
    PROVE  OrderIInv'
<1>1. order \in Seq(Variables) /\ IsInjective(order)
  BY DEF OrderIInv, OrderTypeOK
<1>2. /\ s \in Seq(Variables) /\ IsInjective(s)
      /\ \A x \in ToSet(order) : x \notin ToSet(s)
  BY DEF CompletesTheOrder
<1>3. /\ order \o s \in Seq(Variables) /\ IsInjective(order \o s)
      /\ ToSet(order \o s) = ToSet(order) \cup ToSet(s)
  BY <1>1, <1>2, ConcatNew
<1>4. order' = order \o s /\ orderPhase' = "ordered"
  BY <1>3 DEF AddAll
<1>5. ToSet(order) \subseteq Variables
  BY <1>1, LenProperties, ElementOfSeq DEF ToSet
<1>6. ToSet(order \o s) = Variables
  BY <1>3, <1>5 DEF CompletesTheOrder
<1>7. IsInjective(order') /\ ToSet(order') = Variables
  BY <1>3, <1>4, <1>6
<1>8. OrderTypeOK'
  BY <1>3, <1>4 DEF OrderIInv, OrderTypeOK, Generators
<1>9. NoVariable \notin Variables
  BY DEF NoVariable, Variables
<1>10. OrderListsVariables'
  BY <1>4, <1>7, <1>9 DEF OrderListsVariables
<1> QED
  BY <1>4, <1>7, <1>8, <1>10 DEF OrderIInv, OrderIsRight, QueueIsStabilizer

\* A list of all variables may be added to the order that has none.
LEMMA AllVariablesComplete ==
    ASSUME order = << >>, NEW s \in [Variables -> Variables], IsInjective(s)
    PROVE  CompletesTheOrder(s)
<1>1. s \in Seq(Variables) /\ ToSet(s) = Variables
  BY ListOfAll
<1>2. ToSet(order) = {}
  BY EmptySeq DEF ToSet
<1> QED
  BY <1>1, <1>2 DEF CompletesTheOrder

LEMMA CreateIncreaseStep ==
    ASSUME OrderIInv, CreateIncrease PROVE OrderIInv'
<1> DEFINE s == [v \in Variables |-> v]
<1>1. s \in [Variables -> Variables] /\ IsInjective(s)
  BY DEF IsInjective
<1>2. order = << >> /\ AddAll(s) /\ UNCHANGED <<group, counts, mode, queue>>
  BY DEF CreateIncrease, OrderIInv
<1> HIDE DEF s
<1> QED
  BY <1>1, <1>2, AllVariablesComplete, AddAllEnds

\* OrderLt is strict, so that a sorted sequence repeats no variable.
LEMMA CreateOccurenceStep ==
    ASSUME OrderIInv, CreateOccurence PROVE OrderIInv'
<1>1. PICK s \in SortedVariables : AddAll(s)
  BY DEF CreateOccurence
<1>2. s \in [Variables -> Variables]
      /\ \A i, j \in Variables : i < j => OrderLt(s[i], s[j])
  BY DEF SortedVariables
<1>3. \A v \in Variables : ~OrderLt(v, v)
  BY VariablesAreFinite DEF OrderLt
<1>4. ASSUME NEW i \in Variables, NEW j \in Variables, s[i] = s[j] PROVE i = j
  <2>1. ~OrderLt(s[i], s[j]) /\ ~OrderLt(s[j], s[i])
    BY <1>2, <1>3, <1>4
  <2>2. ~(i < j) /\ ~(j < i)
    BY <1>2, <2>1
  <2> QED
    BY <2>2, VariablesAreFinite
<1>5. IsInjective(s)
  BY <1>2, <1>4 DEF IsInjective
<1>6. order = << >> /\ UNCHANGED <<group, counts, mode, queue>>
  BY DEF CreateOccurence, OrderIInv
<1> QED
  BY <1>1, <1>2, <1>5, <1>6, AllVariablesComplete, AddAllEnds

LEMMA CreateBreakIDStep ==
    ASSUME OrderIInv, CreateBreakID PROVE OrderIInv'
<1>1. /\ order = << >> /\ orderPhase' = "breakid" /\ queue' = Generators
      /\ UNCHANGED <<group, counts, mode, order>>
  BY DEF CreateBreakID, OrderIInv
<1>2. ToSet(order) = {}
  BY <1>1, EmptySeq DEF ToSet
<1>3. OrderTypeOK'
  BY <1>1 DEF OrderIInv, OrderTypeOK, Generators
<1>4. QueueIsStabilizer'
  BY <1>1, <1>2 DEF QueueIsStabilizer, Generators
<1>5. OrderListsVariables'
  BY <1>1, <1>2 DEF OrderListsVariables
<1> QED
  BY <1>1, <1>3, <1>4, <1>5 DEF OrderIInv, OrderIsRight

\* The variable found is not in the order: a generator of Q moves it, and the
\* generators of Q fix what is in the order.
LEMMA PickNextStep ==
    ASSUME OrderIInv, PickNext PROVE OrderIInv'
<1>1. PICK visits \in SetToSeqs(OrbitsOf(queue)) :
          LET next == NextVariable(visits)
          IN  IF next \in ToSet(order)
              THEN /\ orderPhase' = "aborted"
                   /\ UNCHANGED <<order, queue>>
              ELSE /\ order' = Append(order, next)
                   /\ queue' = Filtered(next)
                   /\ UNCHANGED orderPhase
  BY DEF PickNext
<1> DEFINE next == NextVariable(visits)
<1>2. /\ group \in Groups /\ queue \subseteq Generators /\ queue # {}
      /\ order \in Seq(Variables) /\ IsInjective(order) /\ orderPhase = "breakid"
      /\ queue = {g \in Generators : \A v \in ToSet(order) : ~Moves(g, v)}
      /\ UNCHANGED <<group, counts, mode>>
  BY DEF OrderIInv, OrderTypeOK, OrderIsRight, QueueIsStabilizer, PickNext
<1>3. next \in MovedBy(queue)
  BY <1>2, NextIsMoved
<1> HIDE DEF next
<1>4. next \in Variables /\ next \notin ToSet(order)
  BY <1>2, <1>3 DEF MovedBy
<1>5. order' = Append(order, next) /\ queue' = Filtered(next) /\ orderPhase' = orderPhase
  BY <1>1, <1>4 DEF next
<1>6. /\ order' \in Seq(Variables) /\ IsInjective(order')
      /\ ToSet(order') = ToSet(order) \cup {next}
  BY <1>2, <1>4, <1>5, AppendNew
<1>7. queue' = {g \in queue : ~Moves(g, next)}
  BY <1>5 DEF Filtered
<1>8. OrderTypeOK'
  BY <1>2, <1>5, <1>6, <1>7 DEF OrderIInv, OrderTypeOK, Generators
<1>9. QueueIsStabilizer'
  <2>1. queue' = {g \in Generators : \A v \in ToSet(order') : ~Moves(g, v)}
    BY <1>2, <1>6, <1>7
  <2> QED
    BY <1>2, <2>1 DEF QueueIsStabilizer, Generators, Moves
<1>10. OrderListsVariables'
  <2>1. NoVariable \notin ToSet(order) /\ NoVariable # next
    BY <1>4 DEF OrderIInv, OrderIsRight, OrderListsVariables, NoVariable, Variables
  <2> QED
    BY <1>2, <1>5, <1>6, <2>1 DEF OrderListsVariables
<1> QED
  BY <1>2, <1>5, <1>6, <1>8, <1>9, <1>10 DEF OrderIInv, OrderIsRight

LEMMA CompleteOrderStep ==
    ASSUME OrderIInv, CompleteOrder PROVE OrderIInv'
<1> DEFINE s == RemainingUpTo[NumVars]
<1>1. ListsTheRest(s, NumVars)
  BY RemainingFacts
<1>2. AddAll(s) /\ UNCHANGED <<group, counts, mode, queue>>
  BY DEF CompleteOrder
<1> HIDE DEF s
<1>3. \A v \in Variables : v <= NumVars
  BY DEF Variables
<1>4. CompletesTheOrder(s)
  BY <1>1, <1>3 DEF ListsTheRest, CompletesTheOrder
<1> QED
  BY <1>2, <1>4, AddAllEnds

LEMMA OrderInvariance == OrderSpec => []OrderIInv
<1>1. OrderInit => OrderIInv
  <2> SUFFICES ASSUME OrderInit PROVE OrderIInv
    OBVIOUS
  <2>1. order = << >> /\ orderPhase = "create" /\ queue = {}
    BY DEF OrderInit
  <2>2. << >> \in Seq(Variables) /\ ToSet(<< >>) = {} /\ IsInjective(<< >>)
    BY EmptySeq DEF ToSet, IsInjective
  <2>3. OrderTypeOK
    BY <2>1, <2>2 DEF OrderInit, OrderTypeOK
  <2> QED
    BY <2>1, <2>2, <2>3 DEF OrderIInv, OrderIsRight, QueueIsStabilizer, OrderListsVariables
<1>2. OrderIInv /\ [OrderNext]_orderVars => OrderIInv'
  <2> SUFFICES ASSUME OrderIInv, [OrderNext]_orderVars PROVE OrderIInv'
    OBVIOUS
  <2>1. CASE CreateIncrease
    BY <2>1, CreateIncreaseStep
  <2>2. CASE CreateOccurence
    BY <2>2, CreateOccurenceStep
  <2>3. CASE CreateBreakID
    BY <2>3, CreateBreakIDStep
  <2>4. CASE PickNext
    BY <2>4, PickNextStep
  <2>5. CASE CompleteOrder
    BY <2>5, CompleteOrderStep
  <2>6. CASE UNCHANGED orderVars
    BY <2>6 DEF orderVars, OrderIInv, OrderTypeOK, OrderIsRight, QueueIsStabilizer,
                OrderListsVariables, Generators, Moves
  <2> QED
    BY <2>1, <2>2, <2>3, <2>4, <2>5, <2>6 DEF OrderNext
<1> QED
  BY <1>1, <1>2, PTL DEF OrderSpec

\* The constructor's variables keep their types, for every number of variables
\* and every group: the order holds variables only, and Q generators only.
THEOREM OrderTypeCorrect == OrderSpec => []OrderTypeOK
<1>1. OrderIInv => OrderTypeOK
  BY DEF OrderIInv
<1> QED
  BY <1>1, OrderInvariance, PTL

\* Whichever kind of order is asked for, whatever the group, the occurences
\* and the order in which the hash table gives the orbits: no CHECK of
\* Order::add fails, each variable is listed once when the constructor ends,
\* and BreakIDOrder's loop keeps exactly the generators that fix every variable
\* it picked.
THEOREM OrderCorrect == OrderSpec => []OrderIsRight
<1>1. OrderIInv => OrderIsRight
  BY DEF OrderIInv
<1> QED
  BY <1>1, OrderInvariance, PTL

=============================================================================
