------------------------ MODULE SymmetryGroupProofs ------------------------
(***************************************************************************)
(* Theorems about how the generators come to be, for every number of       *)
(* variables, every problem and whatever automorphisms the tool reports:   *)
(* the permutation that is built while the cycles are walked follows the   *)
(* automorphism, and those that the group lets in are symmetries of the    *)
(* clauses.                                                                *)
(***************************************************************************)
EXTENDS SymmetryGroup, TLAPS, SequenceTheorems, FiniteSetTheorems

USE NumVarsAssumption, SomeVariableAssumption

-----------------------------------------------------------------------------
\* Numbers and literals.

\* Sets of natural numbers have a least element.
LEMMA LeastElement ==
    ASSUME NEW T, T \subseteq Nat, T # {}
    PROVE  \E x \in T : \A y \in T : x <= y
<1>1. PICK x \in T : \A y \in T : <<y, x>> \notin OpToRel(<, Nat)
  BY WFMin, NatLessThanWellFounded, Zenon
<1>2. \A y \in T : ~(y < x)
  BY <1>1, T \subseteq Nat, Zenon DEF OpToRel
<1>3. \A y \in T : x <= y
  BY <1>2
<1> QED
  BY <1>3

\* Sets of natural numbers that are bounded have a largest one, which is what
\* Max denotes.
LEMMA MaxProperties ==
    ASSUME NEW T, NEW b \in Nat, T \subseteq 0 .. b, T # {}
    PROVE  /\ Max(T) \in T
           /\ \A y \in T : y <= Max(T)
<1> DEFINE D == {d \in 0 .. b : b - d \in T}
<1>1. D \subseteq Nat /\ D # {}
  <2>1. PICK x \in T : TRUE
    OBVIOUS
  <2>2. x \in 0 .. b
    OBVIOUS
  <2>3. b - x \in 0 .. b /\ b - (b - x) = x
    BY <2>2
  <2>4. b - x \in D
    BY <2>3
  <2>5. D \subseteq Nat
    OBVIOUS
  <2> QED
    BY <2>4, <2>5
<1>2. PICK d \in D : \A e \in D : d <= e
  BY <1>1, LeastElement
<1>3. ASSUME NEW y \in T PROVE b - d >= y
  <2>1. b - y \in 0 .. b /\ b - (b - y) = y
    OBVIOUS
  <2>2. d <= b - y
    BY <1>2, <2>1
  <2> QED
    BY <1>2, <2>2
<1>4. b - d \in T
  BY <1>2
<1> QED
  BY <1>3, <1>4 DEF Max

\* The literals of the first n variables and their nodes.
LiteralsUpTo(n) == {l \in Literal : Variable(l) <= n}
LiteralNodes(n) == 0 .. 2 * n - 1

LEMMA LiteralFacts ==
    \A l \in Literal :
        /\ l \in Int /\ l # 0
        /\ Negated(l) \in Literal /\ Negated(Negated(l)) = l
        /\ Variable(Negated(l)) = Variable(l)
        /\ Variable(l) \in Variables
  BY DEF Literal, Negated, Variable, Variables

LEMMA NodeFacts ==
    ASSUME NEW n \in Variables
    PROVE  /\ \A l \in LiteralsUpTo(n) :
                 /\ Literal2Node(l, n) \in LiteralNodes(n)
                 /\ Node2Literal(Literal2Node(l, n), n) = l
                 /\ Negated(l) \in LiteralsUpTo(n)
           /\ \A x \in LiteralNodes(n) :
                 /\ Node2Literal(x, n) \in LiteralsUpTo(n)
                 /\ Literal2Node(Node2Literal(x, n), n) = x
  BY DEF LiteralsUpTo, LiteralNodes, Literal2Node, Node2Literal, Literal,
         Variable, Variables, Negated

-----------------------------------------------------------------------------
\* The nodes of the clauses.

\* A problem whose variables are among the first n.
IsProblem(n, cs) ==
    /\ n \in Variables
    /\ cs \in Seq(SUBSET LiteralsUpTo(n))

LEMMA NodeClausesRecursion ==
    ASSUME NEW T, NEW cs \in Seq(T)
    PROVE  \A k \in 0 .. Len(cs) :
               NodeClausesUpTo(cs)[k] =
                   IF k = 0 THEN << >>
                   ELSE IF Cardinality(cs[k]) = 2 THEN NodeClausesUpTo(cs)[k - 1]
                   ELSE Append(NodeClausesUpTo(cs)[k - 1], cs[k])
<1> DEFINE Step(f, k) == IF k = 0 THEN << >>
                         ELSE IF Cardinality(cs[k]) = 2 THEN f[k - 1]
                         ELSE Append(f[k - 1], cs[k])
           Bad == {n \in 0 .. Len(cs) : ~ \E f : f = [k \in 0 .. n |-> Step(f, k)]}
<1>0. Len(cs) \in Nat
  BY LenProperties
<1>1. Bad = {}
  <2>1. SUFFICES ASSUME Bad # {} PROVE FALSE
    OBVIOUS
  <2>2. Bad \subseteq Nat
    BY <1>0
  <2>3. PICK n \in Bad : \A m \in Bad : n <= m
    BY <2>1, <2>2, LeastElement
  <2>4. n # 0
    <3>1. LET f == [k \in 0 .. 0 |-> Step(<< >>, k)] IN f = [k \in 0 .. 0 |-> Step(f, k)]
      OBVIOUS
    <3> QED
      BY <3>1, <1>0
  <2>5. n - 1 \in 0 .. Len(cs) /\ n - 1 \notin Bad
    <3>1. n \in 0 .. Len(cs)
      BY <2>3
    <3> HIDE DEF Bad, Step
    <3>2. n - 1 \in 0 .. Len(cs) /\ ~(n <= n - 1)
      BY <2>4, <3>1, <1>0
    <3> QED
      BY <2>3, <3>2
  <2>6. PICK g : g = [k \in 0 .. n - 1 |-> Step(g, k)]
    BY <2>5
  <2> DEFINE f == [k \in 0 .. n |-> IF k = n THEN Step(g, n) ELSE g[k]]
  <2>7. ASSUME NEW k \in 0 .. n PROVE f[k] = Step(f, k)
    <3>1. CASE k = 0
      <4>1. 0 \in 0 .. n - 1 /\ f[0] = g[0] /\ g[0] = Step(g, 0)
        BY <2>4, <2>5, <2>6
      <4> QED
        BY <3>1, <4>1
    <3>2. CASE k # 0
      <4>1. k - 1 \in 0 .. n - 1 /\ k - 1 \in 0 .. n /\ k - 1 # n
        BY <2>5, <3>2
      <4>2. f[k - 1] = g[k - 1]
        BY <4>1
      <4>3. Step(f, k) = Step(g, k)
        <5> HIDE DEF f
        <5> QED
          BY <3>2, <4>2
      <4>4. f[k] = Step(g, k)
        <5>1. CASE k = n
          BY <5>1
        <5>2. CASE k # n
          <6>1. k \in 0 .. n - 1
            BY <2>5, <5>2
          <6> QED
            BY <2>6, <5>2, <6>1
        <5> QED
          BY <5>1, <5>2
      <4> QED
        BY <4>3, <4>4
    <3> QED
      BY <3>1, <3>2
  <2>8. f = [k \in 0 .. n |-> Step(f, k)]
    BY <2>7
  <2> QED
    BY <2>3, <2>8
<1>2. \E f : f = [k \in 0 .. Len(cs) |-> Step(f, k)]
  <2>1. Len(cs) \in 0 .. Len(cs) /\ Len(cs) \notin Bad
    <3> HIDE DEF Bad
    <3> QED
      BY <1>0, <1>1
  <2> HIDE DEF Step
  <2> QED
    BY <2>1
<1>3. NodeClausesUpTo(cs) = [k \in 0 .. Len(cs) |-> Step(NodeClausesUpTo(cs), k)]
  <2>1. NodeClausesUpTo(cs) = CHOOSE f : f = [k \in 0 .. Len(cs) |-> Step(f, k)]
    BY DEF NodeClausesUpTo
  <2> HIDE DEF Step
  <2> QED
    BY <1>2, <2>1
<1> QED
  BY <1>3

\* The clauses with a node are those that are not binary.
NodeClausesMatch(cs, k) ==
    LET given == NodeClausesUpTo(cs)[k]
    IN  /\ given \in Seq({cs[i] : i \in 1 .. Len(cs)})
        /\ \A j \in 1 .. Len(given) : Cardinality(given[j]) # 2
        /\ \A i \in 1 .. k : Cardinality(cs[i]) # 2 =>
               \E j \in 1 .. Len(given) : given[j] = cs[i]

LEMMA NodeClausesFacts ==
    ASSUME NEW T, NEW cs \in Seq(T)
    PROVE  /\ Len(NodeClauses(cs)) \in Nat
           /\ DOMAIN NodeClauses(cs) = 1 .. Len(NodeClauses(cs))
           /\ \A j \in 1 .. Len(NodeClauses(cs)) :
                 /\ Cardinality(NodeClauses(cs)[j]) # 2
                 /\ \E i \in 1 .. Len(cs) : NodeClauses(cs)[j] = cs[i]
           /\ \A i \in 1 .. Len(cs) : Cardinality(cs[i]) # 2 =>
                 \E j \in 1 .. Len(NodeClauses(cs)) : NodeClauses(cs)[j] = cs[i]
<1> DEFINE C == {cs[i] : i \in 1 .. Len(cs)}
           Bad == {k \in 0 .. Len(cs) : ~NodeClausesMatch(cs, k)}
<1>0. Len(cs) \in Nat
  BY LenProperties
<1>1. Bad = {}
  <2>1. SUFFICES ASSUME Bad # {} PROVE FALSE
    OBVIOUS
  <2>2. PICK k \in Bad : \A m \in Bad : k <= m
    <3>1. Bad \subseteq Nat
      BY <1>0
    <3> QED
      BY <2>1, <3>1, LeastElement
  <2>3. k \in 0 .. Len(cs) /\ ~NodeClausesMatch(cs, k)
    BY <2>2
  <2>4. k # 0
    <3>1. ASSUME k = 0 PROVE FALSE
      <4>1. NodeClausesUpTo(cs)[k] = << >>
        BY <2>3, <3>1, NodeClausesRecursion
      <4>2. Len(<< >>) = 0 /\ << >> \in Seq(C)
        BY EmptySeq
      <4>3. NodeClausesMatch(cs, k)
        BY <3>1, <4>1, <4>2 DEF NodeClausesMatch
      <4> QED
        BY <2>3, <4>3
    <3> QED
      BY <3>1
  <2>5. k - 1 \in 0 .. Len(cs) /\ NodeClausesMatch(cs, k - 1)
    <3>1. k - 1 \in 0 .. Len(cs) /\ ~(k <= k - 1)
      BY <1>0, <2>3, <2>4
    <3>2. k - 1 \notin Bad
      <4> HIDE DEF Bad
      <4> QED
        BY <2>2, <3>1
    <3> QED
      BY <3>1, <3>2
  <2> DEFINE old == NodeClausesUpTo(cs)[k - 1]
             given == NodeClausesUpTo(cs)[k]
  <2>6. /\ old \in Seq(C)
        /\ \A j \in 1 .. Len(old) : Cardinality(old[j]) # 2
        /\ \A i \in 1 .. k - 1 : Cardinality(cs[i]) # 2 =>
               \E j \in 1 .. Len(old) : old[j] = cs[i]
    BY <2>5 DEF NodeClausesMatch
  <2>7. given = IF Cardinality(cs[k]) = 2 THEN old ELSE Append(old, cs[k])
    BY <2>3, <2>4, NodeClausesRecursion
  <2>8. k \in 1 .. Len(cs) /\ cs[k] \in C
    BY <1>0, <2>3, <2>4
  <2>9. \A i : i \in 1 .. k <=> i \in 1 .. k - 1 \/ i = k
    BY <1>0, <2>8
  <2> HIDE DEF old, given, C
  <2>10. CASE Cardinality(cs[k]) = 2
    <3>1. given = old
      BY <2>7, <2>10
    <3>2. \A i \in 1 .. k : Cardinality(cs[i]) # 2 => \E j \in 1 .. Len(given) : given[j] = cs[i]
      BY <2>6, <2>9, <2>10, <3>1
    <3>3. NodeClausesMatch(cs, k)
      BY <2>6, <3>1, <3>2 DEF NodeClausesMatch, given, C
    <3> QED
      BY <2>3, <3>3
  <2>11. CASE Cardinality(cs[k]) # 2
    <3>1. given = Append(old, cs[k])
      BY <2>7, <2>11
    <3>2. /\ given \in Seq(C)
          /\ Len(given) = Len(old) + 1
          /\ \A j \in 1 .. Len(old) : given[j] = old[j]
          /\ given[Len(old) + 1] = cs[k]
      BY <2>6, <2>8, <3>1, AppendProperties
    <3>3. Len(old) \in Nat
      BY <2>6, LenProperties
    <3>4. \A j : j \in 1 .. Len(given) <=> j \in 1 .. Len(old) \/ j = Len(old) + 1
      BY <3>2, <3>3
    <3>5. \A j \in 1 .. Len(given) : Cardinality(given[j]) # 2
      BY <2>6, <2>11, <3>2, <3>4
    <3>6. \A i \in 1 .. k : Cardinality(cs[i]) # 2 => \E j \in 1 .. Len(given) : given[j] = cs[i]
      BY <2>6, <2>9, <3>2, <3>4
    <3>7. NodeClausesMatch(cs, k)
      BY <3>2, <3>5, <3>6 DEF NodeClausesMatch, given, C
    <3> QED
      BY <2>3, <3>7
  <2> QED
    BY <2>10, <2>11
<1>2. NodeClausesMatch(cs, Len(cs))
  BY <1>0, <1>1
<1>3. /\ NodeClauses(cs) \in Seq(C)
      /\ \A j \in 1 .. Len(NodeClauses(cs)) : Cardinality(NodeClauses(cs)[j]) # 2
      /\ \A i \in 1 .. Len(cs) : Cardinality(cs[i]) # 2 =>
             \E j \in 1 .. Len(NodeClauses(cs)) : NodeClauses(cs)[j] = cs[i]
  BY <1>2 DEF NodeClausesMatch, NodeClauses
<1>4. \A j \in 1 .. Len(NodeClauses(cs)) : NodeClauses(cs)[j] \in C
  BY <1>3, ElementOfSeq
<1> QED
  BY <1>3, <1>4, LenProperties

-----------------------------------------------------------------------------
\* The automorphisms of the graph.

LEMMA NodesAreFinite ==
    ASSUME NEW n, NEW cs, IsProblem(n, cs)
    PROVE  /\ n \in Nat \ {0} /\ n <= NumVars /\ n \in Variables
           /\ cs \in Seq(SUBSET LiteralsUpTo(n))
           /\ Len(NodeClauses(cs)) \in Nat
           /\ NumNodes(n, cs) \in Nat
           /\ NumNodes(n, cs) = 2 * n + Len(NodeClauses(cs))
           /\ \A x : x \in Nodes(n, cs) <=> x \in Int /\ 0 <= x /\ x < NumNodes(n, cs)
           /\ \A x \in Nodes(n, cs) : IsLiteralNode(x, n) <=> x \in LiteralNodes(n)
           /\ LiteralNodes(n) \subseteq Nodes(n, cs)
           /\ IsFiniteSet(Nodes(n, cs))
<1>1. n \in Nat \ {0} /\ n <= NumVars /\ n \in Variables /\ cs \in Seq(SUBSET LiteralsUpTo(n))
  BY DEF IsProblem, Variables
<1>2. Len(NodeClauses(cs)) \in Nat
  BY <1>1, NodeClausesFacts
<1>3. NumNodes(n, cs) \in Nat /\ NumNodes(n, cs) = 2 * n + Len(NodeClauses(cs))
  BY <1>1, <1>2 DEF NumNodes
<1>4. \A x : x \in Nodes(n, cs) <=> x \in Int /\ 0 <= x /\ x < NumNodes(n, cs)
  BY <1>3 DEF Nodes
<1>5. \A x \in Nodes(n, cs) : IsLiteralNode(x, n) <=> x \in LiteralNodes(n)
  BY <1>1, <1>4 DEF IsLiteralNode, LiteralNodes
<1>6. LiteralNodes(n) \subseteq Nodes(n, cs)
  BY <1>1, <1>2, <1>3, <1>4 DEF LiteralNodes
<1>7. IsFiniteSet(Nodes(n, cs))
  BY <1>3, FS_Interval DEF Nodes
<1> QED
  BY <1>1, <1>2, <1>3, <1>4, <1>5, <1>6, <1>7

\* The images node x may get when those of map g are taken.
FreeImages(g, x, n, cs) ==
    LET color == [y \in Nodes(n, cs) |-> Color(y, n, cs)]
    IN  {y \in Nodes(n, cs) : color[y] = color[x] /\ y \notin Range(g)}

\* The maps with an image of node k - 1 that extend those given.
ExtendedMaps(maps, k, n, cs) ==
    UNION {{Extended(g, k - 1, y) : y \in FreeImages(g, k - 1, n, cs)} : g \in maps}

LEMMA ColorMapsRecursion ==
    ASSUME NEW n, NEW cs, IsProblem(n, cs)
    PROVE  \A k \in 0 .. NumNodes(n, cs) :
               ColorMaps(n, cs)[k] =
                   IF k = 0 THEN {<< >>}
                   ELSE ExtendedMaps(ColorMaps(n, cs)[k - 1], k, n, cs)
<1> DEFINE N == NumNodes(n, cs)
           Next(maps, k) == ExtendedMaps(maps, k, n, cs)
           Step(f, k) == IF k = 0 THEN {<< >>} ELSE Next(f[k - 1], k)
           Bad == {m \in 0 .. N : ~ \E f : f = [k \in 0 .. m |-> Step(f, k)]}
<1>0. N \in Nat
  BY NodesAreFinite
<1>1. ColorMaps(n, cs) = CHOOSE f : f = [k \in 0 .. N |-> Step(f, k)]
  BY DEF ColorMaps, ExtendedMaps, FreeImages
<1> HIDE DEF Next, N
<1>2. Bad = {}
  <2>1. SUFFICES ASSUME Bad # {} PROVE FALSE
    OBVIOUS
  <2>2. Bad \subseteq Nat
    BY <1>0
  <2>3. PICK m \in Bad : \A b \in Bad : m <= b
    BY <2>1, <2>2, LeastElement
  <2>4. m # 0
    <3>1. LET f == [k \in 0 .. 0 |-> Step(<< >>, k)] IN f = [k \in 0 .. 0 |-> Step(f, k)]
      OBVIOUS
    <3> QED
      BY <3>1, <1>0
  <2>5. m - 1 \in 0 .. N /\ m - 1 \notin Bad
    <3>1. m \in 0 .. N
      BY <2>3
    <3> HIDE DEF Bad, Step
    <3>2. m - 1 \in 0 .. N /\ ~(m <= m - 1)
      BY <2>4, <3>1, <1>0
    <3> QED
      BY <2>3, <3>2
  <2>6. PICK g : g = [k \in 0 .. m - 1 |-> Step(g, k)]
    BY <2>5
  <2> DEFINE f == [k \in 0 .. m |-> IF k = m THEN Step(g, m) ELSE g[k]]
  <2>7. ASSUME NEW k \in 0 .. m PROVE f[k] = Step(f, k)
    <3>1. CASE k = 0
      <4>1. 0 \in 0 .. m - 1 /\ f[0] = g[0] /\ g[0] = Step(g, 0)
        BY <2>4, <2>5, <2>6
      <4> QED
        BY <3>1, <4>1
    <3>2. CASE k # 0
      <4>1. k - 1 \in 0 .. m - 1 /\ k - 1 \in 0 .. m /\ k - 1 # m
        BY <2>5, <3>2
      <4>2. f[k - 1] = g[k - 1]
        BY <4>1
      <4>3. Step(f, k) = Step(g, k)
        <5> HIDE DEF f
        <5> QED
          BY <3>2, <4>2
      <4>4. f[k] = Step(g, k)
        <5>1. CASE k = m
          BY <5>1
        <5>2. CASE k # m
          <6>1. k \in 0 .. m - 1
            BY <2>5, <5>2
          <6> QED
            BY <2>6, <5>2, <6>1
        <5> QED
          BY <5>1, <5>2
      <4> QED
        BY <4>3, <4>4
    <3> QED
      BY <3>1, <3>2
  <2>8. f = [k \in 0 .. m |-> Step(f, k)]
    BY <2>7
  <2> QED
    BY <2>3, <2>8
<1>3. \E f : f = [k \in 0 .. N |-> Step(f, k)]
  <2>1. N \in 0 .. N /\ N \notin Bad
    <3> HIDE DEF Bad
    <3> QED
      BY <1>0, <1>2
  <2> HIDE DEF Step
  <2> QED
    BY <2>1
<1>4. ColorMaps(n, cs) = [k \in 0 .. N |-> Step(ColorMaps(n, cs), k)]
  <2> HIDE DEF Step
  <2> QED
    BY <1>1, <1>3
<1>5. \A k \in 0 .. N : ColorMaps(n, cs)[k] = Step(ColorMaps(n, cs), k)
  <2> HIDE DEF Step
  <2> QED
    BY <1>4
<1> QED
  BY <1>5 DEF N, Next

\* A map of the first k nodes that keeps them apart and keeps their colours.
IsColorMap(g, n, cs, k) ==
    /\ g \in [0 .. k - 1 -> Nodes(n, cs)]
    /\ \A x, y \in 0 .. k - 1 : g[x] = g[y] => x = y
    /\ \A x \in 0 .. k - 1 : Color(g[x], n, cs) = Color(x, n, cs)

LEMMA ColorMapExtends ==
    ASSUME NEW n, NEW cs, NEW k \in Nat, NEW g, NEW z,
           IsColorMap(g, n, cs, k), z \in Nodes(n, cs), z \notin Range(g),
           Color(z, n, cs) = Color(k, n, cs)
    PROVE  IsColorMap(Extended(g, k, z), n, cs, k + 1)
<1> DEFINE h == Extended(g, k, z)
<1>1. DOMAIN g = 0 .. k - 1 /\ \A x \in 0 .. k - 1 : g[x] \in Nodes(n, cs) /\ g[x] # z
  BY DEF IsColorMap, Range
<1>2. \A x : x \in 0 .. (k + 1) - 1 <=> x \in 0 .. k - 1 \/ x = k
  OBVIOUS
<1>3. k \notin 0 .. k - 1
  OBVIOUS
<1>4. /\ h = [x \in 0 .. (k + 1) - 1 |-> IF x = k THEN z ELSE g[x]]
  <2>1. DOMAIN g \cup {k} = 0 .. (k + 1) - 1
    BY <1>1, <1>2
  <2> QED
    BY <2>1 DEF Extended
<1>5. h[k] = z /\ \A x \in 0 .. k - 1 : h[x] = g[x]
  BY <1>2, <1>3, <1>4
<1>6. h \in [0 .. (k + 1) - 1 -> Nodes(n, cs)]
  BY <1>1, <1>2, <1>4
<1> HIDE DEF h
<1>7. \A x, y \in 0 .. (k + 1) - 1 : h[x] = h[y] => x = y
  BY <1>1, <1>2, <1>5 DEF IsColorMap
<1>8. \A x \in 0 .. (k + 1) - 1 : Color(h[x], n, cs) = Color(x, n, cs)
  BY <1>2, <1>5 DEF IsColorMap
<1>9. IsColorMap(h, n, cs, k + 1)
  BY <1>6, <1>7, <1>8 DEF IsColorMap
<1> QED
  BY <1>9 DEF h

LEMMA ColorMapsFacts ==
    ASSUME NEW n, NEW cs, IsProblem(n, cs)
    PROVE  \A k \in 0 .. NumNodes(n, cs) :
               \A g \in ColorMaps(n, cs)[k] : IsColorMap(g, n, cs, k)
<1> DEFINE N == NumNodes(n, cs)
           Bad == {k \in 0 .. N : \E g \in ColorMaps(n, cs)[k] : ~IsColorMap(g, n, cs, k)}
<1>0. N \in Nat
  BY NodesAreFinite
<1> HIDE DEF N
<1>1. SUFFICES ASSUME Bad # {} PROVE FALSE
  BY DEF N
<1>2. Bad \subseteq Nat
  BY <1>0
<1>3. PICK k \in Bad : \A b \in Bad : k <= b
  BY <1>1, <1>2, LeastElement
<1>4. PICK h \in ColorMaps(n, cs)[k] : ~IsColorMap(h, n, cs, k)
  BY <1>3
<1>5. k \in 0 .. N
  BY <1>3
<1>6. k # 0
  <2>1. ASSUME k = 0 PROVE FALSE
    <3>1. ColorMaps(n, cs)[k] = {<< >>}
      BY <1>5, <2>1, ColorMapsRecursion DEF N
    <3>2. h = << >>
      BY <1>4, <3>1
    <3>3. 0 .. k - 1 = {}
      BY <2>1
    <3>4. IsColorMap(h, n, cs, k)
      BY <3>2, <3>3 DEF IsColorMap
    <3> QED
      BY <1>4, <3>4
  <2> QED
    BY <2>1
<1>7. k - 1 \in 0 .. N /\ k - 1 \in Nat /\ k - 1 \notin Bad
  <2> HIDE DEF Bad
  <2>1. k - 1 \in 0 .. N /\ k - 1 \in Nat /\ ~(k <= k - 1)
    BY <1>0, <1>5, <1>6
  <2> QED
    BY <1>3, <2>1
<1>8. h \in ExtendedMaps(ColorMaps(n, cs)[k - 1], k, n, cs)
  <2>1. ColorMaps(n, cs)[k] = ExtendedMaps(ColorMaps(n, cs)[k - 1], k, n, cs)
    BY <1>5, <1>6, ColorMapsRecursion DEF N
  <2> QED
    BY <1>4, <2>1
<1>9. PICK g \in ColorMaps(n, cs)[k - 1] :
          \E z \in FreeImages(g, k - 1, n, cs) : h = Extended(g, k - 1, z)
  BY <1>8, Zenon DEF ExtendedMaps
<1>9a. PICK z \in FreeImages(g, k - 1, n, cs) : h = Extended(g, k - 1, z)
  BY <1>9
<1>10. k - 1 \in Nodes(n, cs)
  BY <1>0, <1>5, <1>6 DEF N, Nodes
<1>11. /\ z \in Nodes(n, cs) /\ z \notin Range(g)
       /\ Color(z, n, cs) = Color(k - 1, n, cs)
  BY <1>9a, <1>10 DEF FreeImages
<1>12. IsColorMap(g, n, cs, k - 1)
  BY <1>7, <1>9
<1>13. IsColorMap(h, n, cs, (k - 1) + 1)
  BY <1>7, <1>9a, <1>11, <1>12, ColorMapExtends
<1> QED
  BY <1>4, <1>5, <1>13

\* The node of a literal has not the colour of the clauses.
LEMMA ColorsOfNodes ==
    ASSUME NEW n, NEW cs, IsProblem(n, cs), NEW x \in Nodes(n, cs)
    PROVE  Color(x, n, cs) = ClauseColor <=> x \notin LiteralNodes(n)
<1> DEFINE before(l) == {v \in 1 .. n : v < Variable(l) /\ IsFreeVariable(v, cs)}
<1>1. IsLiteralNode(x, n) <=> x \in LiteralNodes(n)
  BY NodesAreFinite
<1>2. \A l : Cardinality(before(l)) \in Nat
  <2>1. IsFiniteSet(1 .. n)
    <3>1. n \in Nat
      BY NodesAreFinite
    <3>2. 1 \in Int /\ n \in Int
      BY <3>1
    <3> QED
      BY <3>2, FS_Interval
  <2>2. ASSUME NEW l PROVE Cardinality(before(l)) \in Nat
    <3>1. before(l) \in SUBSET (1 .. n)
      OBVIOUS
    <3>2. IsFiniteSet(before(l))
      BY <2>1, <3>1, FS_Subset
    <3> QED
      BY <3>2, FS_CardinalityType
  <2> QED
    BY <2>2
<1>3. \A l : FreeColor(l, n, cs) =
               ClauseColor + 1 + (IF l > 0 THEN 0 ELSE 1) + 2 * Cardinality(before(l))
  BY DEF FreeColor
<1> HIDE DEF before
<1>4. \A l : FreeColor(l, n, cs) # ClauseColor
  BY <1>2, <1>3 DEF ClauseColor
<1> QED
  BY <1>1, <1>4 DEF Color, LiteralNodeColor, ClauseColor, LiteralColor

\* The clauses and the clauses with a node are made of literals of the problem.
LEMMA ClausesOfProblem ==
    ASSUME NEW n, NEW cs, IsProblem(n, cs)
    PROVE  /\ Len(cs) \in Nat /\ DOMAIN cs = 1 .. Len(cs)
           /\ \A c \in ToSet(cs) : c \subseteq LiteralsUpTo(n) /\ IsFiniteSet(c)
           /\ \A i \in DOMAIN cs : cs[i] \in ToSet(cs)
           /\ DOMAIN NodeClauses(cs) = 1 .. Len(NodeClauses(cs))
           /\ \A i \in DOMAIN NodeClauses(cs) : NodeClauses(cs)[i] \in ToSet(cs)
<1>1. cs \in Seq(SUBSET LiteralsUpTo(n))
  BY NodesAreFinite
<1>2. Len(cs) \in Nat /\ DOMAIN cs = 1 .. Len(cs)
  BY <1>1, LenProperties
<1>3. \A i \in 1 .. Len(cs) : cs[i] \in SUBSET LiteralsUpTo(n)
  BY <1>1, ElementOfSeq
<1>4. \A c \in ToSet(cs) : c \in SUBSET LiteralsUpTo(n)
  BY <1>2, <1>3 DEF ToSet
<1>5. IsFiniteSet(LiteralsUpTo(n))
  <2>1. -NumVars \in Int /\ NumVars \in Int
    BY NumVarsAssumption
  <2>2. IsFiniteSet(-NumVars .. NumVars)
    BY <2>1, FS_Interval
  <2>3. LiteralsUpTo(n) \in SUBSET (-NumVars .. NumVars)
    BY DEF LiteralsUpTo, Literal
  <2> QED
    BY <2>2, <2>3, FS_Subset
<1>6. \A c \in ToSet(cs) : IsFiniteSet(c)
  BY <1>4, <1>5, FS_Subset
<1>7. DOMAIN NodeClauses(cs) = 1 .. Len(NodeClauses(cs))
  BY <1>1, NodeClausesFacts
<1>8. \A j \in 1 .. Len(NodeClauses(cs)) : \E i \in 1 .. Len(cs) : NodeClauses(cs)[j] = cs[i]
  BY <1>1, NodeClausesFacts
<1> QED
  BY <1>2, <1>4, <1>6, <1>7, <1>8 DEF ToSet

LEMMA EdgesJoinNodes ==
    ASSUME NEW n, NEW cs, IsProblem(n, cs)
    PROVE  /\ Edges(n, cs) \subseteq SUBSET Nodes(n, cs)
           /\ BinaryEdges(n, cs) \subseteq SUBSET LiteralNodes(n)
           /\ ConsistencyEdges(n) \subseteq SUBSET LiteralNodes(n)
<1>1. \A l \in LiteralsUpTo(n) : Literal2Node(l, n) \in LiteralNodes(n)
  BY NodesAreFinite, NodeFacts
<1>2. LiteralNodes(n) \subseteq Nodes(n, cs)
  BY NodesAreFinite
<1>3. \A i \in DOMAIN NodeClauses(cs) : 2 * n + i - 1 \in Nodes(n, cs)
  <2>1. /\ n \in Nat /\ Len(NodeClauses(cs)) \in Nat
        /\ NumNodes(n, cs) = 2 * n + Len(NodeClauses(cs))
        /\ \A x : x \in Nodes(n, cs) <=> x \in Int /\ 0 <= x /\ x < NumNodes(n, cs)
    BY NodesAreFinite
  <2>2. DOMAIN NodeClauses(cs) = 1 .. Len(NodeClauses(cs))
    BY ClausesOfProblem
  <2> QED
    BY <2>1, <2>2
<1>4. BinaryEdges(n, cs) \subseteq SUBSET LiteralNodes(n)
  <2>1. \A c \in ToSet(cs) : c \subseteq LiteralsUpTo(n)
    BY ClausesOfProblem
  <2>2. ASSUME NEW e \in BinaryEdges(n, cs) PROVE e \subseteq LiteralNodes(n)
    <3>1. PICK c \in ToSet(cs) : e = {Literal2Node(l, n) : l \in c}
      BY <2>2 DEF BinaryEdges
    <3> QED
      BY <1>1, <2>1, <3>1
  <2> QED
    BY <2>2
<1>5. ConsistencyEdges(n) \subseteq SUBSET LiteralNodes(n)
  <2>1. \A v \in 1 .. n : v \in LiteralsUpTo(n) /\ -v \in LiteralsUpTo(n)
    <3>1. n \in Nat /\ n <= NumVars
      BY NodesAreFinite
    <3> QED
      BY <3>1 DEF LiteralsUpTo, Literal, Variable
  <2> QED
    BY <1>1, <2>1 DEF ConsistencyEdges
<1>6. ClauseEdges(n, cs) \subseteq SUBSET Nodes(n, cs)
  <2>1. ASSUME NEW e \in ClauseEdges(n, cs) PROVE e \subseteq Nodes(n, cs)
    <3>1. PICK i \in DOMAIN NodeClauses(cs) :
              e \in {{Literal2Node(l, n), 2 * n + i - 1} : l \in NodeClauses(cs)[i]}
      BY <2>1 DEF ClauseEdges
    <3>2. PICK l \in NodeClauses(cs)[i] : e = {Literal2Node(l, n), 2 * n + i - 1}
      BY <3>1
    <3>3. l \in LiteralsUpTo(n)
      BY <3>1, <3>2, ClausesOfProblem
    <3> QED
      BY <1>1, <1>2, <1>3, <3>2, <3>3
  <2> QED
    BY <2>1
<1> QED
  BY <1>2, <1>4, <1>5, <1>6 DEF Edges

\* A map of the nodes, one to one and onto, that keeps the kind of a node, its
\* colour, and the edges in both directions.
IsAutomorphism(f, n, cs) ==
    /\ f \in [Nodes(n, cs) -> Nodes(n, cs)]
    /\ \A x, y \in Nodes(n, cs) : f[x] = f[y] => x = y
    /\ \A y \in Nodes(n, cs) : \E x \in Nodes(n, cs) : f[x] = y
    /\ \A x \in Nodes(n, cs) : x \in LiteralNodes(n) <=> f[x] \in LiteralNodes(n)
    /\ \A x \in Nodes(n, cs) : Color(f[x], n, cs) = Color(x, n, cs)
    /\ \A e \in SUBSET Nodes(n, cs) :
          e \in Edges(n, cs) <=> {f[x] : x \in e} \in Edges(n, cs)

LEMMA AutomorphismFacts ==
    ASSUME NEW n, NEW cs, IsProblem(n, cs), NEW f \in Automorphisms(n, cs)
    PROVE  IsAutomorphism(f, n, cs)
<1> DEFINE V == Nodes(n, cs)
           E == Edges(n, cs)
           image(e) == {f[x] : x \in e}
<1>1. f \in ColorMaps(n, cs)[NumNodes(n, cs)] /\ \A e \in E : image(e) \in E
  BY DEF Automorphisms
<1>2. IsColorMap(f, n, cs, NumNodes(n, cs))
  <2>1. NumNodes(n, cs) \in Nat
    BY NodesAreFinite
  <2>2. NumNodes(n, cs) \in 0 .. NumNodes(n, cs)
    BY <2>1
  <2> QED
    BY <1>1, <2>2, ColorMapsFacts
<1>3. /\ f \in [V -> V]
      /\ \A x, y \in V : f[x] = f[y] => x = y
      /\ \A x \in V : Color(f[x], n, cs) = Color(x, n, cs)
  BY <1>2 DEF IsColorMap, Nodes
<1>4. \A y \in V : \E x \in V : f[x] = y
  <2>1. f \in Injection(V, V)
    BY <1>3 DEF Injection, IsInjective
  <2>2. f \in Surjection(V, V)
    BY <2>1, NodesAreFinite, FS_Injection
  <2> QED
    BY <2>2 DEF Surjection
<1>5. \A x \in V : x \in LiteralNodes(n) <=> f[x] \in LiteralNodes(n)
  BY <1>3, ColorsOfNodes
<1>6. E \subseteq SUBSET V
  BY EdgesJoinNodes
<1>7. ASSUME NEW d \in SUBSET V, NEW e \in SUBSET V, image(d) = image(e)
      PROVE  d = e
  <2>1. \A x \in V : x \in d <=> f[x] \in image(d)
    BY <1>3
  <2>2. \A x \in V : x \in e <=> f[x] \in image(e)
    BY <1>3
  <2> QED
    BY <1>7, <2>1, <2>2
<1>8. ASSUME NEW e \in SUBSET V, image(e) \in E PROVE e \in E
  <2> DEFINE F == [d \in E |-> image(d)]
  <2>1. F \in Injection(E, E)
    <3>1. F \in [E -> E]
      BY <1>1
    <3>2. \A c, d \in E : F[c] = F[d] => c = d
      BY <1>6, <1>7
    <3> HIDE DEF F
    <3> QED
      BY <3>1, <3>2 DEF Injection, IsInjective
  <2>2. IsFiniteSet(E)
    <3>1. IsFiniteSet(SUBSET V)
      BY NodesAreFinite, FS_SUBSET
    <3> QED
      BY <1>6, <3>1, FS_Subset
  <2>3. F \in Surjection(E, E)
    <3> HIDE DEF F
    <3> QED
      BY <2>1, <2>2, FS_Injection
  <2>4. PICK d \in E : F[d] = image(e)
    <3> HIDE DEF F
    <3> QED
      BY <1>8, <2>3 DEF Surjection
  <2>5. image(d) = image(e)
    BY <2>4
  <2> QED
    BY <1>6, <1>7, <2>5
<1>9. \A e \in SUBSET V : e \in E <=> image(e) \in E
  BY <1>1, <1>8
<1> QED
  BY <1>3, <1>4, <1>5, <1>9 DEF IsAutomorphism

\* Two literals make a binary clause, and a binary clause is made of two.
LEMMA Pairs ==
    /\ \A a, b : a # b => Cardinality({a, b}) = 2
    /\ \A c : IsFiniteSet(c) /\ Cardinality(c) = 2 => \E a, b \in c : a # b /\ c = {a, b}
<1>1. ASSUME NEW a, NEW b, a # b PROVE Cardinality({a, b}) = 2
  <2>1. IsFiniteSet({a}) /\ Cardinality({a}) = 1
    BY FS_Singleton
  <2>2. Cardinality({a} \cup {b}) = Cardinality({a}) + 1
    BY <1>1, <2>1, FS_AddElement
  <2>3. {a} \cup {b} = {a, b}
    OBVIOUS
  <2> QED
    BY <2>1, <2>2, <2>3
<1>2. ASSUME NEW c, IsFiniteSet(c), Cardinality(c) = 2
      PROVE  \E a, b \in c : a # b /\ c = {a, b}
  <2>1. PICK a \in c : TRUE
    BY <1>2, FS_EmptySet
  <2>2. IsFiniteSet(c \ {a}) /\ Cardinality(c \ {a}) = 1
    BY <1>2, <2>1, FS_RemoveElement
  <2>3. PICK b : c \ {a} = {b}
    BY <2>2, FS_Singleton
  <2>4. b \in c /\ a # b /\ c = {a, b}
    BY <2>1, <2>3
  <2> QED
    BY <2>1, <2>4
<1> QED
  BY <1>1, <1>2

\* A clause with a node is joined to the nodes of its literals.
LEMMA ClauseNodeEdges ==
    ASSUME NEW n, NEW cs, IsProblem(n, cs),
           NEW l \in LiteralsUpTo(n), NEW i \in DOMAIN NodeClauses(cs)
    PROVE  {Literal2Node(l, n), 2 * n + i - 1} \in Edges(n, cs) <=> l \in NodeClauses(cs)[i]
<1> DEFINE e == {Literal2Node(l, n), 2 * n + i - 1}
<1>1. \A m \in LiteralsUpTo(n) :
          /\ Literal2Node(m, n) \in LiteralNodes(n)
          /\ Node2Literal(Literal2Node(m, n), n) = m
  BY NodesAreFinite, NodeFacts
<1>2. n \in Nat /\ \A j \in DOMAIN NodeClauses(cs) : j \in Int /\ j >= 1
  <2>1. n \in Nat /\ Len(NodeClauses(cs)) \in Nat
    BY NodesAreFinite
  <2>2. DOMAIN NodeClauses(cs) = 1 .. Len(NodeClauses(cs))
    BY ClausesOfProblem
  <2> QED
    BY <2>1, <2>2
<1>3. \A j \in DOMAIN NodeClauses(cs) : 2 * n + j - 1 \notin LiteralNodes(n)
  BY <1>2 DEF LiteralNodes
<1>4. \A j, k \in DOMAIN NodeClauses(cs) : 2 * n + j - 1 = 2 * n + k - 1 => j = k
  BY <1>2
<1>5. ASSUME l \in NodeClauses(cs)[i] PROVE e \in Edges(n, cs)
  BY <1>5 DEF Edges, ClauseEdges
<1>6. ASSUME e \in Edges(n, cs) PROVE l \in NodeClauses(cs)[i]
  <2>1. e \notin SUBSET LiteralNodes(n)
    BY <1>3
  <2>2. e \in ClauseEdges(n, cs)
    BY <1>6, <2>1, EdgesJoinNodes DEF Edges
  <2>3. PICK j \in DOMAIN NodeClauses(cs) :
            e \in {{Literal2Node(m, n), 2 * n + j - 1} : m \in NodeClauses(cs)[j]}
    BY <2>2 DEF ClauseEdges
  <2>4. PICK m \in NodeClauses(cs)[j] : e = {Literal2Node(m, n), 2 * n + j - 1}
    BY <2>3
  <2>5. m \in LiteralsUpTo(n)
    BY <2>4, ClausesOfProblem
  <2>6. Literal2Node(l, n) = Literal2Node(m, n) /\ 2 * n + i - 1 = 2 * n + j - 1
    BY <1>1, <1>3, <2>4, <2>5
  <2>7. l = m /\ i = j
    BY <1>1, <1>4, <2>5, <2>6
  <2> QED
    BY <2>4, <2>7
<1> QED
  BY <1>5, <1>6

\* The nodes of two literals are joined when the literals are a clause or
\* negations of each other.
LEMMA LiteralEdges ==
    ASSUME NEW n, NEW cs, IsProblem(n, cs),
           NEW a \in LiteralsUpTo(n), NEW b \in LiteralsUpTo(n), a # b
    PROVE  {Literal2Node(a, n), Literal2Node(b, n)} \in Edges(n, cs)
               <=> b = Negated(a) \/ {a, b} \in ToSet(cs)
<1> DEFINE e == {Literal2Node(a, n), Literal2Node(b, n)}
<1>1. \A m \in LiteralsUpTo(n) :
          /\ Literal2Node(m, n) \in LiteralNodes(n)
          /\ Node2Literal(Literal2Node(m, n), n) = m
  BY NodesAreFinite, NodeFacts
<1>2. ASSUME b = Negated(a) PROVE e \in Edges(n, cs)
  <2>1. Variable(a) \in 1 .. n /\ {a, b} = {Variable(a), -Variable(a)}
    <3>1. n \in Nat
      BY NodesAreFinite
    <3> QED
      BY <1>2, <3>1 DEF LiteralsUpTo, Literal, Variable, Negated
  <2>2. e = {Literal2Node(Variable(a), n), Literal2Node(-Variable(a), n)}
    BY <2>1
  <2>3. e \in ConsistencyEdges(n)
    BY <2>1, <2>2 DEF ConsistencyEdges
  <2> QED
    BY <2>3 DEF Edges
<1>3. ASSUME {a, b} \in ToSet(cs) PROVE e \in Edges(n, cs)
  <2>1. Cardinality({a, b}) = 2
    BY Pairs
  <2>2. e = {Literal2Node(l, n) : l \in {a, b}}
    OBVIOUS
  <2>3. e \in BinaryEdges(n, cs)
    BY <1>3, <2>1, <2>2 DEF BinaryEdges
  <2> QED
    BY <2>3 DEF Edges
<1>4. ASSUME e \in Edges(n, cs) PROVE b = Negated(a) \/ {a, b} \in ToSet(cs)
  <2>1. e \notin ClauseEdges(n, cs)
    <3>1. ASSUME e \in ClauseEdges(n, cs) PROVE FALSE
      <4>1. PICK j \in DOMAIN NodeClauses(cs) :
                e \in {{Literal2Node(m, n), 2 * n + j - 1} : m \in NodeClauses(cs)[j]}
        BY <3>1 DEF ClauseEdges
      <4>2. 2 * n + j - 1 \in e
        BY <4>1
      <4>3. n \in Nat /\ Len(NodeClauses(cs)) \in Nat
        BY NodesAreFinite
      <4>4. j \in 1 .. Len(NodeClauses(cs))
        BY ClausesOfProblem
      <4>5. 2 * n + j - 1 \notin LiteralNodes(n)
        BY <4>3, <4>4 DEF LiteralNodes
      <4> QED
        BY <1>1, <4>2, <4>5
    <3> QED
      BY <3>1
  <2>2. CASE e \in BinaryEdges(n, cs)
    <3>1. PICK c \in ToSet(cs) : e = {Literal2Node(l, n) : l \in c}
      BY <2>2 DEF BinaryEdges
    <3>2. c \subseteq LiteralsUpTo(n)
      BY ClausesOfProblem
    <3>3. c \subseteq {a, b}
      BY <1>1, <3>1, <3>2
    <3>4. a \in c /\ b \in c
      BY <1>1, <3>1, <3>2
    <3>5. c = {a, b}
      BY <3>3, <3>4
    <3> QED
      BY <3>1, <3>5
  <2>3. CASE e \in ConsistencyEdges(n)
    <3>1. PICK v \in 1 .. n : e = {Literal2Node(v, n), Literal2Node(-v, n)}
      BY <2>3 DEF ConsistencyEdges
    <3>2. v \in LiteralsUpTo(n) /\ -v \in LiteralsUpTo(n) /\ v \in Int
      <4>1. n \in Nat /\ n <= NumVars
        BY NodesAreFinite
      <4> QED
        BY <4>1 DEF LiteralsUpTo, Literal, Variable
    <3>3. a \in {v, -v} /\ b \in {v, -v}
      BY <1>1, <3>1, <3>2
    <3>4. b = -a
      BY <3>2, <3>3
    <3> QED
      BY <3>4 DEF Negated
  <2> QED
    BY <1>4, <2>1, <2>2, <2>3 DEF Edges
<1> QED
  BY <1>2, <1>3, <1>4

-----------------------------------------------------------------------------
\* What an automorphism does to the literals.
LiteralMap(f, n, l) ==
    IF l \in LiteralsUpTo(n) THEN Node2Literal(f[Literal2Node(l, n)], n) ELSE l

LEMMA LiteralMapFacts ==
    ASSUME NEW n, NEW cs, NEW f, IsProblem(n, cs), IsAutomorphism(f, n, cs)
    PROVE  /\ \A l \in LiteralsUpTo(n) :
                 /\ LiteralMap(f, n, l) \in LiteralsUpTo(n)
                 /\ Literal2Node(l, n) \in Nodes(n, cs)
                 /\ Literal2Node(LiteralMap(f, n, l), n) = f[Literal2Node(l, n)]
           /\ \A k, l \in LiteralsUpTo(n) : LiteralMap(f, n, k) = LiteralMap(f, n, l) => k = l
<1>1. \A l \in LiteralsUpTo(n) :
          /\ Literal2Node(l, n) \in LiteralNodes(n)
          /\ Node2Literal(Literal2Node(l, n), n) = l
  BY NodesAreFinite, NodeFacts
<1>2. \A x \in LiteralNodes(n) :
          /\ Node2Literal(x, n) \in LiteralsUpTo(n)
          /\ Literal2Node(Node2Literal(x, n), n) = x
  BY NodesAreFinite, NodeFacts
<1>3. LiteralNodes(n) \subseteq Nodes(n, cs)
  BY NodesAreFinite
<1>4. \A x \in LiteralNodes(n) : f[x] \in LiteralNodes(n)
  BY <1>3 DEF IsAutomorphism
<1>5. \A x, y \in LiteralNodes(n) : f[x] = f[y] => x = y
  BY <1>3 DEF IsAutomorphism
<1>6. \A l \in LiteralsUpTo(n) :
          LiteralMap(f, n, l) = Node2Literal(f[Literal2Node(l, n)], n)
  BY DEF LiteralMap
<1>7. \A l \in LiteralsUpTo(n) :
          /\ LiteralMap(f, n, l) \in LiteralsUpTo(n)
          /\ Literal2Node(LiteralMap(f, n, l), n) = f[Literal2Node(l, n)]
  BY <1>1, <1>2, <1>4, <1>6
<1>8. \A k, l \in LiteralsUpTo(n) : LiteralMap(f, n, k) = LiteralMap(f, n, l) => k = l
  BY <1>1, <1>5, <1>7
<1> QED
  BY <1>1, <1>3, <1>7, <1>8

\* The clauses with a node are mapped to clauses with a node, and all of them are
\* images.
LEMMA NodeClausesAreMapped ==
    ASSUME NEW n, NEW cs, NEW f, IsProblem(n, cs), IsAutomorphism(f, n, cs)
    PROVE  /\ \A i \in DOMAIN NodeClauses(cs) : \E j \in DOMAIN NodeClauses(cs) :
                  \A l \in LiteralsUpTo(n) :
                     l \in NodeClauses(cs)[i] <=> LiteralMap(f, n, l) \in NodeClauses(cs)[j]
           /\ \A j \in DOMAIN NodeClauses(cs) : \E i \in DOMAIN NodeClauses(cs) :
                  \A l \in LiteralsUpTo(n) :
                     l \in NodeClauses(cs)[i] <=> LiteralMap(f, n, l) \in NodeClauses(cs)[j]
<1> DEFINE N == DOMAIN NodeClauses(cs)
           at(i) == 2 * n + i - 1
<1>1. /\ n \in Nat /\ Len(NodeClauses(cs)) \in Nat
      /\ NumNodes(n, cs) = 2 * n + Len(NodeClauses(cs))
      /\ \A x : x \in Nodes(n, cs) <=> x \in Int /\ 0 <= x /\ x < NumNodes(n, cs)
  BY NodesAreFinite
<1>2. N = 1 .. Len(NodeClauses(cs))
  BY ClausesOfProblem
<1>3. \A i \in N : at(i) \in Nodes(n, cs) /\ at(i) \notin LiteralNodes(n)
  BY <1>1, <1>2 DEF LiteralNodes
<1>4. ASSUME NEW x \in Nodes(n, cs), x \notin LiteralNodes(n) PROVE \E i \in N : x = at(i)
  <2>1. x \in Int /\ 2 * n <= x /\ x < 2 * n + Len(NodeClauses(cs))
    BY <1>1, <1>4 DEF LiteralNodes
  <2>2. x - 2 * n + 1 \in N /\ x = at(x - 2 * n + 1)
    BY <1>1, <1>2, <2>1
  <2> HIDE DEF N, at
  <2> QED
    BY <2>2
<1>5. ASSUME NEW i \in N, NEW j \in N, f[at(i)] = at(j), NEW l \in LiteralsUpTo(n)
      PROVE  l \in NodeClauses(cs)[i] <=> LiteralMap(f, n, l) \in NodeClauses(cs)[j]
  <2> DEFINE e == {Literal2Node(l, n), at(i)}
  <2>1. /\ Literal2Node(l, n) \in Nodes(n, cs) /\ LiteralMap(f, n, l) \in LiteralsUpTo(n)
        /\ Literal2Node(LiteralMap(f, n, l), n) = f[Literal2Node(l, n)]
    BY LiteralMapFacts
  <2>2. e \in SUBSET Nodes(n, cs)
    BY <1>3, <2>1
  <2>3. {f[x] : x \in e} = {Literal2Node(LiteralMap(f, n, l), n), at(j)}
    <3> HIDE DEF at
    <3> QED
      BY <1>5, <2>1
  <2>4. e \in Edges(n, cs) <=> {f[x] : x \in e} \in Edges(n, cs)
    <3> HIDE DEF e
    <3> QED
      BY <2>2 DEF IsAutomorphism
  <2>5. e \in Edges(n, cs) <=> l \in NodeClauses(cs)[i]
    BY ClauseNodeEdges
  <2>6. {Literal2Node(LiteralMap(f, n, l), n), at(j)} \in Edges(n, cs)
            <=> LiteralMap(f, n, l) \in NodeClauses(cs)[j]
    BY <2>1, ClauseNodeEdges
  <2> QED
    BY <2>3, <2>4, <2>5, <2>6
<1> HIDE DEF N, at
<1>6. ASSUME NEW i \in N PROVE \E j \in N : f[at(i)] = at(j)
  <2>1. f[at(i)] \in Nodes(n, cs) /\ f[at(i)] \notin LiteralNodes(n)
    BY <1>3 DEF IsAutomorphism
  <2> QED
    BY <1>4, <2>1
<1>7. ASSUME NEW j \in N PROVE \E i \in N : f[at(i)] = at(j)
  <2>1. PICK x \in Nodes(n, cs) : f[x] = at(j)
    BY <1>3 DEF IsAutomorphism
  <2>2. x \notin LiteralNodes(n)
    BY <1>3, <2>1 DEF IsAutomorphism
  <2> QED
    BY <1>4, <2>1, <2>2
<1>8. \A i \in N : \E j \in N : \A l \in LiteralsUpTo(n) :
          l \in NodeClauses(cs)[i] <=> LiteralMap(f, n, l) \in NodeClauses(cs)[j]
  BY <1>5, <1>6
<1>9. \A j \in N : \E i \in N : \A l \in LiteralsUpTo(n) :
          l \in NodeClauses(cs)[i] <=> LiteralMap(f, n, l) \in NodeClauses(cs)[j]
  BY <1>5, <1>7
<1> QED
  BY <1>8, <1>9 DEF N

\* Binary clauses are mapped to binary clauses or to literals that are
\* negations of each other: the two kinds of edges look alike.
LEMMA BinaryClausesAreMapped ==
    ASSUME NEW n, NEW cs, NEW f, IsProblem(n, cs), IsAutomorphism(f, n, cs),
           NEW a \in LiteralsUpTo(n), NEW b \in LiteralsUpTo(n), a # b
    PROVE  (b = Negated(a) \/ {a, b} \in ToSet(cs))
               <=> \/ LiteralMap(f, n, b) = Negated(LiteralMap(f, n, a))
                   \/ {LiteralMap(f, n, a), LiteralMap(f, n, b)} \in ToSet(cs)
<1> DEFINE x == Literal2Node(a, n)
           y == Literal2Node(b, n)
           k == LiteralMap(f, n, a)
           l == LiteralMap(f, n, b)
<1>1. /\ x \in Nodes(n, cs) /\ k \in LiteralsUpTo(n) /\ Literal2Node(k, n) = f[x]
      /\ y \in Nodes(n, cs) /\ l \in LiteralsUpTo(n) /\ Literal2Node(l, n) = f[y]
      /\ k # l
  BY LiteralMapFacts
<1>2. {x, y} \in Edges(n, cs) <=> b = Negated(a) \/ {a, b} \in ToSet(cs)
  BY LiteralEdges
<1>3. {Literal2Node(k, n), Literal2Node(l, n)} \in Edges(n, cs)
          <=> l = Negated(k) \/ {k, l} \in ToSet(cs)
  <2> HIDE DEF k, l
  <2> QED
    BY <1>1, LiteralEdges
<1>4. {x, y} \in Edges(n, cs) <=> {f[x], f[y]} \in Edges(n, cs)
  <2> HIDE DEF x, y
  <2>1. {f[z] : z \in {x, y}} = {f[x], f[y]} /\ {x, y} \in SUBSET Nodes(n, cs)
    BY <1>1
  <2> QED
    BY <2>1 DEF IsAutomorphism
<1> QED
  BY <1>1, <1>2, <1>3, <1>4

\* The map of all literals that undoes what an automorphism does to them.
InvertsMap(inv, f, n) ==
    /\ \A l \in Literal : inv[l] \in Literal /\ inv[LiteralMap(f, n, l)] = l
    /\ \A l \in LiteralsUpTo(n) :
          inv[l] \in LiteralsUpTo(n) /\ LiteralMap(f, n, inv[l]) = l

\* An automorphism that commutes with negation takes models to models.
LEMMA ModelsAreMapped ==
    ASSUME NEW n, NEW cs, NEW f, IsProblem(n, cs), IsAutomorphism(f, n, cs),
           NEW inv, InvertsMap(inv, f, n),
           \A l \in Literal : inv[Negated(l)] = Negated(inv[l]),
           NEW total \in TotalAssignments
    PROVE  Satisfies(total, cs) <=> Satisfies({l \in Literal : inv[l] \in total}, cs)
<1> DEFINE image == {l \in Literal : inv[l] \in total}
           N == DOMAIN NodeClauses(cs)
<1>1. \A l \in Literal : l \in total \/ Negated(l) \in total
  <2>1. PICK pos \in SUBSET Variables : total = {LiteralOf(v, v \in pos) : v \in Variables}
    BY DEF TotalAssignments
  <2>2. ASSUME NEW l \in Literal PROVE l \in total \/ Negated(l) \in total
    <3>1. Variable(l) \in Variables /\ LiteralOf(Variable(l), Variable(l) \in pos) \in total
      BY <2>1, LiteralFacts
    <3> QED
      BY <3>1 DEF LiteralOf, Variable, Negated, Literal
  <2> QED
    BY <2>2
<1>2. \A l \in LiteralsUpTo(n) :
          /\ l \in Literal
          /\ inv[l] \in LiteralsUpTo(n) /\ LiteralMap(f, n, inv[l]) = l
          /\ LiteralMap(f, n, l) \in LiteralsUpTo(n) /\ inv[LiteralMap(f, n, l)] = l
  BY LiteralMapFacts DEF InvertsMap, LiteralsUpTo
<1>3. /\ \A c \in ToSet(cs) : c \subseteq LiteralsUpTo(n) /\ IsFiniteSet(c)
      /\ DOMAIN cs = 1 .. Len(cs) /\ \A k \in DOMAIN cs : cs[k] \in ToSet(cs)
      /\ \A j \in N : NodeClauses(cs)[j] \in ToSet(cs)
  BY ClausesOfProblem
<1>4. \A c \in ToSet(cs) : Cardinality(c) # 2 => \E j \in N : NodeClauses(cs)[j] = c
  <2>1. \A i \in 1 .. Len(cs) : Cardinality(cs[i]) # 2 =>
            \E j \in 1 .. Len(NodeClauses(cs)) : NodeClauses(cs)[j] = cs[i]
    <3>1. cs \in Seq(SUBSET LiteralsUpTo(n))
      BY NodesAreFinite
    <3> QED
      BY <3>1, NodeClausesFacts
  <2>2. N = 1 .. Len(NodeClauses(cs))
    BY ClausesOfProblem
  <2> QED
    BY <1>3, <2>1, <2>2 DEF ToSet
<1>5. \A s : Satisfies(s, cs) <=> \A c \in ToSet(cs) : c \cap s # {}
  BY DEF Satisfies, ToSet
<1>6. ASSUME \A c \in ToSet(cs) : c \cap total # {}, NEW c \in ToSet(cs)
      PROVE  c \cap image # {}
  <2>1. CASE Cardinality(c) # 2
    <3>1. PICK j \in N : NodeClauses(cs)[j] = c
      BY <1>4, <2>1
    <3>2. PICK i \in N : \A l \in LiteralsUpTo(n) :
              l \in NodeClauses(cs)[i] <=> LiteralMap(f, n, l) \in NodeClauses(cs)[j]
      BY NodeClausesAreMapped
    <3>3. PICK l \in NodeClauses(cs)[i] : l \in total
      BY <1>3, <1>6
    <3>4. l \in LiteralsUpTo(n)
      BY <1>3, <3>3
    <3>5. LiteralMap(f, n, l) \in c /\ LiteralMap(f, n, l) \in image
      BY <1>2, <3>1, <3>2, <3>3, <3>4
    <3> QED
      BY <3>5
  <2>2. CASE Cardinality(c) = 2
    <3>1. PICK a \in c, b \in c : a # b /\ c = {a, b}
      BY <1>3, <2>2, Pairs
    <3>2. a \in LiteralsUpTo(n) /\ b \in LiteralsUpTo(n)
      BY <1>3
    <3>3. inv[a] # inv[b]
      BY <1>2, <3>1, <3>2
    <3>4. {LiteralMap(f, n, inv[a]), LiteralMap(f, n, inv[b])} \in ToSet(cs)
      BY <1>2, <3>1, <3>2
    <3>5. inv[b] = Negated(inv[a]) \/ {inv[a], inv[b]} \in ToSet(cs)
      BY <1>2, <3>2, <3>3, <3>4, BinaryClausesAreMapped
    <3>6. inv[a] \in total \/ inv[b] \in total
      BY <1>1, <1>2, <1>6, <3>2, <3>5
    <3> QED
      BY <1>2, <3>2, <3>6
  <2> QED
    BY <2>1, <2>2
<1>7. ASSUME \A c \in ToSet(cs) : c \cap image # {}, NEW c \in ToSet(cs)
      PROVE  c \cap total # {}
  <2>1. CASE Cardinality(c) # 2
    <3>1. PICK i \in N : NodeClauses(cs)[i] = c
      BY <1>4, <2>1
    <3>2. PICK j \in N : \A l \in LiteralsUpTo(n) :
              l \in NodeClauses(cs)[i] <=> LiteralMap(f, n, l) \in NodeClauses(cs)[j]
      BY NodeClausesAreMapped
    <3>3. PICK l \in NodeClauses(cs)[j] : inv[l] \in total
      BY <1>3, <1>7
    <3>4. l \in LiteralsUpTo(n)
      BY <1>3, <3>3
    <3>5. inv[l] \in c
      BY <1>2, <3>1, <3>2, <3>3, <3>4
    <3> QED
      BY <3>3, <3>5
  <2>2. CASE Cardinality(c) = 2
    <3>1. PICK a \in c, b \in c : a # b /\ c = {a, b}
      BY <1>3, <2>2, Pairs
    <3>2. a \in LiteralsUpTo(n) /\ b \in LiteralsUpTo(n)
      BY <1>3
    <3> DEFINE k == LiteralMap(f, n, a)
               l == LiteralMap(f, n, b)
    <3>3. /\ k \in Literal /\ inv[k] = a /\ inv[l] = b
      BY <1>2, <3>2
    <3>4. l = Negated(k) \/ {k, l} \in ToSet(cs)
      BY <3>1, <3>2, BinaryClausesAreMapped
    <3> HIDE DEF k, l
    <3>5. CASE l = Negated(k)
      <4>1. b = Negated(a)
        BY <3>3, <3>5
      <4> QED
        BY <1>1, <1>2, <3>1, <3>2, <4>1
    <3>6. CASE {k, l} \in ToSet(cs)
      <4>1. k \in image \/ l \in image
        BY <1>7, <3>6
      <4> QED
        BY <3>1, <3>3, <4>1
    <3> QED
      BY <3>4, <3>5, <3>6
  <2> QED
    BY <2>1, <2>2
<1> QED
  BY <1>5, <1>6, <1>7

\* The free variables before the variable of l.
FreeBefore(l, n, cs) == {v \in 1 .. n : v < Variable(l) /\ IsFreeVariable(v, cs)}

LEMMA FreeBeforeGrows ==
    ASSUME NEW n \in Nat, NEW cs, NEW k \in 1 .. n, NEW l \in 1 .. n,
           k < l, IsFreeVariable(k, cs)
    PROVE  /\ Cardinality(FreeBefore(k, n, cs)) \in Nat
           /\ Cardinality(FreeBefore(l, n, cs)) \in Nat
           /\ Cardinality(FreeBefore(k, n, cs)) < Cardinality(FreeBefore(l, n, cs))
<1> DEFINE K == FreeBefore(k, n, cs)
           L == FreeBefore(l, n, cs)
<1>1. Variable(k) = k /\ Variable(l) = l
  BY DEF Variable
<1>2. K \cup {k} \subseteq L /\ k \notin K
  BY <1>1 DEF FreeBefore
<1>3. IsFiniteSet(L)
  <2>1. 1 \in Int /\ n \in Int
    OBVIOUS
  <2>2. IsFiniteSet(1 .. n)
    BY <2>1, FS_Interval
  <2>3. L \in SUBSET (1 .. n)
    BY DEF FreeBefore
  <2> QED
    BY <2>2, <2>3, FS_Subset
<1> HIDE DEF K, L
<1>4. IsFiniteSet(K) /\ IsFiniteSet(K \cup {k})
  BY <1>2, <1>3, FS_Subset
<1>5. Cardinality(K) \in Nat /\ Cardinality(L) \in Nat
  BY <1>3, <1>4, FS_CardinalityType
<1>6. Cardinality(K \cup {k}) = Cardinality(K) + 1
  BY <1>2, <1>4, FS_AddElement
<1>7. Cardinality(K \cup {k}) <= Cardinality(L)
  BY <1>2, <1>3, FS_Subset
<1>8. Cardinality(K) < Cardinality(L)
  BY <1>5, <1>6, <1>7
<1> QED
  BY <1>5, <1>8 DEF K, L

\* The colour of a free variable's literal is that of no other literal.
LEMMA FreeVariablesAreFixed ==
    ASSUME NEW n, NEW cs, NEW f, IsProblem(n, cs), IsAutomorphism(f, n, cs),
           NEW v \in 1 .. n, \A i \in DOMAIN cs : LiteralsOf(cs[i], v) = {}
    PROVE  LiteralMap(f, n, v) = v
<1> DEFINE m == LiteralMap(f, n, v)
           card(l) == Cardinality(FreeBefore(l, n, cs))
<1>1. n \in Nat /\ n <= NumVars
  BY NodesAreFinite
<1>2. v \in LiteralsUpTo(n) /\ Variable(v) = v /\ Variable(-v) = v /\ v > 0
  BY <1>1 DEF LiteralsUpTo, Literal, Variable
<1>3. /\ m \in LiteralsUpTo(n)
      /\ Literal2Node(v, n) \in Nodes(n, cs)
      /\ Literal2Node(m, n) = f[Literal2Node(v, n)]
  BY <1>2, LiteralMapFacts
<1>4. \A l \in LiteralsUpTo(n) :
          /\ Literal2Node(l, n) \in LiteralNodes(n)
          /\ Node2Literal(Literal2Node(l, n), n) = l
          /\ IsLiteralNode(Literal2Node(l, n), n)
  BY NodesAreFinite, NodeFacts
<1>5. \A l \in LiteralsUpTo(n) : Color(Literal2Node(l, n), n, cs) = LiteralNodeColor(l, n, cs)
  BY <1>4 DEF Color
<1>6. LiteralNodeColor(m, n, cs) = LiteralNodeColor(v, n, cs)
  BY <1>2, <1>3, <1>5 DEF IsAutomorphism
<1>7. IsFreeVariable(v, cs)
  <2>1. \A i \in DOMAIN cs : v \notin cs[i] /\ -v \notin cs[i]
    BY <1>2 DEF LiteralsOf
  <2>2. /\ {i \in DOMAIN cs : v \in cs[i]} = {}
        /\ {i \in DOMAIN cs : -v \in cs[i]} = {}
    BY <2>1
  <2> QED
    BY <2>2, FS_EmptySet DEF IsFreeVariable, Degree
<1>8. \A l : card(l) \in Nat
  <2>1. IsFiniteSet(1 .. n)
    <3>1. 1 \in Int /\ n \in Int
      BY <1>1
    <3> QED
      BY <3>1, FS_Interval
  <2>2. \A l : FreeBefore(l, n, cs) \in SUBSET (1 .. n)
    BY DEF FreeBefore
  <2>3. \A l : IsFiniteSet(FreeBefore(l, n, cs))
    BY <2>1, <2>2, FS_Subset
  <2> QED
    BY <2>3, FS_CardinalityType
<1>9. \A l : FreeColor(l, n, cs) = ClauseColor + 1 + (IF l > 0 THEN 0 ELSE 1) + 2 * card(l)
  BY DEF FreeColor, FreeBefore
<1> HIDE DEF m, card
<1>10. LiteralNodeColor(v, n, cs) = 2 + 2 * card(v)
  BY <1>2, <1>7, <1>8, <1>9 DEF LiteralNodeColor, ClauseColor
<1>11. IsFreeVariable(Variable(m), cs)
  BY <1>6, <1>8, <1>10 DEF LiteralNodeColor, LiteralColor
<1>12. 2 + (IF m > 0 THEN 0 ELSE 1) + 2 * card(m) = 2 + 2 * card(v)
  BY <1>6, <1>8, <1>9, <1>10, <1>11 DEF LiteralNodeColor, ClauseColor
<1>13. m > 0 /\ card(m) = card(v)
  BY <1>8, <1>12
<1>14. m \in 1 .. n /\ Variable(m) = m
  BY <1>1, <1>3, <1>13 DEF LiteralsUpTo, Literal, Variable
<1>15. ~(m < v) /\ ~(v < m)
  BY <1>1, <1>7, <1>11, <1>13, <1>14, FreeBeforeGrows DEF card
<1>16. m = v
  BY <1>14, <1>15
<1> QED
  BY <1>16 DEF m

-----------------------------------------------------------------------------
\* The permutation that is built link by link.

\* The maps of p are those of f between D and R, and undo each other.
MapsOn(p, f, n, D, R) ==
    /\ p \in [cycles : Seq(Literal), cyclesLim : Seq(Nat), image : [D -> R], inverse : [R -> D]]
    /\ \A l \in D : p.image[l] = LiteralMap(f, n, l) /\ p.inverse[p.image[l]] = l
    /\ \A l \in R : p.image[p.inverse[l]] = l

\* Where the cycle of number c begins.
CycleStart(p, c) == IF c = 1 THEN 0 ELSE p.cyclesLim[c - 1]

\* The literals of the cycles are those of W, and the closed cycles are not
\* trivial.
CyclesOn(p, W) ==
    /\ ToSet(p.cycles) = W
    /\ \A c \in 1 .. NumCycles(p) :
          /\ p.cyclesLim[c] \in 1 .. Len(p.cycles)
          /\ CycleStart(p, c) + 2 <= p.cyclesLim[c]

LEMMA CyclesFacts ==
    ASSUME NEW p, NEW f, NEW n, NEW D, NEW R, NEW W, MapsOn(p, f, n, D, R), CyclesOn(p, W)
    PROVE  /\ Len(p.cycles) \in Nat /\ NumCycles(p) \in Nat
           /\ DOMAIN p.cycles = 1 .. Len(p.cycles)
           /\ \A k \in 1 .. Len(p.cycles) : p.cycles[k] \in Literal /\ p.cycles[k] \in W
           /\ DOMAIN p.cyclesLim = 1 .. NumCycles(p)
           /\ EndOfCycles(p) = IF NumCycles(p) = 0 THEN 0 ELSE p.cyclesLim[NumCycles(p)]
           /\ EndOfCycles(p) \in 0 .. Len(p.cycles)
<1>1. p.cycles \in Seq(Literal) /\ p.cyclesLim \in Seq(Nat)
  BY DEF MapsOn
<1>2. Len(p.cycles) \in Nat /\ DOMAIN p.cycles = 1 .. Len(p.cycles)
  BY <1>1, LenProperties
<1>3. NumCycles(p) \in Nat /\ DOMAIN p.cyclesLim = 1 .. NumCycles(p)
  BY <1>1, LenProperties DEF NumCycles
<1>4. \A k \in 1 .. Len(p.cycles) : p.cycles[k] \in Literal /\ p.cycles[k] \in W
  <2>1. \A k \in 1 .. Len(p.cycles) : p.cycles[k] \in Literal
    BY <1>1, ElementOfSeq
  <2> QED
    BY <1>2, <2>1 DEF CyclesOn, ToSet
<1>5. p.cyclesLim = << >> <=> NumCycles(p) = 0
  BY <1>1, EmptySeq DEF NumCycles
<1>6. EndOfCycles(p) = IF NumCycles(p) = 0 THEN 0 ELSE p.cyclesLim[NumCycles(p)]
  BY <1>5 DEF EndOfCycles, Last, NumCycles
<1>7. EndOfCycles(p) \in 0 .. Len(p.cycles)
  <2>1. CASE NumCycles(p) = 0
    BY <1>2, <1>6, <2>1
  <2>2. CASE NumCycles(p) # 0
    <3>1. NumCycles(p) \in 1 .. NumCycles(p)
      BY <1>3, <2>2
    <3>2. p.cyclesLim[NumCycles(p)] \in 1 .. Len(p.cycles)
      BY <3>1 DEF CyclesOn
    <3> QED
      BY <1>2, <1>6, <2>2, <3>2
  <2> QED
    BY <2>1, <2>2
<1> QED
  BY <1>2, <1>3, <1>4, <1>6, <1>7

\* Literal e has no image yet, and its image i no inverse.
CanLink(p, f, n, D, R, e, i) ==
    /\ MapsOn(p, f, n, D, R)
    /\ e \notin D /\ i \notin R
    /\ i = LiteralMap(f, n, e)

\* q is p with the link from e to i.
IsLinked(q, p, f, n, D, R, e, i) ==
    /\ MapsOn(q, f, n, D \cup {e}, R \cup {i})
    /\ q.cycles = p.cycles
    /\ q.cyclesLim = p.cyclesLim

LEMMA LinkIsAdded ==
    ASSUME NEW p, NEW f, NEW n, NEW D, NEW R, NEW e, NEW i, CanLink(p, f, n, D, R, e, i)
    PROVE  IsLinked(WithImage(p, e, i), p, f, n, D, R, e, i)
<1> DEFINE image == Extended(p.image, e, i)
           inverse == Extended(p.inverse, i, e)
           q == [cycles |-> p.cycles, cyclesLim |-> p.cyclesLim,
                 image |-> image, inverse |-> inverse]
<1>0. MapsOn(p, f, n, D, R) /\ e \notin D /\ i \notin R /\ i = LiteralMap(f, n, e)
  BY DEF CanLink
<1>1. /\ p \in [cycles : Seq(Literal), cyclesLim : Seq(Nat), image : [D -> R], inverse : [R -> D]]
      /\ p.image \in [D -> R] /\ p.inverse \in [R -> D]
  BY <1>0 DEF MapsOn
<1>2. image = [l \in D \cup {e} |-> IF l = e THEN i ELSE p.image[l]]
  BY <1>1 DEF Extended
<1>3. inverse = [l \in R \cup {i} |-> IF l = i THEN e ELSE p.inverse[l]]
  BY <1>1 DEF Extended
<1>4. /\ image \in [D \cup {e} -> R \cup {i}] /\ image[e] = i
      /\ \A l \in D : image[l] = p.image[l] /\ image[l] \in R
  BY <1>0, <1>1, <1>2
<1>5. /\ inverse \in [R \cup {i} -> D \cup {e}] /\ inverse[i] = e
      /\ \A l \in R : inverse[l] = p.inverse[l] /\ inverse[l] \in D
  BY <1>0, <1>1, <1>3
<1>6. WithImage(p, e, i) = q
  <2>1. WithImage(p, e, i) = [p EXCEPT !.image = image, !.inverse = inverse]
    BY DEF WithImage
  <2> HIDE DEF image, inverse
  <2> QED
    BY <1>1, <2>1
<1> HIDE DEF image, inverse
<1>7. \A l \in D \cup {e} : image[l] = LiteralMap(f, n, l) /\ inverse[image[l]] = l
  BY <1>0, <1>4, <1>5 DEF MapsOn
<1>8. \A l \in R \cup {i} : image[inverse[l]] = l
  BY <1>0, <1>4, <1>5 DEF MapsOn
<1>9. q \in [cycles : Seq(Literal), cyclesLim : Seq(Nat),
             image : [D \cup {e} -> R \cup {i}], inverse : [R \cup {i} -> D \cup {e}]]
  BY <1>1, <1>4, <1>5
<1>10. q.image = image /\ q.inverse = inverse
  OBVIOUS
<1> HIDE DEF q
<1>11. MapsOn(q, f, n, D \cup {e}, R \cup {i})
  BY <1>7, <1>8, <1>9, <1>10 DEF MapsOn
<1> QED
  BY <1>6, <1>11 DEF q, IsLinked

LEMMA LiteralIsAppended ==
    ASSUME NEW p, NEW f, NEW n, NEW D, NEW R, NEW W, MapsOn(p, f, n, D, R), CyclesOn(p, W),
           NEW x \in Literal
    PROVE  LET q == [p EXCEPT !.cycles = Append(@, x)]
           IN  /\ MapsOn(q, f, n, D, R) /\ CyclesOn(q, W \cup {x})
               /\ Len(q.cycles) = Len(p.cycles) + 1 /\ Last(q.cycles) = x
               /\ \A k \in 1 .. Len(p.cycles) : q.cycles[k] = p.cycles[k]
               /\ q.cyclesLim = p.cyclesLim
<1> DEFINE q == [p EXCEPT !.cycles = Append(@, x)]
<1>1. p \in [cycles : Seq(Literal), cyclesLim : Seq(Nat), image : [D -> R], inverse : [R -> D]]
  BY DEF MapsOn
<1>2. p.cycles \in Seq(Literal)
  BY <1>1
<1>3. /\ Append(p.cycles, x) \in Seq(Literal)
      /\ Len(Append(p.cycles, x)) = Len(p.cycles) + 1
      /\ \A k \in 1 .. Len(p.cycles) : Append(p.cycles, x)[k] = p.cycles[k]
      /\ Append(p.cycles, x)[Len(p.cycles) + 1] = x
  BY <1>2, AppendProperties
<1>4. /\ q.cycles = Append(p.cycles, x) /\ q.cyclesLim = p.cyclesLim
      /\ q.image = p.image /\ q.inverse = p.inverse
      /\ q \in [cycles : Seq(Literal), cyclesLim : Seq(Nat), image : [D -> R], inverse : [R -> D]]
  BY <1>1, <1>3
<1> HIDE DEF q
<1>5. MapsOn(q, f, n, D, R)
  BY <1>4 DEF MapsOn
<1>6. /\ Len(p.cycles) \in Nat /\ DOMAIN p.cycles = 1 .. Len(p.cycles)
      /\ DOMAIN q.cycles = 1 .. Len(p.cycles) + 1
  BY <1>2, <1>3, <1>4, LenProperties
<1>7. ToSet(q.cycles) = W \cup {x}
  <2>1. W = {p.cycles[k] : k \in 1 .. Len(p.cycles)}
    BY <1>6 DEF CyclesOn, ToSet
  <2>2. \A k : k \in 1 .. Len(p.cycles) + 1 <=> k \in 1 .. Len(p.cycles) \/ k = Len(p.cycles) + 1
    BY <1>6
  <2>3. ToSet(q.cycles) = {q.cycles[k] : k \in 1 .. Len(p.cycles) + 1}
    BY <1>6 DEF ToSet
  <2> QED
    BY <1>3, <1>4, <2>1, <2>2, <2>3
<1>8. Last(q.cycles) = x
  BY <1>3, <1>4 DEF Last
<1>9. ASSUME NEW c \in 1 .. NumCycles(q)
      PROVE  q.cyclesLim[c] \in 1 .. Len(q.cycles) /\ CycleStart(q, c) + 2 <= q.cyclesLim[c]
  <2>1. c \in 1 .. NumCycles(p)
    BY <1>4 DEF NumCycles
  <2>2. p.cyclesLim[c] \in 1 .. Len(p.cycles) /\ CycleStart(p, c) + 2 <= p.cyclesLim[c]
    BY <2>1 DEF CyclesOn
  <2>3. q.cyclesLim[c] \in 1 .. Len(q.cycles)
    BY <1>3, <1>4, <1>6, <2>2
  <2> QED
    BY <1>4, <2>2, <2>3 DEF CycleStart
<1>10. CyclesOn(q, W \cup {x})
  BY <1>7, <1>9 DEF CyclesOn
<1> QED
  BY <1>3, <1>4, <1>5, <1>8, <1>10 DEF q

\* The first literal of a cycle gets no link.
LEMMA FirstLiteral ==
    ASSUME NEW p, NEW f, NEW n, NEW W, MapsOn(p, f, n, W, W), CyclesOn(p, W),
           EndOfCycles(p) = Len(p.cycles), NEW x \in Literal
    PROVE  LET q == AddToCurrentCycle(p, x)
           IN  /\ MapsOn(q, f, n, W, W) /\ CyclesOn(q, W \cup {x})
               /\ EndOfCycles(q) + 1 = Len(q.cycles)
               /\ q.cycles[EndOfCycles(q) + 1] = x /\ Last(q.cycles) = x
<1> DEFINE q == [p EXCEPT !.cycles = Append(@, x)]
<1>1. AddToCurrentCycle(p, x) = q
  BY DEF AddToCurrentCycle
<1>2. /\ MapsOn(q, f, n, W, W) /\ CyclesOn(q, W \cup {x})
      /\ Len(q.cycles) = Len(p.cycles) + 1 /\ Last(q.cycles) = x
      /\ q.cyclesLim = p.cyclesLim
  BY LiteralIsAppended
<1> HIDE DEF q
<1>3. EndOfCycles(q) = Len(p.cycles)
  BY <1>2 DEF EndOfCycles
<1>4. q.cycles[EndOfCycles(q) + 1] = x
  BY <1>2, <1>3 DEF Last
<1> QED
  BY <1>1, <1>2, <1>3, <1>4

\* Every other is the image of the one before.
CanFollow(p, f, n, D, R, W, x) ==
    /\ MapsOn(p, f, n, D, R) /\ CyclesOn(p, W)
    /\ EndOfCycles(p) < Len(p.cycles)
    /\ x \in Literal /\ x \notin R /\ Last(p.cycles) \notin D
    /\ x = LiteralMap(f, n, Last(p.cycles))

IsFollowed(q, p, f, n, D, R, W, x) ==
    /\ MapsOn(q, f, n, D \cup {Last(p.cycles)}, R \cup {x})
    /\ CyclesOn(q, W \cup {x})
    /\ EndOfCycles(q) = EndOfCycles(p) /\ Len(q.cycles) = Len(p.cycles) + 1
    /\ q.cycles[EndOfCycles(q) + 1] = p.cycles[EndOfCycles(p) + 1]
    /\ Last(q.cycles) = x

LEMMA NextLiteral ==
    ASSUME NEW p, NEW f, NEW n, NEW D, NEW R, NEW W, NEW x, CanFollow(p, f, n, D, R, W, x)
    PROVE  IsFollowed(AddToCurrentCycle(p, x), p, f, n, D, R, W, x)
<1> DEFINE r == [p EXCEPT !.cycles = Append(@, x)]
           last == Last(p.cycles)
           q == WithImage(r, last, x)
<1>0. /\ MapsOn(p, f, n, D, R) /\ CyclesOn(p, W)
      /\ EndOfCycles(p) < Len(p.cycles)
      /\ x \in Literal /\ x \notin R /\ Last(p.cycles) \notin D
      /\ x = LiteralMap(f, n, Last(p.cycles))
  BY DEF CanFollow
<1>1. Len(p.cycles) \in Nat /\ EndOfCycles(p) \in 0 .. Len(p.cycles)
  BY <1>0, CyclesFacts
<1>2. AddToCurrentCycle(p, x) = q
  BY <1>0, <1>1 DEF AddToCurrentCycle
<1>3. /\ MapsOn(r, f, n, D, R) /\ CyclesOn(r, W \cup {x})
      /\ Len(r.cycles) = Len(p.cycles) + 1 /\ Last(r.cycles) = x
      /\ \A k \in 1 .. Len(p.cycles) : r.cycles[k] = p.cycles[k]
      /\ r.cyclesLim = p.cyclesLim
  BY <1>0, LiteralIsAppended
<1>3a. last \notin D /\ x \notin R /\ x = LiteralMap(f, n, last)
  BY <1>0
<1> HIDE DEF r, last
<1>4. /\ MapsOn(q, f, n, D \cup {last}, R \cup {x})
      /\ q.cycles = r.cycles /\ q.cyclesLim = r.cyclesLim
  <2>1. CanLink(r, f, n, D, R, last, x)
    BY <1>3, <1>3a DEF CanLink
  <2>2. IsLinked(q, r, f, n, D, R, last, x)
    BY <2>1, LinkIsAdded
  <2> QED
    BY <2>2 DEF IsLinked
<1> HIDE DEF q
<1>5. CyclesOn(q, W \cup {x})
  BY <1>3, <1>4 DEF CyclesOn, NumCycles, CycleStart
<1>6. EndOfCycles(q) = EndOfCycles(p)
  BY <1>3, <1>4 DEF EndOfCycles
<1>7. EndOfCycles(p) + 1 \in 1 .. Len(p.cycles)
  BY <1>0, <1>1
<1>8. q.cycles[EndOfCycles(q) + 1] = p.cycles[EndOfCycles(p) + 1]
  BY <1>3, <1>4, <1>6, <1>7
<1> QED
  BY <1>2, <1>3, <1>4, <1>5, <1>6, <1>8 DEF last, IsFollowed

\* closeCurrentCycle links the last literal of the cycle to the first.
LEMMA CycleIsClosed ==
    ASSUME NEW p, NEW f, NEW n, NEW D, NEW R, NEW W,
           MapsOn(p, f, n, D, R), CyclesOn(p, W),
           EndOfCycles(p) + 2 <= Len(p.cycles),
           p.cycles[EndOfCycles(p) + 1] \notin R, Last(p.cycles) \notin D,
           p.cycles[EndOfCycles(p) + 1] = LiteralMap(f, n, Last(p.cycles))
    PROVE  LET q == CloseCurrentCycle(p)
           IN  /\ MapsOn(q, f, n, D \cup {Last(p.cycles)},
                         R \cup {p.cycles[EndOfCycles(p) + 1]})
               /\ CyclesOn(q, W)
               /\ EndOfCycles(q) = Len(q.cycles)
<1> DEFINE r == [p EXCEPT !.cyclesLim = Append(@, Len(p.cycles))]
           k == EndOfCycles(p)
           m == Len(p.cycles)
           N == NumCycles(p)
           first == p.cycles[k + 1]
           final == p.cycles[m]
           q == WithImage(r, final, first)
<1>1. /\ m \in Nat /\ k \in 0 .. m /\ N \in Nat /\ k + 2 <= m
      /\ \A i \in 1 .. m : p.cycles[i] \in Literal
      /\ DOMAIN p.cyclesLim = 1 .. N
      /\ k = IF N = 0 THEN 0 ELSE p.cyclesLim[N]
  BY CyclesFacts
<1>2. /\ p \in [cycles : Seq(Literal), cyclesLim : Seq(Nat), image : [D -> R], inverse : [R -> D]]
      /\ p.cyclesLim \in Seq(Nat)
  BY DEF MapsOn
<1>3. /\ Append(p.cyclesLim, m) \in Seq(Nat)
      /\ Len(Append(p.cyclesLim, m)) = N + 1
      /\ \A i \in 1 .. N : Append(p.cyclesLim, m)[i] = p.cyclesLim[i]
      /\ Append(p.cyclesLim, m)[N + 1] = m
  BY <1>1, <1>2, AppendProperties DEF NumCycles
<1>4. /\ r.cycles = p.cycles /\ r.cyclesLim = Append(p.cyclesLim, m)
      /\ r.image = p.image /\ r.inverse = p.inverse
      /\ r \in [cycles : Seq(Literal), cyclesLim : Seq(Nat), image : [D -> R], inverse : [R -> D]]
  BY <1>2, <1>3
<1>5. NumCycles(r) = N + 1
  BY <1>3, <1>4 DEF NumCycles
<1>6. CycleStart(r, N + 1) = k
  <2>1. CASE N = 0
    BY <1>1, <2>1 DEF CycleStart
  <2>2. CASE N # 0
    <3>1. N + 1 # 1 /\ (N + 1) - 1 = N /\ N \in 1 .. N
      BY <1>1, <2>2
    <3> HIDE DEF r, N, k, m
    <3>2. r.cyclesLim[(N + 1) - 1] = p.cyclesLim[N]
      BY <1>3, <1>4, <3>1
    <3> QED
      BY <1>1, <2>2, <3>1, <3>2 DEF CycleStart
  <2> QED
    BY <2>1, <2>2
<1>7. r.cyclesLim[N + 1] = m
  BY <1>3, <1>4
<1>8. CloseCurrentCycle(p) = q
  <2> DEFINE last == Cycle(r, NumCycles(r))
  <2>1. CloseCurrentCycle(p) = WithImage(r, Last(last), last[1])
    BY <1>1 DEF CloseCurrentCycle
  <2>2. last = SubSeq(p.cycles, k + 1, m)
    <3> HIDE DEF r, N, k, m
    <3> QED
      BY <1>4, <1>5, <1>6, <1>7 DEF Cycle, CycleStart
  <2>3. /\ Len(last) = m - (k + 1) + 1
        /\ \A i \in 1 .. m - (k + 1) + 1 : last[i] = p.cycles[(k + 1) + i - 1]
    <3>1. k + 1 \in Int /\ m \in Int /\ k + 1 <= m
      BY <1>1
    <3>2. \A i \in k + 1 .. m : p.cycles[i] \in Literal
      BY <1>1
    <3> HIDE DEF last, k, m
    <3> QED
      BY <2>2, <3>1, <3>2, SubSeqProperties
  <2> HIDE DEF last, k, m, r
  <2>4. last[1] = p.cycles[k + 1]
    <3>1. 1 \in 1 .. m - (k + 1) + 1 /\ (k + 1) + 1 - 1 = k + 1
      BY <1>1
    <3> QED
      BY <2>3, <3>1
  <2>5. last[Len(last)] = p.cycles[m]
    <3>1. m \in Int /\ k \in Int /\ k + 2 <= m
      BY <1>1
    <3>2. m - (k + 1) + 1 \in 1 .. m - (k + 1) + 1
      BY <3>1
    <3>3. (k + 1) + (m - (k + 1) + 1) - 1 = m
      BY <3>1
    <3> QED
      BY <2>3, <3>2, <3>3
  <2> QED
    BY <2>1, <2>4, <2>5 DEF Last
<1>9. MapsOn(r, f, n, D, R)
  <2> HIDE DEF r
  <2> QED
    BY <1>4 DEF MapsOn
<1>10. CyclesOn(r, W)
  <2>1. ToSet(r.cycles) = W
    BY <1>4 DEF CyclesOn
  <2>2. ASSUME NEW c \in 1 .. NumCycles(r)
        PROVE  r.cyclesLim[c] \in 1 .. Len(r.cycles) /\ CycleStart(r, c) + 2 <= r.cyclesLim[c]
    <3> HIDE DEF r, k, m, N
    <3>1. CASE c = N + 1
      BY <1>1, <1>4, <1>6, <1>7, <3>1 DEF m
    <3>2. CASE c # N + 1
      <4>1. c \in 1 .. N /\ (c # 1 => c - 1 \in 1 .. N)
        BY <1>1, <1>5, <3>2
      <4>2. p.cyclesLim[c] \in 1 .. Len(p.cycles) /\ CycleStart(p, c) + 2 <= p.cyclesLim[c]
        BY <4>1 DEF CyclesOn, N
      <4>3. r.cyclesLim[c] = p.cyclesLim[c] /\ CycleStart(r, c) = CycleStart(p, c)
        BY <1>3, <1>4, <4>1 DEF CycleStart
      <4> QED
        BY <1>4, <4>2, <4>3
    <3> QED
      BY <3>1, <3>2
  <2> QED
    BY <2>1, <2>2 DEF CyclesOn
<1>10a. final \notin D /\ first \notin R /\ first = LiteralMap(f, n, final)
  BY DEF Last
<1> HIDE DEF r, k, m, first, final
<1>11. /\ MapsOn(q, f, n, D \cup {final}, R \cup {first})
       /\ q.cycles = r.cycles /\ q.cyclesLim = r.cyclesLim
  <2>1. CanLink(r, f, n, D, R, final, first)
    BY <1>9, <1>10a DEF CanLink
  <2>2. IsLinked(q, r, f, n, D, R, final, first)
    BY <2>1, LinkIsAdded
  <2> HIDE DEF q
  <2> QED
    BY <2>2 DEF IsLinked
<1> HIDE DEF q
<1>12. CyclesOn(q, W)
  BY <1>10, <1>11 DEF CyclesOn, NumCycles, CycleStart
<1>13. EndOfCycles(q) = Len(q.cycles)
  <2>1. q.cyclesLim # << >>
    BY <1>1, <1>2, <1>4, <1>11, AppendProperties
  <2>2. Last(q.cyclesLim) = m
    BY <1>3, <1>4, <1>11 DEF Last
  <2> QED
    BY <1>4, <1>11, <2>1, <2>2 DEF EndOfCycles, m
<1> QED
  BY <1>8, <1>11, <1>12, <1>13 DEF Last, k, m, first, final

-----------------------------------------------------------------------------
\* The walk along the cycles of an automorphism.

\* The literals whose nodes are in xs.
LiteralsAt(xs, n) == {l \in LiteralsUpTo(n) : Literal2Node(l, n) \in xs}

\* WithNode, for n variables.
NodeAdded(p, x, n) ==
    IF IsLiteralNode(x, n) THEN AddToCurrentCycle(p, Node2Literal(x, n)) ELSE p

\* The nodes walked are moved, and so far all that are moved have been walked.
WalkedNodes(f, n, cs, i, xs) ==
    /\ xs \subseteq Nodes(n, cs)
    /\ \A x \in xs : f[x] # x
    /\ \A x \in Nodes(n, cs) : x < i /\ f[x] # x => x \in xs

\* All cycles of p are closed, and its maps are those of f on the literals walked.
IsClosedOn(p, f, n, W) ==
    /\ MapsOn(p, f, n, W, W) /\ CyclesOn(p, W)
    /\ EndOfCycles(p) = Len(p.cycles)

\* The last cycle of p begins at first and is open: its last literal has no
\* image yet, and its first no inverse.
IsOpenOn(p, f, n, W, first) ==
    /\ MapsOn(p, f, n, W \ {Last(p.cycles)}, W \ {first}) /\ CyclesOn(p, W)
    /\ EndOfCycles(p) < Len(p.cycles)
    /\ p.cycles[EndOfCycles(p) + 1] = first

BetweenCycles(p, f, n, cs, i, xs) ==
    /\ WalkedNodes(f, n, cs, i, xs)
    /\ i \in 0 .. NumNodes(n, cs)
    /\ IsClosedOn(p, f, n, LiteralsAt(xs, n))

InsideCycle(p, f, n, cs, i, j, xs) ==
    /\ WalkedNodes(f, n, cs, i, xs)
    /\ i \in xs
    /\ j \in Nodes(n, cs) /\ f[j] # j
    /\ IF i \in LiteralNodes(n)
       THEN /\ IsOpenOn(p, f, n, LiteralsAt(xs, n), Node2Literal(i, n))
            /\ j = f[Literal2Node(Last(p.cycles), n)]
       ELSE /\ j \notin LiteralNodes(n)
            /\ IsClosedOn(p, f, n, LiteralsAt(xs, n))

LEMMA LiteralsAtFacts ==
    ASSUME NEW n, NEW cs, IsProblem(n, cs), NEW xs, NEW x
    PROVE  /\ x \in LiteralNodes(n) =>
                 /\ LiteralsAt(xs \cup {x}, n) = LiteralsAt(xs, n) \cup {Node2Literal(x, n)}
                 /\ Node2Literal(x, n) \in LiteralsAt(xs, n) <=> x \in xs
                 /\ Node2Literal(x, n) \in LiteralsUpTo(n)
                 /\ Node2Literal(x, n) \in Literal
                 /\ Literal2Node(Node2Literal(x, n), n) = x
           /\ x \notin LiteralNodes(n) => LiteralsAt(xs \cup {x}, n) = LiteralsAt(xs, n)
           /\ LiteralsAt(xs, n) \subseteq LiteralsUpTo(n)
<1>1. \A l \in LiteralsUpTo(n) :
          /\ Literal2Node(l, n) \in LiteralNodes(n)
          /\ Node2Literal(Literal2Node(l, n), n) = l
  BY NodesAreFinite, NodeFacts
<1>2. \A y \in LiteralNodes(n) :
          /\ Node2Literal(y, n) \in LiteralsUpTo(n)
          /\ Literal2Node(Node2Literal(y, n), n) = y
  BY NodesAreFinite, NodeFacts
<1>3. LiteralsUpTo(n) \subseteq Literal
  BY DEF LiteralsUpTo
<1> QED
  BY <1>1, <1>2, <1>3 DEF LiteralsAt

LEMMA NodeIsSkipped ==
    ASSUME NEW p, NEW f, NEW n, NEW cs, NEW i, NEW xs, IsProblem(n, cs),
           BetweenCycles(p, f, n, cs, i, xs), i \in Nodes(n, cs), f[i] = i \/ i \in xs
    PROVE  BetweenCycles(p, f, n, cs, i + 1, xs)
<1>1. NumNodes(n, cs) \in Nat /\ i \in Int
  BY NodesAreFinite
<1>2. \A x \in Nodes(n, cs) : x \in Int
  BY NodesAreFinite
<1>3. i + 1 \in 0 .. NumNodes(n, cs)
  BY <1>1 DEF Nodes
<1>4. \A x \in Nodes(n, cs) : x < i + 1 => x < i \/ x = i
  BY <1>1, <1>2
<1>5. WalkedNodes(f, n, cs, i + 1, xs)
  BY <1>4 DEF BetweenCycles, WalkedNodes
<1> QED
  BY <1>3, <1>5 DEF BetweenCycles

\* A cycle begins with a literal or with the node of a clause.
LEMMA CycleStarts ==
    ASSUME NEW p, NEW f, NEW n, NEW cs, NEW i, NEW xs, IsProblem(n, cs),
           IsAutomorphism(f, n, cs), BetweenCycles(p, f, n, cs, i, xs),
           i \in Nodes(n, cs), f[i] # i, i \notin xs
    PROVE  InsideCycle(NodeAdded(p, i, n), f, n, cs, i, f[i], xs \cup {i})
<1> DEFINE q == NodeAdded(p, i, n)
           W == LiteralsAt(xs, n)
           x == Node2Literal(i, n)
<1>1. f[i] \in Nodes(n, cs) /\ f[f[i]] # f[i]
  BY DEF IsAutomorphism
<1>2. WalkedNodes(f, n, cs, i, xs \cup {i}) /\ i \in xs \cup {i}
  BY DEF BetweenCycles, WalkedNodes
<1>3. IsLiteralNode(i, n) <=> i \in LiteralNodes(n)
  BY NodesAreFinite
<1>4. MapsOn(p, f, n, W, W) /\ CyclesOn(p, W) /\ EndOfCycles(p) = Len(p.cycles)
  BY DEF BetweenCycles, IsClosedOn
<1>5. CASE i \in LiteralNodes(n)
  <2>1. /\ LiteralsAt(xs \cup {i}, n) = W \cup {x} /\ x \notin W
        /\ x \in Literal /\ Literal2Node(x, n) = i
    BY <1>5, LiteralsAtFacts
  <2>2. q = AddToCurrentCycle(p, x)
    BY <1>3, <1>5 DEF NodeAdded
  <2> HIDE DEF q, x, W
  <2>3. /\ MapsOn(q, f, n, W, W) /\ CyclesOn(q, W \cup {x})
        /\ EndOfCycles(q) + 1 = Len(q.cycles)
        /\ q.cycles[EndOfCycles(q) + 1] = x /\ Last(q.cycles) = x
    BY <1>4, <2>1, <2>2, FirstLiteral
  <2>4. (W \cup {x}) \ {x} = W
    BY <2>1
  <2>5. EndOfCycles(q) < Len(q.cycles)
    <3>1. EndOfCycles(q) \in Int
      <4>1. EndOfCycles(q) \in 0 .. Len(q.cycles) /\ Len(q.cycles) \in Nat
        BY <2>3, CyclesFacts
      <4> QED
        BY <4>1
    <3> QED
      BY <2>3, <3>1
  <2>6. IsOpenOn(q, f, n, W \cup {x}, x)
    BY <2>3, <2>4, <2>5 DEF IsOpenOn
  <2>7. f[i] = f[Literal2Node(Last(q.cycles), n)]
    BY <2>1, <2>3
  <2> QED
    BY <1>1, <1>2, <1>5, <2>1, <2>6, <2>7 DEF InsideCycle, q, x
<1>6. CASE i \notin LiteralNodes(n)
  <2>1. LiteralsAt(xs \cup {i}, n) = W
    BY <1>6, LiteralsAtFacts
  <2>2. q = p
    BY <1>3, <1>6 DEF NodeAdded
  <2>3. f[i] \notin LiteralNodes(n)
    BY <1>6 DEF IsAutomorphism
  <2>4. IsClosedOn(q, f, n, LiteralsAt(xs \cup {i}, n))
    BY <1>4, <2>1, <2>2 DEF IsClosedOn
  <2> QED
    BY <1>1, <1>2, <1>6, <2>3, <2>4 DEF InsideCycle
<1> QED
  BY <1>5, <1>6

\* The inner loop adds the next node of the cycle.
LEMMA CycleIsFollowed ==
    ASSUME NEW p, NEW f, NEW n, NEW cs, NEW i, NEW j, NEW xs, IsProblem(n, cs),
           IsAutomorphism(f, n, cs), InsideCycle(p, f, n, cs, i, j, xs), j # i
    PROVE  InsideCycle(NodeAdded(p, j, n), f, n, cs, i, f[j], xs \cup {j})
<1> DEFINE q == NodeAdded(p, j, n)
           W == LiteralsAt(xs, n)
           first == Node2Literal(i, n)
           last == Last(p.cycles)
           x == Node2Literal(j, n)
<1>1. j \in Nodes(n, cs) /\ f[j] # j /\ f[j] \in Nodes(n, cs) /\ f[f[j]] # f[j]
  BY DEF IsAutomorphism, InsideCycle
<1>2. WalkedNodes(f, n, cs, i, xs \cup {j}) /\ i \in xs \cup {j}
  BY DEF InsideCycle, WalkedNodes
<1>3. IsLiteralNode(j, n) <=> j \in LiteralNodes(n)
  BY <1>1, NodesAreFinite
<1>4. CASE i \in LiteralNodes(n)
  <2>1. /\ MapsOn(p, f, n, W \ {last}, W \ {first}) /\ CyclesOn(p, W)
        /\ EndOfCycles(p) < Len(p.cycles)
        /\ p.cycles[EndOfCycles(p) + 1] = first
        /\ j = f[Literal2Node(last, n)]
    BY <1>4 DEF InsideCycle, IsOpenOn
  <2>2. last \in W
    <3>1. Len(p.cycles) \in Nat /\ EndOfCycles(p) \in 0 .. Len(p.cycles)
      BY <2>1, CyclesFacts
    <3>2. Len(p.cycles) \in 1 .. Len(p.cycles)
      BY <2>1, <3>1
    <3>3. \A k \in 1 .. Len(p.cycles) : p.cycles[k] \in W
      BY <2>1, CyclesFacts
    <3> QED
      BY <3>2, <3>3 DEF Last
  <2>3. last \in LiteralsUpTo(n) /\ W \subseteq LiteralsUpTo(n)
    BY <2>2, LiteralsAtFacts
  <2>4. j \in LiteralNodes(n)
    <3>1. /\ LiteralMap(f, n, last) \in LiteralsUpTo(n)
          /\ Literal2Node(LiteralMap(f, n, last), n) = j
      BY <2>1, <2>3, LiteralMapFacts
    <3> QED
      BY <3>1, NodesAreFinite, NodeFacts
  <2>5. /\ LiteralsAt(xs \cup {j}, n) = W \cup {x}
        /\ x \in Literal /\ x \in LiteralsUpTo(n) /\ Literal2Node(x, n) = j
        /\ Literal2Node(first, n) = i
    BY <1>4, <2>4, LiteralsAtFacts
  <2>6. x = LiteralMap(f, n, last)
    BY <2>1, <2>3 DEF LiteralMap
  <2>7. x # first
    BY <2>5
  <2>8. q = AddToCurrentCycle(p, x)
    BY <1>3, <2>4 DEF NodeAdded
  <2> HIDE DEF q, W, first, x, last
  <2>9. x \notin W
    <3>1. ASSUME x \in W PROVE FALSE
      <4>1. x \in W \ {first}
        BY <2>7, <3>1
      <4>2. /\ p.inverse[x] \in W \ {last} /\ p.image[p.inverse[x]] = x
            /\ p.image[p.inverse[x]] = LiteralMap(f, n, p.inverse[x])
        BY <2>1, <4>1 DEF MapsOn
      <4>3. p.inverse[x] = last
        BY <2>3, <2>6, <4>2, LiteralMapFacts
      <4> QED
        BY <4>2, <4>3
    <3> QED
      BY <3>1
  <2>10. /\ MapsOn(q, f, n, (W \ {last}) \cup {last}, (W \ {first}) \cup {x})
         /\ CyclesOn(q, W \cup {x})
         /\ EndOfCycles(q) = EndOfCycles(p) /\ Len(q.cycles) = Len(p.cycles) + 1
         /\ q.cycles[EndOfCycles(q) + 1] = p.cycles[EndOfCycles(p) + 1]
         /\ Last(q.cycles) = x
    <3>1. x \notin W \ {first} /\ last \notin W \ {last}
      BY <2>9
    <3>2. CanFollow(p, f, n, W \ {last}, W \ {first}, W, x)
      BY <2>1, <2>5, <2>6, <3>1 DEF CanFollow, last
    <3>3. IsFollowed(q, p, f, n, W \ {last}, W \ {first}, W, x)
      BY <2>8, <3>2, NextLiteral
    <3> QED
      BY <3>3 DEF IsFollowed, last
  <2>11. /\ (W \ {last}) \cup {last} = (W \cup {x}) \ {x}
         /\ (W \ {first}) \cup {x} = (W \cup {x}) \ {first}
    BY <2>2, <2>7, <2>9
  <2>12. EndOfCycles(q) < Len(q.cycles)
    <3>1. EndOfCycles(p) \in 0 .. Len(p.cycles) /\ Len(p.cycles) \in Nat
      BY <2>1, CyclesFacts
    <3> QED
      BY <2>1, <2>10, <3>1
  <2>13. IsOpenOn(q, f, n, W \cup {x}, first)
    BY <2>1, <2>10, <2>11, <2>12 DEF IsOpenOn
  <2>14. f[j] = f[Literal2Node(Last(q.cycles), n)]
    BY <2>5, <2>10
  <2> QED
    BY <1>1, <1>2, <1>4, <2>5, <2>13, <2>14 DEF InsideCycle, q, first
<1>5. CASE i \notin LiteralNodes(n)
  <2>1. j \notin LiteralNodes(n) /\ IsClosedOn(p, f, n, W)
    BY <1>5 DEF InsideCycle
  <2>2. LiteralsAt(xs \cup {j}, n) = W
    BY <2>1, LiteralsAtFacts
  <2>3. q = p
    BY <1>3, <2>1 DEF NodeAdded
  <2>4. f[j] \notin LiteralNodes(n)
    BY <1>1, <2>1 DEF IsAutomorphism
  <2> QED
    BY <1>1, <1>2, <1>5, <2>1, <2>2, <2>3, <2>4 DEF InsideCycle
<1> QED
  BY <1>4, <1>5

\* Back at the first node, the cycle is closed.
LEMMA CycleCloses ==
    ASSUME NEW p, NEW f, NEW n, NEW cs, NEW i, NEW xs, IsProblem(n, cs),
           IsAutomorphism(f, n, cs), InsideCycle(p, f, n, cs, i, i, xs)
    PROVE  BetweenCycles(CloseCurrentCycle(p), f, n, cs, i + 1, xs)
<1> DEFINE q == CloseCurrentCycle(p)
           W == LiteralsAt(xs, n)
           first == Node2Literal(i, n)
           last == Last(p.cycles)
<1>1. i \in Nodes(n, cs) /\ i \in xs /\ f[i] # i
  BY DEF InsideCycle
<1>2. NumNodes(n, cs) \in Nat /\ i \in Int /\ \A x \in Nodes(n, cs) : x \in Int
  BY <1>1, NodesAreFinite
<1>3. i + 1 \in 0 .. NumNodes(n, cs)
  BY <1>1, <1>2 DEF Nodes
<1>4. WalkedNodes(f, n, cs, i + 1, xs)
  <2>1. \A x \in Nodes(n, cs) : x < i + 1 => x < i \/ x = i
    BY <1>2
  <2> QED
    BY <1>1, <2>1 DEF InsideCycle, WalkedNodes
<1>5. CASE i \in LiteralNodes(n)
  <2>1. /\ MapsOn(p, f, n, W \ {last}, W \ {first}) /\ CyclesOn(p, W)
        /\ EndOfCycles(p) < Len(p.cycles)
        /\ p.cycles[EndOfCycles(p) + 1] = first
        /\ i = f[Literal2Node(last, n)]
    BY <1>5 DEF InsideCycle, IsOpenOn
  <2>2. Len(p.cycles) \in Nat /\ EndOfCycles(p) \in 0 .. Len(p.cycles)
    BY <2>1, CyclesFacts
  <2>3. last \in W
    <3>1. Len(p.cycles) \in 1 .. Len(p.cycles)
      BY <2>1, <2>2
    <3>2. \A k \in 1 .. Len(p.cycles) : p.cycles[k] \in W
      BY <2>1, CyclesFacts
    <3> QED
      BY <3>1, <3>2 DEF Last
  <2>4. last \in LiteralsUpTo(n)
    BY <2>3, LiteralsAtFacts
  <2>5. first \in W /\ Literal2Node(first, n) = i
    BY <1>1, <1>5, LiteralsAtFacts
  <2>6. first = LiteralMap(f, n, last)
    BY <2>1, <2>4 DEF LiteralMap
  <2>7. EndOfCycles(p) + 2 <= Len(p.cycles)
    <3>1. ASSUME EndOfCycles(p) + 1 = Len(p.cycles) PROVE FALSE
      <4>1. last = first
        BY <2>1, <3>1 DEF Last
      <4> QED
        BY <1>1, <2>1, <2>5, <4>1
    <3> QED
      BY <2>1, <2>2, <3>1
  <2> HIDE DEF W, first, last
  <2>8. /\ MapsOn(q, f, n, (W \ {last}) \cup {last}, (W \ {first}) \cup {first})
        /\ CyclesOn(q, W)
        /\ EndOfCycles(q) = Len(q.cycles)
    <3>1. first \notin W \ {first} /\ last \notin W \ {last}
      OBVIOUS
    <3> QED
      BY <2>1, <2>6, <2>7, <3>1, CycleIsClosed DEF last
  <2>9. (W \ {last}) \cup {last} = W /\ (W \ {first}) \cup {first} = W
    BY <2>3, <2>5
  <2>10. IsClosedOn(q, f, n, W)
    BY <2>8, <2>9 DEF IsClosedOn
  <2> QED
    BY <1>3, <1>4, <2>10 DEF BetweenCycles, W
<1>6. CASE i \notin LiteralNodes(n)
  <2>1. IsClosedOn(p, f, n, W)
    BY <1>6 DEF InsideCycle
  <2>2. q = p
    BY <2>1 DEF IsClosedOn, CloseCurrentCycle
  <2> QED
    BY <1>3, <1>4, <2>1, <2>2 DEF BetweenCycles
<1> QED
  BY <1>5, <1>6

-----------------------------------------------------------------------------
\* What the group is given when the walk ends.

LEMMA ClosedCycles ==
    ASSUME NEW p, NEW f, NEW n, NEW D, NEW R, NEW W, MapsOn(p, f, n, D, R), CyclesOn(p, W),
           NEW c \in 1 .. NumCycles(p)
    PROVE  /\ CycleStart(p, c) \in 0 .. Len(p.cycles)
           /\ p.cyclesLim[c] \in 1 .. Len(p.cycles)
           /\ Len(Cycle(p, c)) = p.cyclesLim[c] - CycleStart(p, c)
           /\ Len(Cycle(p, c)) >= 2
           /\ DOMAIN Cycle(p, c) = 1 .. Len(Cycle(p, c))
           /\ \A k \in 1 .. Len(Cycle(p, c)) : Cycle(p, c)[k] = p.cycles[CycleStart(p, c) + k]
<1> DEFINE a == CycleStart(p, c)
           z == p.cyclesLim[c]
<1>1. Len(p.cycles) \in Nat /\ NumCycles(p) \in Nat
  BY CyclesFacts
<1>2. z \in 1 .. Len(p.cycles) /\ a + 2 <= z
  BY DEF CyclesOn
<1>3. a \in 0 .. Len(p.cycles)
  <2>1. CASE c = 1
    BY <1>1, <2>1 DEF CycleStart
  <2>2. CASE c # 1
    <3>1. c - 1 \in 1 .. NumCycles(p)
      BY <1>1, <2>2
    <3>2. p.cyclesLim[c - 1] \in 1 .. Len(p.cycles)
      BY <3>1 DEF CyclesOn
    <3> QED
      BY <1>1, <2>2, <3>2 DEF CycleStart
  <2> QED
    BY <2>1, <2>2
<1>4. Cycle(p, c) = SubSeq(p.cycles, a + 1, z)
  BY DEF Cycle, CycleStart
<1>5. \A k \in 1 .. Len(p.cycles) : p.cycles[k] \in Literal
  BY CyclesFacts
<1> HIDE DEF a, z
<1>6. a + 1 \in Int /\ z \in Int /\ a + 1 <= z /\ \A k \in a + 1 .. z : p.cycles[k] \in Literal
  BY <1>1, <1>2, <1>3, <1>5
<1>7. /\ Cycle(p, c) \in Seq(Literal)
      /\ Len(Cycle(p, c)) = z - (a + 1) + 1
      /\ \A k \in 1 .. z - (a + 1) + 1 : Cycle(p, c)[k] = p.cycles[(a + 1) + k - 1]
  BY <1>4, <1>6, SubSeqProperties
<1>8. Len(Cycle(p, c)) = z - a /\ Len(Cycle(p, c)) >= 2
  BY <1>1, <1>2, <1>3, <1>7
<1>9. ASSUME NEW k \in 1 .. Len(Cycle(p, c)) PROVE Cycle(p, c)[k] = p.cycles[a + k]
  <2>1. k \in 1 .. z - (a + 1) + 1 /\ (a + 1) + k - 1 = a + k
    BY <1>1, <1>2, <1>3, <1>7
  <2> QED
    BY <1>7, <2>1
<1>10. DOMAIN Cycle(p, c) = 1 .. Len(Cycle(p, c))
  BY <1>7, LenProperties
<1> QED
  BY <1>2, <1>3, <1>8, <1>9, <1>10 DEF a, z

\* The literals of the closed cycles are those of the permutation.
LEMMA CycleLiteralsFacts ==
    ASSUME NEW p, NEW f, NEW n, NEW W, IsClosedOn(p, f, n, W)
    PROVE  CycleLiterals(p) = W
<1> DEFINE N == NumCycles(p)
           m == Len(p.cycles)
<1>1. MapsOn(p, f, n, W, W) /\ CyclesOn(p, W) /\ EndOfCycles(p) = m
  BY DEF IsClosedOn
<1>2. /\ m \in Nat /\ N \in Nat
      /\ DOMAIN p.cycles = 1 .. m
      /\ \A k \in 1 .. m : p.cycles[k] \in W
      /\ EndOfCycles(p) = IF N = 0 THEN 0 ELSE p.cyclesLim[N]
  BY <1>1, CyclesFacts
<1>3. W = {p.cycles[k] : k \in 1 .. m}
  BY <1>1, <1>2 DEF CyclesOn, ToSet
<1>4. \A c \in 1 .. N :
          /\ CycleStart(p, c) \in 0 .. m
          /\ p.cyclesLim[c] \in 1 .. m
          /\ Len(Cycle(p, c)) = p.cyclesLim[c] - CycleStart(p, c)
          /\ DOMAIN Cycle(p, c) = 1 .. Len(Cycle(p, c))
          /\ \A k \in 1 .. Len(Cycle(p, c)) : Cycle(p, c)[k] = p.cycles[CycleStart(p, c) + k]
  BY <1>1, ClosedCycles
<1> HIDE DEF N, m
<1>5. ASSUME NEW c \in 1 .. N, NEW k \in DOMAIN Cycle(p, c) PROVE Cycle(p, c)[k] \in W
  <2>1. k \in 1 .. Len(Cycle(p, c))
    BY <1>4
  <2>2. CycleStart(p, c) + k \in 1 .. m
    <3>1. /\ CycleStart(p, c) \in 0 .. m /\ p.cyclesLim[c] \in 1 .. m
          /\ Len(Cycle(p, c)) = p.cyclesLim[c] - CycleStart(p, c)
      BY <1>4
    <3> QED
      BY <1>2, <2>1, <3>1
  <2> QED
    BY <1>2, <1>4, <2>1, <2>2
<1>6. ASSUME NEW l \in W PROVE \E c \in 1 .. N : l \in ToSet(Cycle(p, c))
  <2>1. PICK k \in 1 .. m : l = p.cycles[k]
    BY <1>3
  <2> DEFINE T == {c \in 1 .. N : k <= p.cyclesLim[c]}
  <2>2. N # 0 /\ p.cyclesLim[N] = m
    BY <1>1, <1>2, <2>1
  <2>3. N \in T
    BY <1>2, <2>1, <2>2
  <2>4. PICK c \in T : \A d \in T : c <= d
    <3>1. T \subseteq Nat /\ T # {}
      BY <2>3
    <3> HIDE DEF T
    <3> QED
      BY <3>1, LeastElement
  <2>5. c \in 1 .. N /\ k <= p.cyclesLim[c]
    BY <2>4
  <2>6. CycleStart(p, c) < k
    <3>1. CASE c = 1
      BY <2>1, <3>1 DEF CycleStart
    <3>2. CASE c # 1
      <4>1. c - 1 \in 1 .. N /\ ~(c <= c - 1)
        BY <1>2, <2>5, <3>2
      <4>2. c - 1 \notin T
        <5> HIDE DEF T
        <5> QED
          BY <2>4, <4>1
      <4>3. ~(k <= p.cyclesLim[c - 1])
        BY <4>1, <4>2
      <4>4. p.cyclesLim[c - 1] \in 1 .. m
        BY <1>4, <4>1
      <4> QED
        BY <2>1, <3>2, <4>3, <4>4 DEF CycleStart
    <3> QED
      BY <3>1, <3>2
  <2> DEFINE i == k - CycleStart(p, c)
  <2>7. i \in 1 .. Len(Cycle(p, c)) /\ CycleStart(p, c) + i = k
    <3>1. /\ CycleStart(p, c) \in 0 .. m /\ p.cyclesLim[c] \in 1 .. m
          /\ Len(Cycle(p, c)) = p.cyclesLim[c] - CycleStart(p, c)
      BY <1>4, <2>5
    <3> QED
      BY <1>2, <2>1, <2>5, <2>6, <3>1
  <2>8. l = Cycle(p, c)[i] /\ i \in DOMAIN Cycle(p, c)
    <3> HIDE DEF i
    <3> QED
      BY <1>4, <2>1, <2>5, <2>7
  <2>9. l \in ToSet(Cycle(p, c))
    BY <2>8 DEF ToSet
  <2> QED
    BY <2>5, <2>9
<1>7. CycleLiterals(p) = UNION {ToSet(Cycle(p, c)) : c \in 1 .. N}
  BY DEF CycleLiterals, N
<1>8. \A c \in 1 .. N : ToSet(Cycle(p, c)) \subseteq W
  BY <1>5 DEF ToSet
<1> QED
  BY <1>6, <1>7, <1>8

\* The variables a permutation moves and those it takes to their negation, as
\* Group::addPermutation finds them.
MovedVariables(p) == {Variable(l) : l \in CycleLiterals(p)}

InvertedVariables(p) ==
    {Variable(l) : l \in {m \in CycleLiterals(p) : p.image[m] = Negated(m)}}

\* A permutation the walk has ended with and the filter lets through.
IsAccepted(p, f, n, cs, xs) ==
    /\ IsAutomorphism(f, n, cs)
    /\ WalkedNodes(f, n, cs, NumNodes(n, cs), xs)
    /\ IsClosedOn(p, f, n, LiteralsAt(xs, n))
    /\ ~IsPermutationSpurious(p)

\* What the group keeps of it: a symmetry of the clauses, whose variables are
\* those in the tables.
IsGenerator(p, n, cs) ==
    /\ IsSymmetry(InverseMap(p), cs)
    /\ MovedVariables(p) \subseteq 1 .. n
    /\ InvertedVariables(p) \subseteq MovedVariables(p)
    /\ \A v \in Variables : v \in MovedVariables(p) <=> InverseMap(p)[v] # v
    /\ \A v \in MovedVariables(p) : v \in InvertedVariables(p) <=> InverseMap(p)[v] = -v
    /\ \A v \in MovedVariables(p) : \E i \in DOMAIN cs : LiteralsOf(cs[i], v) # {}

\* The maps of an accepted permutation: the literals walked are all that the
\* automorphism moves, and what the filter requires holds for them.
LEMMA AcceptedMaps ==
    ASSUME NEW p, NEW f, NEW n, NEW cs, NEW xs, IsProblem(n, cs), IsAccepted(p, f, n, cs, xs)
    PROVE  LET W == LiteralsAt(xs, n)
           IN  /\ W \subseteq LiteralsUpTo(n) /\ LiteralsUpTo(n) \subseteq Literal
               /\ CycleLiterals(p) = W
               /\ p.image \in [W -> W] /\ p.inverse \in [W -> W]
               /\ \A l \in W : p.inverse[p.image[l]] = l /\ p.image[p.inverse[l]] = l
               /\ \A l \in W : p.image[l] = LiteralMap(f, n, l) /\ LiteralMap(f, n, l) # l
               /\ \A l \in Literal \ W : LiteralMap(f, n, l) = l
               /\ \A l \in W : Negated(l) \in W /\ p.image[Negated(l)] = Negated(p.image[l])
<1> DEFINE W == LiteralsAt(xs, n)
<1>1. W \subseteq LiteralsUpTo(n) /\ LiteralsUpTo(n) \subseteq Literal
  BY DEF LiteralsAt, LiteralsUpTo
<1>2. CycleLiterals(p) = W
  BY CycleLiteralsFacts DEF IsAccepted
<1>3. /\ p.image \in [W -> W] /\ p.inverse \in [W -> W]
      /\ \A l \in W : p.image[l] = LiteralMap(f, n, l) /\ p.inverse[p.image[l]] = l
      /\ \A l \in W : p.image[p.inverse[l]] = l
  BY DEF IsAccepted, IsClosedOn, MapsOn
<1>4. ASSUME NEW l \in LiteralsUpTo(n) PROVE LiteralMap(f, n, l) # l <=> l \in W
  <2> DEFINE x == Literal2Node(l, n)
  <2>1. x \in Nodes(n, cs) /\ LiteralMap(f, n, l) \in LiteralsUpTo(n)
        /\ Literal2Node(LiteralMap(f, n, l), n) = f[x]
    BY LiteralMapFacts DEF IsAccepted
  <2>2. \A k \in LiteralsUpTo(n) : Node2Literal(Literal2Node(k, n), n) = k
    BY NodesAreFinite, NodeFacts
  <2>3. LiteralMap(f, n, l) = l <=> f[x] = x
    BY <2>1, <2>2
  <2>4. x < NumNodes(n, cs)
    BY <2>1, NodesAreFinite
  <2>5. f[x] # x <=> x \in xs
    BY <2>1, <2>4 DEF IsAccepted, WalkedNodes
  <2> QED
    BY <2>3, <2>5 DEF LiteralsAt
<1>5. \A l \in W : LiteralMap(f, n, l) # l
  BY <1>1, <1>4
<1>6. \A l \in Literal \ W : LiteralMap(f, n, l) = l
  BY <1>4 DEF LiteralMap
<1>7. ASSUME NEW l \in W
      PROVE  Negated(l) \in W /\ p.image[Negated(l)] = Negated(p.image[l])
  <2>1. /\ ~IsTrivialImage(p, Negated(l))
        /\ Negated(p.image[l]) = p.image[Negated(l)]
    BY <1>2 DEF IsAccepted, IsPermutationSpurious
  <2> QED
    BY <1>3, <2>1 DEF IsTrivialImage
<1> QED
  BY <1>1, <1>2, <1>3, <1>5, <1>6, <1>7

LEMMA AcceptedIsGenerator ==
    ASSUME NEW p, NEW f, NEW n, NEW cs, NEW xs, IsProblem(n, cs), IsAccepted(p, f, n, cs, xs)
    PROVE  IsGenerator(p, n, cs)
<1> DEFINE W == LiteralsAt(xs, n)
           inv == InverseMap(p)
           map(l) == LiteralMap(f, n, l)
<1>0. IsAutomorphism(f, n, cs)
  BY DEF IsAccepted
<1>1. /\ W \subseteq LiteralsUpTo(n) /\ LiteralsUpTo(n) \subseteq Literal
      /\ CycleLiterals(p) = W
      /\ p.image \in [W -> W] /\ p.inverse \in [W -> W]
      /\ \A l \in W : p.inverse[p.image[l]] = l /\ p.image[p.inverse[l]] = l
      /\ \A l \in W : p.image[l] = map(l) /\ map(l) # l
      /\ \A l \in Literal \ W : map(l) = l
      /\ \A l \in W : Negated(l) \in W /\ p.image[Negated(l)] = Negated(p.image[l])
  BY AcceptedMaps
<1>2. \A l \in Literal : Negated(l) \in Literal /\ Negated(Negated(l)) = l
  BY LiteralFacts
<1>3. /\ inv \in [Literal -> Literal]
      /\ \A l \in W : inv[l] = p.inverse[l] /\ inv[l] \in W
      /\ \A l \in Literal \ W : inv[l] = l
  BY <1>1 DEF InverseMap
<1> HIDE DEF W, inv, map
<1>4. \A l \in Literal : map(l) \in Literal /\ inv[map(l)] = l /\ map(inv[l]) = l
  <2>1. ASSUME NEW l \in W PROVE map(l) \in Literal /\ inv[map(l)] = l /\ map(inv[l]) = l
    BY <1>1, <1>3
  <2>2. ASSUME NEW l \in Literal \ W
        PROVE  map(l) \in Literal /\ inv[map(l)] = l /\ map(inv[l]) = l
    BY <1>1, <1>3
  <2> QED
    BY <2>1, <2>2
<1>5. ASSUME NEW l \in Literal PROVE inv[Negated(l)] = Negated(inv[l])
  <2>1. CASE l \in W
    <3>1. /\ inv[l] \in W /\ p.image[inv[l]] = l
          /\ Negated(inv[l]) \in W /\ p.image[Negated(inv[l])] = Negated(l)
      BY <1>1, <1>3, <2>1
    <3>2. p.inverse[Negated(l)] = Negated(inv[l])
      BY <1>1, <3>1
    <3> QED
      BY <1>1, <1>3, <2>1, <3>2
  <2>2. CASE l \notin W
    <3>1. Negated(l) \in Literal \ W
      BY <1>1, <1>2, <2>2
    <3> QED
      BY <1>3, <2>2, <3>1
  <2> QED
    BY <2>1, <2>2
<1>6. InvertsMap(inv, f, n)
  <2>1. \A l \in Literal : inv[l] \in Literal /\ inv[LiteralMap(f, n, l)] = l
    BY <1>3, <1>4 DEF map
  <2>2. ASSUME NEW l \in LiteralsUpTo(n)
        PROVE  inv[l] \in LiteralsUpTo(n) /\ LiteralMap(f, n, inv[l]) = l
    <3>1. l \in Literal
      BY <1>1
    <3>2. inv[l] \in LiteralsUpTo(n)
      BY <1>1, <1>3, <3>1
    <3> QED
      BY <1>4, <3>1, <3>2 DEF map
  <2> QED
    BY <2>1, <2>2 DEF InvertsMap
<1>7. IsSymmetry(inv, cs)
  <2>1. IsInjective(inv)
    <3>1. DOMAIN inv = Literal
      BY <1>3
    <3>2. \A a, b \in Literal : inv[a] = inv[b] => a = b
      BY <1>4
    <3> QED
      BY <3>1, <3>2 DEF IsInjective
  <2>2. \A total \in TotalAssignments :
            Satisfies(total, cs) <=> Satisfies({l \in Literal : inv[l] \in total}, cs)
    BY <1>0, <1>5, <1>6, ModelsAreMapped
  <2> QED
    BY <1>5, <2>1, <2>2 DEF IsSymmetry
<1>8. MovedVariables(p) = {Variable(l) : l \in W}
  BY <1>1 DEF MovedVariables
<1>9. ASSUME NEW v \in Variables PROVE v \in Literal /\ v \in Int /\ Variable(v) = v /\ Negated(v) = -v
  BY DEF Variables, Literal, Variable, Negated
<1>10. ASSUME NEW l \in Literal, NEW v \in Variables, Variable(l) = v
       PROVE  l = v \/ l = Negated(v)
  BY <1>10 DEF Variables, Literal, Variable, Negated
<1>11. ASSUME NEW v \in Variables PROVE v \in MovedVariables(p) <=> v \in W
  <2>1. ASSUME v \in MovedVariables(p) PROVE v \in W
    <3>1. PICK l \in W : Variable(l) = v
      BY <1>8, <2>1
    <3>2. l = v \/ l = Negated(v)
      BY <1>1, <1>10, <3>1
    <3> QED
      BY <1>1, <1>2, <1>9, <3>1, <3>2
  <2>2. ASSUME v \in W PROVE v \in MovedVariables(p)
    BY <1>8, <1>9, <2>2
  <2> QED
    BY <2>1, <2>2
<1>12. MovedVariables(p) \subseteq 1 .. n
  <2>1. \A l \in LiteralsUpTo(n) : Variable(l) \in 1 .. n
    <3>1. n \in Nat
      BY NodesAreFinite
    <3> QED
      BY <3>1 DEF LiteralsUpTo, Literal, Variable
  <2> QED
    BY <1>1, <1>8, <2>1
<1>13. MovedVariables(p) \subseteq Variables /\ \A v \in MovedVariables(p) : v \in 1 .. n
  <2>1. n \in Nat /\ n <= NumVars
    BY NodesAreFinite
  <2> QED
    BY <1>12, <2>1 DEF Variables
<1>14. \A v \in Variables : v \in MovedVariables(p) <=> inv[v] # v
  <2>1. ASSUME NEW v \in W PROVE inv[v] # v
    BY <1>1, <1>3
  <2> QED
    BY <1>3, <1>9, <1>11, <2>1
<1>15. InvertedVariables(p) = {Variable(l) : l \in {m \in W : p.image[m] = Negated(m)}}
  BY <1>1 DEF InvertedVariables
<1>16. InvertedVariables(p) \subseteq MovedVariables(p)
  BY <1>8, <1>15
<1>17. ASSUME NEW v \in MovedVariables(p)
       PROVE  v \in InvertedVariables(p) <=> inv[v] = -v
  <2>1. /\ v \in Variables /\ v \in W /\ v \in Literal /\ Negated(v) \in W
        /\ Negated(Negated(v)) = v /\ Variable(Negated(v)) = v /\ Variable(v) = v
        /\ Negated(v) = -v
    <3>1. v \in Variables
      BY <1>13
    <3> QED
      BY <1>1, <1>9, <1>11, <3>1, LiteralFacts
  <2>2. ASSUME v \in InvertedVariables(p) PROVE inv[v] = -v
    <3>1. PICK m \in W : p.image[m] = Negated(m) /\ Variable(m) = v
      BY <1>15, <2>2
    <3>2. m = v \/ m = Negated(v)
      BY <1>1, <1>10, <2>1, <3>1
    <3>3. p.image[Negated(v)] = v
      BY <1>1, <2>1, <3>1, <3>2
    <3>4. p.inverse[v] = Negated(v)
      BY <1>1, <2>1, <3>3
    <3> QED
      BY <1>3, <2>1, <3>4
  <2>3. ASSUME inv[v] = -v PROVE v \in InvertedVariables(p)
    <3>1. p.inverse[v] = Negated(v)
      BY <1>3, <2>1, <2>3
    <3>2. p.image[Negated(v)] = v
      BY <1>1, <2>1, <3>1
    <3> QED
      BY <1>15, <2>1, <3>2
  <2> QED
    BY <2>2, <2>3
<1>18. ASSUME NEW v \in MovedVariables(p) PROVE \E i \in DOMAIN cs : LiteralsOf(cs[i], v) # {}
  <2>1. v \in W /\ v \in 1 .. n
    BY <1>11, <1>13
  <2>2. LiteralMap(f, n, v) # v
    BY <1>1, <2>1 DEF map
  <2> QED
    BY <1>0, <2>1, <2>2, FreeVariablesAreFixed
<1> QED
  BY <1>7, <1>12, <1>14, <1>16, <1>17, <1>18 DEF IsGenerator, inv

-----------------------------------------------------------------------------
\* The counters of the problem.

\* The places where variable v occurs in the clauses.
Places(cs, v) == {e \in (DOMAIN cs) \X Literal : e[2] \in LiteralsOf(cs[e[1]], v)}

LEMMA LiteralsAreFinite == IsFiniteSet(Literal)
<1>1. -NumVars \in Int /\ NumVars \in Int
  BY NumVarsAssumption
<1>2. IsFiniteSet(-NumVars .. NumVars)
  BY <1>1, FS_Interval
<1>3. Literal \in SUBSET (-NumVars .. NumVars)
  BY DEF Literal
<1> QED
  BY <1>2, <1>3, FS_Subset

\* A clause that is added is counted with its literals.
LEMMA PlacesGrow ==
    ASSUME NEW cs \in Seq(SUBSET Literal), NEW c \in SUBSET Literal, NEW v
    PROVE  Cardinality(Places(Append(cs, c), v)) =
               OccurencesIn(c, v) + Cardinality(Places(cs, v))
<1> DEFINE m == Len(cs)
           A == Places(cs, v)
           L == LiteralsOf(c, v)
           B == {m + 1} \X L
           cs1 == Append(cs, c)
<1>1. m \in Nat /\ DOMAIN cs = 1 .. m
  BY LenProperties
<1>2. /\ cs1 \in Seq(SUBSET Literal) /\ Len(cs1) = m + 1
      /\ \A i \in 1 .. m : cs1[i] = cs[i]
      /\ cs1[m + 1] = c
  BY AppendProperties
<1>3. DOMAIN cs1 = 1 .. m + 1
  BY <1>2, LenProperties
<1>4. L \subseteq Literal /\ IsFiniteSet(L)
  <2>1. L \in SUBSET Literal
    BY DEF LiteralsOf
  <2> QED
    BY <2>1, LiteralsAreFinite, FS_Subset
<1>5. IsFiniteSet(A)
  <2>1. 1 \in Int /\ m \in Int
    BY <1>1
  <2>2. IsFiniteSet(1 .. m)
    BY <2>1, FS_Interval
  <2>3. IsFiniteSet((1 .. m) \X Literal)
    BY <2>2, LiteralsAreFinite, FS_Product
  <2>4. A \in SUBSET ((1 .. m) \X Literal)
    BY <1>1 DEF Places
  <2> QED
    BY <2>3, <2>4, FS_Subset
<1>6. IsFiniteSet(B) /\ Cardinality(B) = Cardinality(L)
  <2>1. IsFiniteSet({m + 1}) /\ Cardinality({m + 1}) = 1
    BY FS_Singleton
  <2>2. IsFiniteSet(B) /\ Cardinality(B) = 1 * Cardinality(L)
    BY <1>4, <2>1, FS_Product
  <2>3. Cardinality(L) \in Nat
    BY <1>4, FS_CardinalityType
  <2> QED
    BY <2>2, <2>3
<1> HIDE DEF cs1, m
<1>7. Places(cs1, v) = A \cup B
  <2>1. ASSUME NEW e \in Places(cs1, v) PROVE e \in A \cup B
    <3>1. e \in (1 .. m + 1) \X Literal /\ e[2] \in LiteralsOf(cs1[e[1]], v)
      BY <1>3 DEF Places
    <3>2. e = <<e[1], e[2]>> /\ e[1] \in 1 .. m + 1 /\ e[2] \in Literal
      BY <3>1
    <3>3. CASE e[1] = m + 1
      BY <1>2, <3>1, <3>2, <3>3
    <3>4. CASE e[1] # m + 1
      <4>1. e[1] \in 1 .. m
        BY <1>1, <3>2, <3>4
      <4>2. cs1[e[1]] = cs[e[1]] /\ e \in (DOMAIN cs) \X Literal
        BY <1>1, <1>2, <3>2, <4>1
      <4> QED
        BY <3>1, <4>2 DEF Places
    <3> QED
      BY <3>3, <3>4
  <2>2. ASSUME NEW e \in A PROVE e \in Places(cs1, v)
    <3>1. e \in (1 .. m) \X Literal /\ e[2] \in LiteralsOf(cs[e[1]], v)
      BY <1>1 DEF Places
    <3>2. e[1] \in 1 .. m /\ e[1] \in 1 .. m + 1 /\ e[2] \in Literal /\ e = <<e[1], e[2]>>
      BY <1>1, <3>1
    <3>3. cs1[e[1]] = cs[e[1]] /\ e \in (1 .. m + 1) \X Literal
      BY <1>2, <3>2
    <3> QED
      BY <1>3, <3>1, <3>3 DEF Places
  <2>3. ASSUME NEW e \in B PROVE e \in Places(cs1, v)
    <3>1. e[1] = m + 1 /\ e[2] \in L /\ e = <<e[1], e[2]>>
      OBVIOUS
    <3>2. e \in (1 .. m + 1) \X Literal
      BY <1>1, <1>4, <3>1
    <3> QED
      BY <1>2, <1>3, <3>1, <3>2 DEF Places
  <2> QED
    BY <2>1, <2>2, <2>3
<1>8. A \cap B = {}
  <2>1. ASSUME NEW e \in A, e \in B PROVE FALSE
    <3>1. e[1] \in 1 .. m /\ e[1] = m + 1
      BY <1>1, <2>1 DEF Places
    <3> QED
      BY <1>1, <3>1
  <2> QED
    BY <2>1
<1> HIDE DEF A, B, L
<1>9. Cardinality(A \cup B) = Cardinality(A) + Cardinality(B) - Cardinality({})
  BY <1>5, <1>6, <1>8, FS_Union
<1>10. Cardinality(A) \in Nat /\ Cardinality(B) \in Nat /\ Cardinality({}) = 0
  BY <1>5, <1>6, FS_CardinalityType, FS_EmptySet
<1>11. Cardinality(A \cup B) = Cardinality(L) + Cardinality(A)
  BY <1>6, <1>9, <1>10
<1> QED
  BY <1>7, <1>11 DEF OccurencesIn, A, L, cs1

\* VariablesWith, for a problem of n variables.
LEMMA VariablesFacts ==
    ASSUME NEW n \in Variables, NEW c \in SUBSET Literal
    PROVE  LET m == Max({n} \cup {Variable(l) : l \in c})
           IN  /\ m \in Variables /\ n <= m
               /\ c \subseteq LiteralsUpTo(m)
               /\ c \subseteq LiteralsUpTo(n) => m = n
<1> DEFINE T == {n} \cup {Variable(l) : l \in c}
           m == Max(T)
<1>1. \A l \in c : l \in Literal /\ Variable(l) \in Variables
  BY LiteralFacts
<1>2. T \subseteq Variables /\ T # {}
  BY <1>1
<1>3. T \subseteq 0 .. NumVars /\ NumVars \in Nat
  BY <1>2, NumVarsAssumption DEF Variables
<1>4. m \in T /\ \A y \in T : y <= m
  <2> HIDE DEF T
  <2> QED
    BY <1>2, <1>3, MaxProperties
<1> HIDE DEF m
<1>5. m \in Variables /\ n <= m
  BY <1>2, <1>4
<1>6. c \subseteq LiteralsUpTo(m)
  BY <1>1, <1>4 DEF LiteralsUpTo
<1>7. ASSUME c \subseteq LiteralsUpTo(n) PROVE m = n
  <2>1. \A y \in T : y <= n
    <3>1. n <= n
      BY DEF Variables
    <3> QED
      BY <1>7, <3>1 DEF LiteralsUpTo
  <2> QED
    BY <1>4, <1>5, <2>1 DEF Variables
<1> QED
  BY <1>5, <1>6, <1>7 DEF m

-----------------------------------------------------------------------------
\* The inductive invariant.  The generators alone say too little of how they
\* came to be: what the walk has done so far has to be known at each of its
\* steps, and of the problem that its counters are right for every clause read.

\* The problem is made of its first variables, and its counters are exact.
CountersAreExact(cs, counters, n) ==
    /\ IsInjective(cs)
    /\ DOMAIN counters = IF cs = << >> THEN {} ELSE 1 .. n
    /\ \A v \in DOMAIN counters : counters[v] = Cardinality(Places(cs, v))

ProblemIsRead ==
    /\ IsProblem(numVariables, clauses)
    /\ \A i \in DOMAIN clauses : clauses[i] # {}
    /\ numClauses \in Nat
    /\ input \in Seq(Seq(Literal) \ {<< >>})
    /\ CountersAreExact(clauses, occurences, numVariables)

\* Nothing is walked before the graph is built, and then only its automorphisms.
PhaseIsRight ==
    /\ phase \in {"load", "search", "walk", "cycle"}
    /\ phase = "load" =>
          /\ aut = << >> /\ node = 0 /\ seen = {} /\ permutation = EmptyPermutation
          /\ permutations = << >> /\ watchers = << >>
          /\ symmetric = {} /\ inverting = {}
    /\ phase # "load" => automorphisms \subseteq Automorphisms(numVariables, clauses)
    /\ aut \in Automorphisms(numVariables, clauses) \/ (aut = << >> /\ seen = {})
    /\ phase \in {"walk", "cycle"} => aut \in Automorphisms(numVariables, clauses)

WalkIsRight ==
    /\ phase # "cycle" => BetweenCycles(permutation, aut, numVariables, clauses, node, seen)
    /\ phase = "cycle" =>
          InsideCycle(permutation, aut, numVariables, clauses, node, cursor, seen)

PermutationRecords ==
    LET maps == UNION {[W -> W] : W \in SUBSET Literal}
    IN  [cycles : Seq(Literal), cyclesLim : Seq(Nat), image : maps, inverse : maps]

\* The tables of the group for the permutations it has.
TablesFor(perms, sym, inverts, watch, n, cs) ==
    /\ perms \in Seq(PermutationRecords)
    /\ \A g \in DOMAIN perms : IsPermutationRecord(perms[g]) /\ IsGenerator(perms[g], n, cs)
    /\ \A v : v \in sym <=> \E g \in DOMAIN perms : v \in MovedVariables(perms[g])
    /\ \A v : v \in inverts <=> \E g \in DOMAIN perms : v \in InvertedVariables(perms[g])
    /\ DOMAIN watch = IF perms = << >> THEN {} ELSE 1 .. n
    /\ \A v \in DOMAIN watch :
          watch[v] = {g \in DOMAIN perms : v \in MovedVariables(perms[g])}

TablesAreRight ==
    TablesFor(permutations, symmetric, inverting, watchers, numVariables, clauses)

GroupIInv ==
    /\ ProblemIsRead
    /\ PhaseIsRight
    /\ WalkIsRight
    /\ TablesAreRight

\* A new clause keeps the problem what it is.
LEMMA ClauseIsAdded ==
    ASSUME NEW n, NEW cs, NEW counters, NEW c \in SUBSET Literal, NEW m, NEW counters1,
           IsProblem(n, cs), CountersAreExact(cs, counters, n), c \notin ToSet(cs),
           m = Max({n} \cup {Variable(l) : l \in c}),
           counters1 = [v \in 1 .. m |->
               OccurencesIn(c, v) + IF v \in DOMAIN counters THEN counters[v] ELSE 0]
    PROVE  /\ IsProblem(m, Append(cs, c))
           /\ CountersAreExact(Append(cs, c), counters1, m)
<1> DEFINE cs1 == Append(cs, c)
           k == Len(cs)
<1>1. n \in Variables /\ n \in Nat /\ cs \in Seq(SUBSET LiteralsUpTo(n))
  BY NodesAreFinite
<1>2. m \in Variables /\ n <= m /\ c \subseteq LiteralsUpTo(m)
  BY <1>1, VariablesFacts
<1>3. n \in Int /\ m \in Int /\ \A l \in LiteralsUpTo(n) : Variable(l) \in Int
  BY <1>1, <1>2, LiteralFacts DEF Variables, LiteralsUpTo
<1>4. LiteralsUpTo(n) \subseteq LiteralsUpTo(m) /\ LiteralsUpTo(m) \subseteq Literal
  <2>1. ASSUME NEW l \in LiteralsUpTo(n) PROVE l \in LiteralsUpTo(m)
    <3>1. l \in Literal /\ Variable(l) \in Int /\ Variable(l) <= n
      BY <1>3 DEF LiteralsUpTo
    <3>2. Variable(l) <= m
      BY <1>2, <1>3, <3>1
    <3> QED
      BY <3>1, <3>2 DEF LiteralsUpTo
  <2> QED
    BY <2>1 DEF LiteralsUpTo
<1>5. cs \in Seq(SUBSET LiteralsUpTo(m)) /\ cs \in Seq(SUBSET Literal)
  BY <1>1, <1>4, SeqMonotonic
<1>6. /\ cs1 \in Seq(SUBSET LiteralsUpTo(m)) /\ Len(cs1) = k + 1 /\ cs1 # << >>
      /\ \A i \in 1 .. k : cs1[i] = cs[i]
      /\ cs1[k + 1] = c
  BY <1>2, <1>5, AppendProperties
<1>7. k \in Nat /\ DOMAIN cs = 1 .. k /\ DOMAIN cs1 = 1 .. k + 1
  BY <1>5, <1>6, LenProperties
<1>8. IsProblem(m, cs1)
  BY <1>2, <1>6 DEF IsProblem
<1>9. IsInjective(cs1)
  <2>1. \A i : i \in 1 .. k + 1 <=> i \in 1 .. k \/ i = k + 1
    BY <1>7
  <2>2. \A i \in 1 .. k : cs[i] # c
    BY <1>7 DEF ToSet
  <2>3. \A i, j \in 1 .. k : cs[i] = cs[j] => i = j
    BY <1>7 DEF CountersAreExact, IsInjective
  <2>4. \A i, j \in 1 .. k + 1 : cs1[i] = cs1[j] => i = j
    <3> HIDE DEF cs1, k
    <3> QED
      BY <1>6, <2>1, <2>2, <2>3
  <2> QED
    BY <1>7, <2>4 DEF IsInjective
<1>10. DOMAIN counters1 = 1 .. m
  OBVIOUS
<1>11. ASSUME NEW v \in 1 .. m PROVE counters1[v] = Cardinality(Places(cs1, v))
  <2>1. Cardinality(Places(cs1, v)) = OccurencesIn(c, v) + Cardinality(Places(cs, v))
    BY <1>5, PlacesGrow
  <2>2. CASE v \in DOMAIN counters
    BY <2>1, <2>2 DEF CountersAreExact
  <2>3. CASE v \notin DOMAIN counters
    <3>1. Places(cs, v) = {}
      <4>1. ASSUME NEW e \in Places(cs, v) PROVE FALSE
        <5>1. e[1] \in 1 .. k /\ e[2] \in cs[e[1]] /\ Variable(e[2]) = v
          BY <1>7 DEF Places, LiteralsOf
        <5>2. cs[e[1]] \in SUBSET LiteralsUpTo(n)
          BY <1>1, <5>1, ElementOfSeq
        <5>3. v <= n
          BY <5>1, <5>2 DEF LiteralsUpTo
        <5>4. v \in 1 .. n
          BY <1>3, <5>3
        <5>5. cs = << >>
          BY <2>3, <5>4 DEF CountersAreExact
        <5> QED
          BY <5>1, <5>5
      <4> QED
        BY <4>1
    <3>2. Cardinality(Places(cs, v)) = 0
      BY <3>1, FS_EmptySet
    <3> QED
      BY <2>1, <2>3, <3>2
  <2> QED
    BY <2>2, <2>3
<1>12. CountersAreExact(cs1, counters1, m)
  BY <1>6, <1>9, <1>10, <1>11 DEF CountersAreExact
<1> QED
  BY <1>8, <1>12

\* Before the first node everything is as it should be.
LEMMA NothingWalked ==
    ASSUME NEW f, NEW n, NEW cs, IsProblem(n, cs)
    PROVE  BetweenCycles(EmptyPermutation, f, n, cs, 0, {})
<1> DEFINE p == EmptyPermutation
<1>1. \A x \in Nodes(n, cs) : ~(x < 0)
  <2>1. \A x \in Nodes(n, cs) : x \in Int /\ 0 <= x
    BY NodesAreFinite
  <2> QED
    BY <2>1
<1>2. WalkedNodes(f, n, cs, 0, {})
  BY <1>1 DEF WalkedNodes
<1>3. 0 \in 0 .. NumNodes(n, cs)
  <2>1. NumNodes(n, cs) \in Nat
    BY NodesAreFinite
  <2> QED
    BY <2>1
<1>4. LiteralsAt({}, n) = {}
  BY DEF LiteralsAt
<1>5. /\ p.cycles = << >> /\ p.cyclesLim = << >> /\ p.image = << >> /\ p.inverse = << >>
      /\ p = [cycles |-> << >>, cyclesLim |-> << >>, image |-> << >>, inverse |-> << >>]
  BY DEF EmptyPermutation
<1>6. << >> \in Seq(Literal) /\ << >> \in Seq(Nat) /\ Len(<< >>) = 0
  BY EmptySeq
<1>7. << >> \in [{} -> {}]
  OBVIOUS
<1>8. MapsOn(p, f, n, {}, {})
  BY <1>5, <1>6, <1>7 DEF MapsOn
<1>9. CyclesOn(p, {})
  BY <1>5, <1>6 DEF CyclesOn, NumCycles, ToSet
<1>10. EndOfCycles(p) = Len(p.cycles)
  BY <1>5, <1>6 DEF EndOfCycles
<1> QED
  BY <1>2, <1>3, <1>4, <1>8, <1>9, <1>10 DEF BetweenCycles, IsClosedOn

\* The records of the permutations.
LEMMA RecordFacts ==
    ASSUME NEW p, NEW f, NEW n, NEW D \in SUBSET Literal, NEW R \in SUBSET Literal, NEW W,
           MapsOn(p, f, n, D, R), CyclesOn(p, W)
    PROVE  IsPermutationRecord(p) /\ (D = R => p \in PermutationRecords)
<1>1. p \in [cycles : Seq(Literal), cyclesLim : Seq(Nat), image : [D -> R], inverse : [R -> D]]
  BY DEF MapsOn
<1>2. /\ p.cycles \in Seq(Literal) /\ p.cyclesLim \in Seq(Nat)
      /\ DOMAIN p.image \subseteq Literal /\ DOMAIN p.inverse \subseteq Literal
  BY <1>1
<1>3. p.cyclesLim \in Seq(1 .. Len(p.cycles))
  <2>1. \A c \in 1 .. Len(p.cyclesLim) : p.cyclesLim[c] \in 1 .. Len(p.cycles)
    BY DEF CyclesOn, NumCycles
  <2>2. Len(p.cyclesLim) \in Nat /\ p.cyclesLim \in [1 .. Len(p.cyclesLim) -> Nat]
    BY <1>2, LenProperties
  <2>3. p.cyclesLim \in [1 .. Len(p.cyclesLim) -> 1 .. Len(p.cycles)]
    BY <2>1, <2>2
  <2> QED
    BY <2>2, <2>3, SeqDef
<1>4. ASSUME D = R PROVE p \in PermutationRecords
  <2> DEFINE maps == UNION {[V -> V] : V \in SUBSET Literal}
  <2>1. [D -> R] \subseteq maps /\ [R -> D] \subseteq maps
    BY <1>4
  <2> HIDE DEF maps
  <2>2. p \in [cycles : Seq(Literal), cyclesLim : Seq(Nat), image : maps, inverse : maps]
    BY <1>1, <2>1
  <2> QED
    BY <2>2 DEF PermutationRecords, maps
<1> QED
  BY <1>2, <1>3, <1>4 DEF IsPermutationRecord

\* A generator is added to the tables.
LEMMA TablesGrow ==
    ASSUME NEW perms, NEW sym, NEW inverts, NEW watch, NEW n, NEW cs, NEW p, NEW watch1,
           TablesFor(perms, sym, inverts, watch, n, cs),
           p \in PermutationRecords, IsPermutationRecord(p), IsGenerator(p, n, cs),
           watch1 = [v \in 1 .. n |->
               (IF v \in DOMAIN watch THEN watch[v] ELSE {}) \cup
                   IF v \in MovedVariables(p) THEN {Len(perms) + 1} ELSE {}]
    PROVE  TablesFor(Append(perms, p), sym \cup MovedVariables(p),
                     inverts \cup InvertedVariables(p), watch1, n, cs)
<1> DEFINE perms1 == Append(perms, p)
           k == Len(perms)
<1>1. /\ perms1 \in Seq(PermutationRecords) /\ Len(perms1) = k + 1 /\ perms1 # << >>
      /\ \A g \in 1 .. k : perms1[g] = perms[g]
      /\ perms1[k + 1] = p
  BY AppendProperties DEF TablesFor
<1>2. k \in Nat /\ DOMAIN perms = 1 .. k /\ DOMAIN perms1 = 1 .. k + 1
  BY <1>1, LenProperties DEF TablesFor
<1>3. (\A g : g \in 1 .. k + 1 <=> g \in 1 .. k \/ g = k + 1) /\ k + 1 \notin 1 .. k
  BY <1>2
<1> HIDE DEF perms1, k
<1>4. \A g \in DOMAIN perms1 : IsPermutationRecord(perms1[g]) /\ IsGenerator(perms1[g], n, cs)
  BY <1>1, <1>2, <1>3 DEF TablesFor
<1>5. \A v : v \in sym \cup MovedVariables(p) <=>
                 \E g \in DOMAIN perms1 : v \in MovedVariables(perms1[g])
  BY <1>1, <1>2, <1>3 DEF TablesFor
<1>6. \A v : v \in inverts \cup InvertedVariables(p) <=>
                 \E g \in DOMAIN perms1 : v \in InvertedVariables(perms1[g])
  BY <1>1, <1>2, <1>3 DEF TablesFor
<1>7. DOMAIN watch1 = IF perms1 = << >> THEN {} ELSE 1 .. n
  BY <1>1
<1>8. ASSUME NEW v \in 1 .. n
      PROVE  watch1[v] = {g \in DOMAIN perms1 : v \in MovedVariables(perms1[g])}
  <2> DEFINE old == IF v \in DOMAIN watch THEN watch[v] ELSE {}
  <2>1. old = {g \in 1 .. k : v \in MovedVariables(perms[g])}
    <3>1. CASE v \in DOMAIN watch
      BY <1>2, <3>1 DEF TablesFor
    <3>2. CASE v \notin DOMAIN watch
      <4>1. perms = << >>
        BY <3>2 DEF TablesFor
      <4>2. DOMAIN perms = {}
        BY <4>1
      <4> QED
        BY <1>2, <3>2, <4>2
    <3> QED
      BY <3>1, <3>2
  <2>2. watch1[v] = old \cup IF v \in MovedVariables(p) THEN {k + 1} ELSE {}
    BY DEF k
  <2> HIDE DEF old
  <2>3. \A g : g \in watch1[v] <=> g \in DOMAIN perms1 /\ v \in MovedVariables(perms1[g])
    BY <1>1, <1>2, <1>3, <2>1, <2>2
  <2> QED
    BY <2>3
<1>9. \A v \in DOMAIN watch1 :
          watch1[v] = {g \in DOMAIN perms1 : v \in MovedVariables(perms1[g])}
  BY <1>8
<1> QED
  BY <1>1, <1>4, <1>5, <1>6, <1>7, <1>9 DEF TablesFor, perms1

-----------------------------------------------------------------------------
\* GroupIInv holds at the start, and each action keeps it.

LEMMA GroupStarts == GroupInit => GroupIInv
<1> SUFFICES ASSUME GroupInit PROVE GroupIInv
  OBVIOUS
<1>1. /\ numVariables = 1 /\ numClauses = 0 /\ clauses = << >> /\ occurences = << >>
      /\ input \in Formulas
      /\ phase = "load" /\ aut = << >> /\ node = 0 /\ seen = {}
      /\ permutation = EmptyPermutation /\ permutations = << >>
      /\ watchers = << >> /\ symmetric = {} /\ inverting = {}
  BY DEF GroupInit, ModelInit
<1>2. 1 \in Variables
  BY NumVarsAssumption, SomeVariableAssumption DEF Variables
<1>3. clauses \in Seq(SUBSET LiteralsUpTo(1))
  BY <1>1, EmptySeq
<1>4. IsProblem(numVariables, clauses)
  BY <1>1, <1>2, <1>3 DEF IsProblem
<1>5. CountersAreExact(clauses, occurences, numVariables)
  BY <1>1 DEF CountersAreExact, IsInjective
<1>6. ProblemIsRead
  BY <1>1, <1>4, <1>5, FormulasAssumption DEF ProblemIsRead
<1>7. PhaseIsRight
  BY <1>1 DEF PhaseIsRight
<1>8. WalkIsRight
  BY <1>1, <1>4, NothingWalked DEF WalkIsRight
<1>9. TablesAreRight
  BY <1>1, EmptySeq DEF TablesAreRight, TablesFor
<1> QED
  BY <1>6, <1>7, <1>8, <1>9 DEF GroupIInv

LEMMA LoadKeeps == GroupIInv /\ LoadClause => GroupIInv'
<1> SUFFICES ASSUME GroupIInv, LoadClause PROVE GroupIInv'
  OBVIOUS
<1> DEFINE c == ToSet(Head(input))
           m == Max({numVariables} \cup {Variable(l) : l \in c})
<1>1. /\ phase = "load" /\ input # << >>
      /\ numVariables' = m
      /\ numClauses' = numClauses + 1
      /\ input' = Tail(input)
      /\ UNCHANGED <<phase, finderVars, tableVars>>
  BY DEF LoadClause, AddClause, VariablesWith
<1>3. /\ IsProblem(numVariables, clauses)
      /\ \A i \in DOMAIN clauses : clauses[i] # {}
      /\ numClauses \in Nat
      /\ input \in Seq(Seq(Literal) \ {<< >>})
      /\ CountersAreExact(clauses, occurences, numVariables)
  BY DEF GroupIInv, ProblemIsRead
<1>4. Head(input) \in Seq(Literal) \ {<< >>} /\ input' \in Seq(Seq(Literal) \ {<< >>})
  BY <1>1, <1>3, HeadTailProperties
<1>5. c \in SUBSET Literal /\ c # {}
  <2> DEFINE h == Head(input)
  <2>1. h \in Seq(Literal) /\ h # << >>
    BY <1>4
  <2> HIDE DEF h
  <2>2. Len(h) \in Nat /\ DOMAIN h = 1 .. Len(h) /\ h \in [1 .. Len(h) -> Literal] /\ Len(h) # 0
    BY <2>1, LenProperties, EmptySeq
  <2>3. 1 \in DOMAIN h
    BY <2>2
  <2>4. ToSet(h) \in SUBSET Literal /\ h[1] \in ToSet(h)
    BY <2>2, <2>3 DEF ToSet
  <2> QED
    BY <2>4 DEF h
<1>6. /\ IsProblem(numVariables, clauses)'
      /\ (\A i \in DOMAIN clauses : clauses[i] # {})'
      /\ CountersAreExact(clauses, occurences, numVariables)'
  <2>1. CASE c \in ToSet(clauses)
    <3>1. clauses' = clauses /\ occurences' = occurences
      BY <2>1 DEF LoadClause, AddClause
    <3>2. c \subseteq LiteralsUpTo(numVariables) /\ numVariables \in Variables
      BY <1>3, <2>1, ClausesOfProblem DEF IsProblem
    <3>3. numVariables' = numVariables
      BY <1>1, <1>5, <3>2, VariablesFacts
    <3> QED
      BY <1>3, <3>1, <3>3
  <2>2. CASE c \notin ToSet(clauses)
    <3>1. /\ clauses' = Append(clauses, c)
          /\ occurences' = [v \in 1 .. m |->
                OccurencesIn(c, v) + IF v \in DOMAIN occurences THEN occurences[v] ELSE 0]
      BY <2>2 DEF LoadClause, AddClause, OccurencesWith, VariablesWith
    <3> HIDE DEF c
    <3>2. /\ IsProblem(m, Append(clauses, c))
          /\ CountersAreExact(Append(clauses, c), occurences', m)
      BY <1>3, <1>5, <2>2, <3>1, ClauseIsAdded
    <3>3. clauses \in Seq(SUBSET LiteralsUpTo(numVariables))
      BY <1>3 DEF IsProblem
    <3>4. clauses \in Seq(SUBSET Literal)
      BY <3>3, SeqMonotonic DEF LiteralsUpTo
    <3>5. \A i \in DOMAIN clauses' : clauses'[i] # {}
      <4> DEFINE cs1 == Append(clauses, c)
                 k == Len(clauses)
      <4>1. /\ cs1 \in Seq(SUBSET Literal) /\ Len(cs1) = k + 1
            /\ \A i \in 1 .. k : cs1[i] = clauses[i]
            /\ cs1[k + 1] = c
        BY <1>5, <3>4, AppendProperties
      <4>2. k \in Nat /\ DOMAIN clauses = 1 .. k /\ DOMAIN cs1 = 1 .. k + 1
        BY <3>4, <4>1, LenProperties
      <4> HIDE DEF cs1, k
      <4>3. \A i \in 1 .. k + 1 : i \in 1 .. k \/ i = k + 1
        BY <4>2
      <4>4. \A i \in DOMAIN cs1 : cs1[i] # {}
        BY <1>3, <1>5, <4>1, <4>2, <4>3
      <4> QED
        BY <3>1, <4>4 DEF cs1
    <3> QED
      BY <1>1, <3>1, <3>2, <3>5
  <2> QED
    BY <2>1, <2>2
<1>7. ProblemIsRead'
  <2>1. numClauses' \in Nat
    BY <1>1, <1>3
  <2> QED
    BY <1>4, <1>6, <2>1 DEF ProblemIsRead
<1>8. /\ phase' = "load" /\ aut' = << >> /\ node' = 0 /\ seen' = {}
      /\ permutation' = EmptyPermutation
      /\ permutations' = << >> /\ watchers' = << >> /\ symmetric' = {} /\ inverting' = {}
  BY <1>1 DEF GroupIInv, PhaseIsRight, finderVars, tableVars
<1>9. PhaseIsRight'
  BY <1>8 DEF PhaseIsRight
<1>10. BetweenCycles(EmptyPermutation, << >>, numVariables', clauses', 0, {})
  BY <1>6, NothingWalked
<1>11. WalkIsRight'
  BY <1>8, <1>10 DEF WalkIsRight
<1>12. TablesAreRight'
  BY <1>8, EmptySeq DEF TablesAreRight, TablesFor
<1> QED
  BY <1>7, <1>9, <1>11, <1>12 DEF GroupIInv

LEMMA FindKeeps == GroupIInv /\ FindAutomorphism => GroupIInv'
<1> SUFFICES ASSUME GroupIInv, FindAutomorphism PROVE GroupIInv'
  OBVIOUS
<1>1. /\ phase = "load" /\ phase' = "search"
      /\ automorphisms' = Automorphisms(numVariables, clauses)
      /\ UNCHANGED <<modelVars, input, aut, node, seen, permutation, tableVars>>
  BY DEF FindAutomorphism
<1>2. ProblemIsRead'
  BY <1>1 DEF GroupIInv, ProblemIsRead, modelVars
<1>3. PhaseIsRight'
  BY <1>1 DEF GroupIInv, PhaseIsRight, modelVars
<1>4. WalkIsRight'
  BY <1>1 DEF GroupIInv, WalkIsRight, modelVars
<1>5. TablesAreRight'
  BY <1>1 DEF GroupIInv, TablesAreRight, modelVars, tableVars
<1> QED
  BY <1>2, <1>3, <1>4, <1>5 DEF GroupIInv

LEMMA ReportKeeps == GroupIInv /\ OnAutomorphism => GroupIInv'
<1> SUFFICES ASSUME GroupIInv, OnAutomorphism PROVE GroupIInv'
  OBVIOUS
<1>1. /\ phase = "search" /\ phase' = "walk"
      /\ aut' \in automorphisms /\ node' = 0 /\ seen' = {}
      /\ permutation' = EmptyPermutation
      /\ UNCHANGED <<modelVars, input, automorphisms, tableVars>>
  BY DEF OnAutomorphism
<1>2. ProblemIsRead'
  BY <1>1 DEF GroupIInv, ProblemIsRead, modelVars
<1>3. aut' \in Automorphisms(numVariables', clauses')
  BY <1>1 DEF GroupIInv, PhaseIsRight, modelVars
<1>4. PhaseIsRight'
  BY <1>1, <1>3 DEF GroupIInv, PhaseIsRight, modelVars
<1>5. BetweenCycles(EmptyPermutation, aut', numVariables', clauses', 0, {})
  BY <1>2, NothingWalked DEF ProblemIsRead
<1>6. WalkIsRight'
  BY <1>1, <1>5 DEF WalkIsRight
<1>7. TablesAreRight'
  BY <1>1 DEF GroupIInv, TablesAreRight, modelVars, tableVars
<1> QED
  BY <1>2, <1>4, <1>6, <1>7 DEF GroupIInv

\* What the steps of the walk have in common: they change nothing but the
\* walk.
LEMMA WalkKeepsTheRest ==
    /\ GroupIInv /\ phase \in {"walk", "cycle"}
    /\ phase' \in {"walk", "cycle"}
    /\ UNCHANGED <<modelVars, input, automorphisms, aut, tableVars>>
    => ProblemIsRead' /\ PhaseIsRight' /\ TablesAreRight'
<1> SUFFICES ASSUME GroupIInv, phase \in {"walk", "cycle"}, phase' \in {"walk", "cycle"},
                    UNCHANGED <<modelVars, input, automorphisms, aut, tableVars>>
             PROVE  ProblemIsRead' /\ PhaseIsRight' /\ TablesAreRight'
  OBVIOUS
<1>1. ProblemIsRead'
  BY DEF GroupIInv, ProblemIsRead, modelVars
<1>2. PhaseIsRight'
  BY DEF GroupIInv, PhaseIsRight, modelVars
<1>3. TablesAreRight'
  BY DEF GroupIInv, TablesAreRight, modelVars, tableVars
<1> QED
  BY <1>1, <1>2, <1>3

\* What is walked is an automorphism of the graph.
LEMMA WalkedMap ==
    GroupIInv /\ phase \in {"walk", "cycle"} =>
        /\ IsProblem(numVariables, clauses)
        /\ IsAutomorphism(aut, numVariables, clauses)
        /\ DOMAIN aut = Nodes(numVariables, clauses)
<1> SUFFICES ASSUME GroupIInv, phase \in {"walk", "cycle"}
             PROVE  /\ IsProblem(numVariables, clauses)
                    /\ IsAutomorphism(aut, numVariables, clauses)
                    /\ DOMAIN aut = Nodes(numVariables, clauses)
  OBVIOUS
<1>1. IsProblem(numVariables, clauses)
  BY DEF GroupIInv, ProblemIsRead
<1>2. aut \in Automorphisms(numVariables, clauses)
  BY DEF GroupIInv, PhaseIsRight
<1>3. IsAutomorphism(aut, numVariables, clauses)
  BY <1>1, <1>2, AutomorphismFacts
<1> QED
  BY <1>1, <1>3 DEF IsAutomorphism

LEMMA SkipKeeps == GroupIInv /\ SkipNode => GroupIInv'
<1> SUFFICES ASSUME GroupIInv, SkipNode PROVE GroupIInv'
  OBVIOUS
<1>1. /\ phase = "walk" /\ phase' = "walk"
      /\ node \in DOMAIN aut /\ (aut[node] = node \/ node \in seen)
      /\ node' = node + 1
      /\ UNCHANGED <<modelVars, input, automorphisms, aut, seen, permutation, tableVars>>
  BY DEF SkipNode
<1>2. ProblemIsRead' /\ PhaseIsRight' /\ TablesAreRight'
  BY <1>1, WalkKeepsTheRest
<1>3. /\ IsProblem(numVariables, clauses)
      /\ node \in Nodes(numVariables, clauses)
      /\ BetweenCycles(permutation, aut, numVariables, clauses, node, seen)
  BY <1>1, WalkedMap DEF GroupIInv, WalkIsRight
<1>4. BetweenCycles(permutation, aut, numVariables, clauses, node + 1, seen)
  BY <1>1, <1>3, NodeIsSkipped
<1>5. WalkIsRight'
  BY <1>1, <1>4 DEF WalkIsRight, modelVars
<1> QED
  BY <1>2, <1>5 DEF GroupIInv

LEMMA StartKeeps == GroupIInv /\ StartCycle => GroupIInv'
<1> SUFFICES ASSUME GroupIInv, StartCycle PROVE GroupIInv'
  OBVIOUS
<1>1. /\ phase = "walk" /\ phase' = "cycle"
      /\ node \in DOMAIN aut /\ aut[node] # node /\ node \notin seen
      /\ permutation' = NodeAdded(permutation, node, numVariables)
      /\ seen' = seen \cup {node} /\ cursor' = aut[node]
      /\ UNCHANGED <<modelVars, input, automorphisms, aut, node, tableVars>>
  BY DEF StartCycle, WithNode, NodeAdded
<1>2. ProblemIsRead' /\ PhaseIsRight' /\ TablesAreRight'
  BY <1>1, WalkKeepsTheRest
<1>3. /\ IsProblem(numVariables, clauses) /\ IsAutomorphism(aut, numVariables, clauses)
      /\ node \in Nodes(numVariables, clauses)
      /\ BetweenCycles(permutation, aut, numVariables, clauses, node, seen)
  BY <1>1, WalkedMap DEF GroupIInv, WalkIsRight
<1>4. InsideCycle(NodeAdded(permutation, node, numVariables), aut, numVariables, clauses,
                  node, aut[node], seen \cup {node})
  BY <1>1, <1>3, CycleStarts
<1>5. WalkIsRight'
  BY <1>1, <1>4 DEF WalkIsRight, modelVars
<1> QED
  BY <1>2, <1>5 DEF GroupIInv

LEMMA FollowKeeps == GroupIInv /\ FollowCycle => GroupIInv'
<1> SUFFICES ASSUME GroupIInv, FollowCycle PROVE GroupIInv'
  OBVIOUS
<1>1. /\ phase = "cycle" /\ phase' = "cycle" /\ cursor # node
      /\ permutation' = NodeAdded(permutation, cursor, numVariables)
      /\ seen' = seen \cup {cursor} /\ cursor' = aut[cursor]
      /\ UNCHANGED <<modelVars, input, automorphisms, aut, node, tableVars>>
  BY DEF FollowCycle, WithNode, NodeAdded
<1>2. ProblemIsRead' /\ PhaseIsRight' /\ TablesAreRight'
  BY <1>1, WalkKeepsTheRest
<1>3. /\ IsProblem(numVariables, clauses) /\ IsAutomorphism(aut, numVariables, clauses)
      /\ InsideCycle(permutation, aut, numVariables, clauses, node, cursor, seen)
  BY <1>1, WalkedMap DEF GroupIInv, WalkIsRight
<1>4. InsideCycle(NodeAdded(permutation, cursor, numVariables), aut, numVariables, clauses,
                  node, aut[cursor], seen \cup {cursor})
  BY <1>1, <1>3, CycleIsFollowed
<1>5. WalkIsRight'
  BY <1>1, <1>4 DEF WalkIsRight, modelVars
<1> QED
  BY <1>2, <1>5 DEF GroupIInv

LEMMA CloseKeeps == GroupIInv /\ CloseCycle => GroupIInv'
<1> SUFFICES ASSUME GroupIInv, CloseCycle PROVE GroupIInv'
  OBVIOUS
<1>1. /\ phase = "cycle" /\ phase' = "walk" /\ cursor = node
      /\ permutation' = CloseCurrentCycle(permutation)
      /\ node' = node + 1
      /\ UNCHANGED <<modelVars, input, automorphisms, aut, cursor, seen, tableVars>>
  BY DEF CloseCycle
<1>2. ProblemIsRead' /\ PhaseIsRight' /\ TablesAreRight'
  BY <1>1, WalkKeepsTheRest
<1>3. /\ IsProblem(numVariables, clauses) /\ IsAutomorphism(aut, numVariables, clauses)
      /\ InsideCycle(permutation, aut, numVariables, clauses, node, node, seen)
  BY <1>1, WalkedMap DEF GroupIInv, WalkIsRight
<1>4. BetweenCycles(CloseCurrentCycle(permutation), aut, numVariables, clauses, node + 1, seen)
  BY <1>3, CycleCloses
<1>5. WalkIsRight'
  BY <1>1, <1>4 DEF WalkIsRight, modelVars
<1> QED
  BY <1>2, <1>5 DEF GroupIInv

LEMMA AddKeeps == GroupIInv /\ AddPermutation => GroupIInv'
<1> SUFFICES ASSUME GroupIInv, AddPermutation PROVE GroupIInv'
  OBVIOUS
<1> DEFINE W == LiteralsAt(seen, numVariables)
<1>1. /\ phase = "walk" /\ phase' = "search" /\ node \notin DOMAIN aut
      /\ UNCHANGED <<modelVars, input, automorphisms, aut, node, cursor, seen, permutation>>
  BY DEF AddPermutation, finderVars
<1>2. ProblemIsRead'
  BY <1>1 DEF GroupIInv, ProblemIsRead, modelVars
<1>3. PhaseIsRight'
  BY <1>1 DEF GroupIInv, PhaseIsRight, modelVars
<1>4. WalkIsRight'
  BY <1>1 DEF GroupIInv, WalkIsRight, modelVars
<1>5. TablesFor(permutations, symmetric, inverting, watchers, numVariables, clauses)
  BY DEF GroupIInv, TablesAreRight
<1>6. TablesAreRight'
  <2>1. CASE NumCycles(permutation) = 0 \/ IsPermutationSpurious(permutation)
    <3>1. UNCHANGED tableVars
      BY <2>1 DEF AddPermutation
    <3> QED
      BY <1>1, <1>5, <3>1 DEF TablesAreRight, tableVars, modelVars
  <2>2. CASE ~(NumCycles(permutation) = 0 \/ IsPermutationSpurious(permutation))
    <3>1. /\ IsProblem(numVariables, clauses) /\ IsAutomorphism(aut, numVariables, clauses)
          /\ node \notin Nodes(numVariables, clauses)
          /\ BetweenCycles(permutation, aut, numVariables, clauses, node, seen)
      BY <1>1, WalkedMap DEF GroupIInv, WalkIsRight
    <3>2. node = NumNodes(numVariables, clauses)
      <4>1. NumNodes(numVariables, clauses) \in Nat
        BY <3>1, NodesAreFinite
      <4>2. node \in 0 .. NumNodes(numVariables, clauses)
        BY <3>1 DEF BetweenCycles
      <4> QED
        BY <3>1, <4>1, <4>2 DEF Nodes
    <3>3. IsAccepted(permutation, aut, numVariables, clauses, seen)
      BY <2>2, <3>1, <3>2 DEF IsAccepted, BetweenCycles
    <3>4. IsGenerator(permutation, numVariables, clauses)
      BY <3>1, <3>3, AcceptedIsGenerator
    <3>5. W \in SUBSET Literal
      BY DEF LiteralsAt, LiteralsUpTo
    <3>6. MapsOn(permutation, aut, numVariables, W, W) /\ CyclesOn(permutation, W)
      BY <3>1 DEF BetweenCycles, IsClosedOn
    <3>7. IsPermutationRecord(permutation) /\ permutation \in PermutationRecords
      <4> HIDE DEF W
      <4> QED
        BY <3>5, <3>6, RecordFacts
    <3>8. /\ permutations' = Append(permutations, permutation)
          /\ symmetric' = symmetric \cup MovedVariables(permutation)
          /\ inverting' = inverting \cup InvertedVariables(permutation)
      BY <2>2 DEF AddPermutation, IndexPermutation, MovedVariables, InvertedVariables
    <3>9. watchers' = [v \in 1 .. numVariables |->
              (IF v \in DOMAIN watchers THEN watchers[v] ELSE {}) \cup
                  IF v \in MovedVariables(permutation) THEN {Len(permutations) + 1} ELSE {}]
      BY <2>2 DEF AddPermutation, IndexPermutation, MovedVariables, ResizedWatchers
    <3>10. TablesFor(permutations', symmetric', inverting', watchers', numVariables, clauses)
      BY <1>5, <3>4, <3>7, <3>8, <3>9, TablesGrow
    <3> QED
      BY <1>1, <3>10 DEF TablesAreRight, modelVars
  <2> QED
    BY <2>1, <2>2
<1> QED
  BY <1>2, <1>3, <1>4, <1>6 DEF GroupIInv

LEMMA GroupStutters == GroupIInv /\ UNCHANGED groupVars => GroupIInv'
<1> SUFFICES ASSUME GroupIInv, UNCHANGED groupVars PROVE GroupIInv'
  OBVIOUS
<1>1. /\ UNCHANGED <<numVariables, numClauses, clauses, occurences>>
      /\ UNCHANGED <<input, phase, automorphisms, aut, node, cursor, seen, permutation>>
      /\ UNCHANGED <<permutations, watchers, symmetric, inverting>>
  BY DEF groupVars, modelVars, finderVars, tableVars
<1>2. ProblemIsRead'
  BY <1>1 DEF GroupIInv, ProblemIsRead
<1>3. PhaseIsRight'
  BY <1>1 DEF GroupIInv, PhaseIsRight
<1>4. WalkIsRight'
  BY <1>1 DEF GroupIInv, WalkIsRight
<1>5. TablesAreRight'
  BY <1>1 DEF GroupIInv, TablesAreRight
<1> QED
  BY <1>2, <1>3, <1>4, <1>5 DEF GroupIInv

\* GroupIInv is an invariant.
LEMMA GroupIsRight == GroupSpec => []GroupIInv
<1>1. GroupInit => GroupIInv
  BY GroupStarts
<1>2. GroupIInv /\ [GroupNext]_groupVars => GroupIInv'
  BY LoadKeeps, FindKeeps, ReportKeeps, SkipKeeps, StartKeeps, FollowKeeps, CloseKeeps,
     AddKeeps, GroupStutters DEF GroupNext
<1> QED
  BY <1>1, <1>2, PTL DEF GroupSpec

-----------------------------------------------------------------------------
\* The permutation being built, on a cycle or between two.
LEMMA WalkFacts ==
    GroupIInv =>
        /\ IsProblem(numVariables, clauses)
        /\ node \in 0 .. NumNodes(numVariables, clauses)
        /\ WalkedNodes(aut, numVariables, clauses, node, seen)
        /\ \E D, R \in SUBSET Literal :
              /\ MapsOn(permutation, aut, numVariables, D, R)
              /\ CyclesOn(permutation, LiteralsAt(seen, numVariables))
<1> SUFFICES ASSUME GroupIInv
             PROVE  /\ IsProblem(numVariables, clauses)
                    /\ node \in 0 .. NumNodes(numVariables, clauses)
                    /\ WalkedNodes(aut, numVariables, clauses, node, seen)
                    /\ \E D, R \in SUBSET Literal :
                          /\ MapsOn(permutation, aut, numVariables, D, R)
                          /\ CyclesOn(permutation, LiteralsAt(seen, numVariables))
  OBVIOUS
<1> DEFINE W == LiteralsAt(seen, numVariables)
<1>1. IsProblem(numVariables, clauses)
  BY DEF GroupIInv, ProblemIsRead
<1>2. W \in SUBSET Literal
  BY DEF LiteralsAt, LiteralsUpTo
<1>3. CASE phase # "cycle"
  <2>1. BetweenCycles(permutation, aut, numVariables, clauses, node, seen)
    BY <1>3 DEF GroupIInv, WalkIsRight
  <2> QED
    BY <1>1, <1>2, <2>1 DEF BetweenCycles, IsClosedOn
<1>4. CASE phase = "cycle"
  <2>1. InsideCycle(permutation, aut, numVariables, clauses, node, cursor, seen)
    BY <1>4 DEF GroupIInv, WalkIsRight
  <2>2. /\ WalkedNodes(aut, numVariables, clauses, node, seen)
        /\ node \in Nodes(numVariables, clauses)
    BY <2>1 DEF InsideCycle, WalkedNodes
  <2>3. node \in 0 .. NumNodes(numVariables, clauses)
    <3>1. NumNodes(numVariables, clauses) \in Nat
      BY <1>1, NodesAreFinite
    <3> QED
      BY <2>2, <3>1 DEF Nodes
  <2>4. \E first : \/ IsOpenOn(permutation, aut, numVariables, W, first)
                   \/ IsClosedOn(permutation, aut, numVariables, W)
    BY <2>1 DEF InsideCycle
  <2>5. PICK first : \/ IsOpenOn(permutation, aut, numVariables, W, first)
                     \/ IsClosedOn(permutation, aut, numVariables, W)
    BY <2>4
  <2>6. /\ W \ {Last(permutation.cycles)} \in SUBSET Literal
        /\ W \ {first} \in SUBSET Literal
    BY <1>2
  <2>7. \E D, R \in SUBSET Literal : /\ MapsOn(permutation, aut, numVariables, D, R)
                                     /\ CyclesOn(permutation, W)
    BY <1>2, <2>5, <2>6 DEF IsOpenOn, IsClosedOn
  <2> QED
    BY <1>1, <2>2, <2>3, <2>7
<1> QED
  BY <1>3, <1>4

\* Every variable of the group and of the walk has its type: node and seen stay
\* in the graph, the permutations are made of literals of the problem, and only
\* variables of the problem are listed as symmetric or inverting.
THEOREM GroupTypeCorrect == GroupSpec => []GroupTypeOK
<1>1. GroupIInv => GroupTypeOK
  <2> SUFFICES ASSUME GroupIInv PROVE GroupTypeOK
    OBVIOUS
  <2>1. /\ IsProblem(numVariables, clauses)
        /\ node \in 0 .. NumNodes(numVariables, clauses)
        /\ WalkedNodes(aut, numVariables, clauses, node, seen)
    BY WalkFacts
  <2>2. /\ numVariables \in Variables /\ numClauses \in Nat
        /\ \A i \in DOMAIN clauses : clauses[i] # {}
        /\ phase \in {"load", "search", "walk", "cycle"}
    BY <2>1 DEF GroupIInv, ProblemIsRead, PhaseIsRight, IsProblem
  <2>3. \A i \in DOMAIN clauses : clauses[i] \subseteq Literal
    BY <2>1, ClausesOfProblem DEF LiteralsUpTo
  <2>4. seen \subseteq DOMAIN aut
    <3>1. CASE aut \in Automorphisms(numVariables, clauses)
      <4>1. IsAutomorphism(aut, numVariables, clauses)
        BY <2>1, <3>1, AutomorphismFacts
      <4> QED
        BY <2>1, <4>1 DEF IsAutomorphism, WalkedNodes
    <3>2. CASE seen = {}
      BY <3>2
    <3> QED
      BY <3>1, <3>2 DEF GroupIInv, PhaseIsRight
  <2>5. IsPermutationRecord(permutation)
    <3>1. PICK D \in SUBSET Literal, R \in SUBSET Literal :
              /\ MapsOn(permutation, aut, numVariables, D, R)
              /\ CyclesOn(permutation, LiteralsAt(seen, numVariables))
      BY WalkFacts
    <3> QED
      BY <3>1, RecordFacts
  <2>6. \A g \in DOMAIN permutations :
            /\ IsPermutationRecord(permutations[g])
            /\ MovedVariables(permutations[g]) \subseteq Variables
            /\ InvertedVariables(permutations[g]) \subseteq Variables
    <3>1. 1 .. numVariables \subseteq Variables
      BY <2>2, NumVarsAssumption DEF Variables
    <3> QED
      BY <3>1 DEF GroupIInv, TablesAreRight, TablesFor, IsGenerator
  <2>7. symmetric \cup inverting \subseteq Variables
    BY <2>6 DEF GroupIInv, TablesAreRight, TablesFor
  <2> QED
    BY <2>1, <2>2, <2>3, <2>4, <2>5, <2>6, <2>7 DEF GroupTypeOK
<1> QED
  BY <1>1, GroupIsRight, PTL

\* on_automorphism and the class Permutation turn an automorphism into the cycles
\* and the maps it has on the literals: each closed cycle has two literals, and
\* between two cycles the maps are those of the automorphism on the literals
\* walked, neither less nor more.
THEOREM WalkFollowsAutomorphism == GroupSpec => []MapsFollowAutomorphism
<1>1. GroupIInv => ClosedCyclesMove
  <2> SUFFICES ASSUME GroupIInv, NEW c \in 1 .. NumCycles(permutation)
               PROVE  Len(Cycle(permutation, c)) >= 2
    BY DEF ClosedCyclesMove
  <2>1. PICK D \in SUBSET Literal, R \in SUBSET Literal :
            /\ MapsOn(permutation, aut, numVariables, D, R)
            /\ CyclesOn(permutation, LiteralsAt(seen, numVariables))
    BY WalkFacts
  <2> QED
    BY <2>1, ClosedCycles
<1>2. GroupIInv /\ phase # "cycle" => MapsMatchWalk
  <2> SUFFICES ASSUME GroupIInv, phase # "cycle" PROVE MapsMatchWalk
    OBVIOUS
  <2> DEFINE n == numVariables
             p == permutation
             W == LiteralsAt(seen, n)
             walked == {x \in seen : IsLiteralNode(x, n)}
             moved  == {Node2Literal(x, n) : x \in walked}
  <2>1. IsProblem(n, clauses) /\ BetweenCycles(p, aut, n, clauses, node, seen)
    BY DEF GroupIInv, ProblemIsRead, WalkIsRight
  <2>2. /\ n \in Variables
        /\ seen \subseteq Nodes(n, clauses)
        /\ \A x \in seen : IsLiteralNode(x, n) <=> x \in LiteralNodes(n)
    BY <2>1, NodesAreFinite DEF BetweenCycles, WalkedNodes
  <2>3. moved = W
    <3>1. ASSUME NEW l \in moved PROVE l \in W
      <4>1. PICK x \in walked : l = Node2Literal(x, n)
        OBVIOUS
      <4>2. x \in LiteralNodes(n) /\ x \in seen
        BY <2>2
      <4>3. l \in LiteralsUpTo(n) /\ Literal2Node(l, n) = x
        BY <2>2, <4>1, <4>2, NodeFacts
      <4> QED
        BY <4>2, <4>3 DEF LiteralsAt
    <3>2. ASSUME NEW l \in W PROVE l \in moved
      <4>1. l \in LiteralsUpTo(n) /\ Literal2Node(l, n) \in seen
        BY DEF LiteralsAt
      <4>2. /\ Literal2Node(l, n) \in LiteralNodes(n)
            /\ Node2Literal(Literal2Node(l, n), n) = l
        BY <2>2, <4>1, NodeFacts
      <4>3. Literal2Node(l, n) \in walked
        BY <2>2, <4>1, <4>2
      <4> QED
        BY <4>2, <4>3
    <3> QED
      BY <3>1, <3>2
  <2>4. MapsOn(p, aut, n, W, W)
    BY <2>1 DEF BetweenCycles, IsClosedOn
  <2>5. p.image \in [W -> W] /\ p.inverse \in [W -> W]
    BY <2>4 DEF MapsOn
  <2>6. ASSUME NEW l \in W
        PROVE  /\ Literal2Node(p.image[l], n) = aut[Literal2Node(l, n)]
               /\ p.inverse[p.image[l]] = l
    <3>1. l \in LiteralsUpTo(n) /\ Literal2Node(l, n) \in seen
      BY <2>6 DEF LiteralsAt
    <3>2. aut \in Automorphisms(n, clauses)
      BY <3>1 DEF GroupIInv, PhaseIsRight
    <3>3. IsAutomorphism(aut, n, clauses)
      BY <2>1, <3>2, AutomorphismFacts
    <3>4. Literal2Node(LiteralMap(aut, n, l), n) = aut[Literal2Node(l, n)]
      BY <2>1, <3>1, <3>3, LiteralMapFacts
    <3> QED
      BY <2>4, <3>4 DEF MapsOn
  <2> HIDE DEF W, moved, walked
  <2>7. /\ DOMAIN p.image = moved /\ DOMAIN p.inverse = moved
        /\ \A l \in moved : /\ Literal2Node(p.image[l], n) = aut[Literal2Node(l, n)]
                            /\ p.inverse[p.image[l]] = l
    BY <2>3, <2>5, <2>6
  <2> QED
    BY <2>7 DEF MapsMatchWalk, moved, walked
<1>3. GroupIInv => MapsFollowAutomorphism
  BY <1>1, <1>2 DEF MapsFollowAutomorphism
<1> QED
  BY <1>3, GroupIsRight, PTL

\* The generators the group accepts are symmetries of the problem: one to one,
\* compatible with negation, and with the models of the clauses; a variable of
\* no clause is in none of them.  This is what Group::isPermutationSpurious and
\* the colours of CNFGraph are for.
THEOREM SymmetriesOnly == GroupSpec => []GeneratorsAreSymmetries
<1>1. GroupIInv => GeneratorsAreSymmetries
  <2> SUFFICES ASSUME GroupIInv PROVE GeneratorsAreSymmetries
    OBVIOUS
  <2>1. TablesFor(permutations, symmetric, inverting, watchers, numVariables, clauses)
    BY DEF GroupIInv, TablesAreRight
  <2>2. \A g \in DOMAIN permutations : IsSymmetry(InverseMap(permutations[g]), clauses)
    BY <2>1 DEF TablesFor, IsGenerator
  <2>3. FreeVariablesStay
    BY <2>1 DEF TablesFor, IsGenerator, FreeVariablesStay
  <2> QED
    BY <2>2, <2>3 DEF GeneratorsAreSymmetries
<1> QED
  BY <1>1, GroupIsRight, PTL

\* The tables of the group (_watchers, _symmetric, _inverting) agree with its
\* generators, and the counters of CNFModel with the clauses it stores.
THEOREM TablesAgree == GroupSpec => []TablesMatchGenerators
<1>1. GroupIInv => TablesMatchGenerators
  <2> SUFFICES ASSUME GroupIInv PROVE TablesMatchGenerators
    OBVIOUS
  <2>1. TablesFor(permutations, symmetric, inverting, watchers, numVariables, clauses)
    BY DEF GroupIInv, TablesAreRight
  <2>2. permutations # << >> => DOMAIN watchers = 1 .. numVariables
    BY <2>1 DEF TablesFor
  <2>3. ASSUME NEW v \in Variables
        PROVE  LET moving == {g \in DOMAIN permutations :
                                 InverseMap(permutations[g])[v] # v}
               IN  /\ v \in DOMAIN watchers => watchers[v] = moving
                   /\ v \in symmetric <=> moving # {}
                   /\ v \in inverting <=>
                         \E g \in moving : InverseMap(permutations[g])[v] = -v
    <3> DEFINE moving == {g \in DOMAIN permutations : InverseMap(permutations[g])[v] # v}
    <3>1. \A g \in DOMAIN permutations :
              /\ v \in MovedVariables(permutations[g]) <=> InverseMap(permutations[g])[v] # v
              /\ v \in InvertedVariables(permutations[g]) =>
                     v \in MovedVariables(permutations[g])
              /\ v \in MovedVariables(permutations[g]) =>
                     (v \in InvertedVariables(permutations[g])
                          <=> InverseMap(permutations[g])[v] = -v)
      BY <2>1 DEF TablesFor, IsGenerator
    <3>2. moving = {g \in DOMAIN permutations : v \in MovedVariables(permutations[g])}
      BY <3>1
    <3>3. v \in DOMAIN watchers => watchers[v] = moving
      BY <2>1, <3>2 DEF TablesFor
    <3>4. v \in symmetric <=> moving # {}
      BY <2>1, <3>2 DEF TablesFor
    <3>5. v \in inverting <=> \E g \in moving : InverseMap(permutations[g])[v] = -v
      BY <2>1, <3>1, <3>2 DEF TablesFor
    <3> QED
      BY <3>3, <3>4, <3>5
  <2>4. OccurencesOfClauses
    <3>1. CountersAreExact(clauses, occurences, numVariables)
      BY DEF GroupIInv, ProblemIsRead
    <3> QED
      BY <3>1 DEF CountersAreExact, OccurencesOfClauses, Places
  <2> QED
    BY <2>2, <2>3, <2>4 DEF TablesMatchGenerators
<1> QED
  BY <1>1, GroupIsRight, PTL

=============================================================================
