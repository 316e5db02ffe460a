---------------------- MODULE SymmetryControllerProofs ----------------------
(***************************************************************************)
(* Proofs about SymmetryController, for every number of variables, order,  *)
(* value mode and set of permutations, and for every solver that makes the *)
(* calls the module allows.                                                *)
(***************************************************************************)
EXTENDS ControlledStatus, StatusRulesProofs

USE NumVarsAssumption

-----------------------------------------------------------------------------
\* What defineOrder and generateUnits compute.

LEMMA OrderFacts ==
    /\ Len(Order) \in Nat
    /\ \A i \in 1 .. Len(Order) : Order[i] \in Variables
    /\ \A v \in Variables : \E i \in 1 .. Len(Order) : Order[i] = v
    /\ \A i \in 1 .. Len(Order) : OrderIndex(Order[i]) = i
<1>1. Len(Order) \in Nat /\ DOMAIN Order = 1 .. Len(Order)
  BY OrderIndexFacts
<1>2. \A i \in 1 .. Len(Order) : Order[i] \in Variables
  BY OrderAssumption, ElementOfSeq
<1> QED
  BY <1>1, <1>2, OrderAssumption, OrderIndexFacts, VariablesAreLiterals

LEMMA InversesFacts ==
    /\ Len(Inverses) \in Nat
    /\ Statuses = 1 .. Len(Inverses)
    /\ \A p \in Statuses : IsLiteralMap(Inverses[p])
  BY InversesAssumption, LenProperties DEF Statuses

\* The loop of defineOrder is a function of how many variables it has seen.
LEMMA LookupsUpToRecursion ==
    \A i \in 0 .. Len(Order) :
        LookupsUpTo[i] =
            IF i = 0 THEN [p \in Statuses |-> << >>]
            ELSE [p \in Statuses |-> IF p \in Watch(Order[i])
                                     THEN Append(LookupsUpTo[i - 1][p], Order[i])
                                     ELSE LookupsUpTo[i - 1][p]]
<1> DEFINE Step(f, i) ==
               IF i = 0 THEN [p \in Statuses |-> << >>]
               ELSE [p \in Statuses |-> IF p \in Watch(Order[i])
                                        THEN Append(f[i - 1][p], Order[i])
                                        ELSE f[i - 1][p]]
           Bad == {n \in 0 .. Len(Order) : ~ \E f : f = [i \in 0 .. n |-> Step(f, i)]}
<1>1. Bad = {}
  <2>1. SUFFICES ASSUME Bad # {} PROVE FALSE
    OBVIOUS
  <2>2. Bad \subseteq Nat
    BY OrderFacts
  <2>3. PICK n \in Bad : \A m \in Bad : n <= m
    BY <2>1, <2>2, MinProperties
  <2>4. n # 0
    <3>1. LET f == [i \in 0 .. 0 |-> Step(<< >>, i)] IN f = [i \in 0 .. 0 |-> Step(f, i)]
      OBVIOUS
    <3> QED
      BY <3>1, OrderFacts
  <2>5. n - 1 \in 0 .. Len(Order) /\ n - 1 \notin Bad
    <3>1. n \in 0 .. Len(Order)
      BY <2>3
    <3> HIDE DEF Bad, Step
    <3>2. n - 1 \in 0 .. Len(Order) /\ ~(n <= n - 1)
      BY <2>4, <3>1, OrderFacts
    <3> QED
      BY <2>3, <3>2
  <2>6. PICK g : g = [i \in 0 .. n - 1 |-> Step(g, i)]
    BY <2>5
  <2> DEFINE f == [i \in 0 .. n |-> IF i = n THEN Step(g, n) ELSE g[i]]
  <2>7. ASSUME NEW i \in 0 .. n PROVE f[i] = Step(f, i)
    <3>1. CASE i = 0
      <4>1. 0 \in 0 .. n - 1 /\ f[0] = g[0] /\ g[0] = Step(g, 0)
        BY <2>4, <2>5, <2>6
      <4> QED
        BY <3>1, <4>1
    <3>2. CASE i # 0
      <4>1. i - 1 \in 0 .. n - 1 /\ i - 1 \in 0 .. n /\ i - 1 # n
        BY <2>5, <3>2
      <4>2. f[i - 1] = g[i - 1]
        BY <4>1
      <4>3. Step(f, i) = Step(g, i)
        <5> HIDE DEF f
        <5> QED
          BY <3>2, <4>2
      <4>4. f[i] = Step(g, i)
        <5>1. CASE i = n
          BY <5>1
        <5>2. CASE i # n
          <6>1. i \in 0 .. n - 1
            BY <2>5, <5>2
          <6> QED
            BY <2>6, <5>2, <6>1
        <5> QED
          BY <5>1, <5>2
      <4> QED
        BY <4>3, <4>4
    <3> QED
      BY <3>1, <3>2
  <2>8. f = [i \in 0 .. n |-> Step(f, i)]
    BY <2>7
  <2> QED
    BY <2>3, <2>8
<1>2. \E f : f = [i \in 0 .. Len(Order) |-> Step(f, i)]
  BY <1>1, OrderFacts
<1>3. LookupsUpTo = [i \in 0 .. Len(Order) |-> Step(LookupsUpTo, i)]
  <2>1. LookupsUpTo = CHOOSE f : f = [i \in 0 .. Len(Order) |-> Step(f, i)]
    BY DEF LookupsUpTo
  <2> HIDE DEF Step
  <2> QED
    BY <1>2, <2>1
<1> QED
  BY <1>3

\* What status p was given of the first i variables of the order: those its
\* permutation moves, in the order's order.
GivenUpTo(i, p) ==
    LET given == LookupsUpTo[i][p]
    IN  /\ given \in Seq(Variables)
        /\ \A v \in Variables : (\E k \in 1 .. Len(given) : given[k] = v)
             <=> p \in Watch(v) /\ \E j \in 1 .. i : Order[j] = v
        /\ \A a, b \in 1 .. Len(given) :
             a < b => OrderIndex(given[a]) < OrderIndex(given[b])

LEMMA GivenUpToStep ==
    ASSUME NEW i \in 1 .. Len(Order), NEW p \in Statuses, GivenUpTo(i - 1, p)
    PROVE  GivenUpTo(i, p)
<1> DEFINE old == LookupsUpTo[i - 1][p]
           given == LookupsUpTo[i][p]
           v == Order[i]
<1>1. /\ Len(Order) \in Nat
      /\ v \in Variables
      /\ OrderIndex(v) = i
  BY OrderFacts
<1>2. /\ old \in Seq(Variables)
      /\ Len(old) \in Nat
      /\ \A w \in Variables : (\E k \in 1 .. Len(old) : old[k] = w)
           <=> p \in Watch(w) /\ \E j \in 1 .. i - 1 : Order[j] = w
      /\ \A a, b \in 1 .. Len(old) : a < b => OrderIndex(old[a]) < OrderIndex(old[b])
  BY LenProperties DEF GivenUpTo
<1>3. given = IF p \in Watch(v) THEN Append(old, v) ELSE old
  <2>1. i \in 0 .. Len(Order) /\ i # 0
    BY <1>1
  <2> QED
    BY <2>1, LookupsUpToRecursion
<1>4. \A j : j \in 1 .. i <=> j \in 1 .. i - 1 \/ j = i
  BY <1>1
<1> HIDE DEF old, given
<1>5. CASE p \in Watch(v)
  <2>1. given = Append(old, v)
    BY <1>3, <1>5
  <2>2. /\ given \in Seq(Variables)
        /\ Len(given) = Len(old) + 1
        /\ \A k \in 1 .. Len(old) : given[k] = old[k]
        /\ given[Len(old) + 1] = v
    BY <1>1, <1>2, <2>1, AppendProperties
  <2>3. \A k : k \in 1 .. Len(given) <=> k \in 1 .. Len(old) \/ k = Len(old) + 1
    BY <1>2, <2>2
  <2>4. ASSUME NEW w \in Variables
        PROVE  (\E k \in 1 .. Len(given) : given[k] = w)
                 <=> p \in Watch(w) /\ \E j \in 1 .. i : Order[j] = w
    <3>1. (\E k \in 1 .. Len(given) : given[k] = w)
            <=> (\E k \in 1 .. Len(old) : old[k] = w) \/ w = v
      BY <2>2, <2>3
    <3> QED
      BY <1>2, <1>4, <1>5, <3>1
  <2>5. ASSUME NEW a \in 1 .. Len(given), NEW b \in 1 .. Len(given), a < b
        PROVE  OrderIndex(given[a]) < OrderIndex(given[b])
    <3>1. a \in 1 .. Len(old) /\ (b \in 1 .. Len(old) \/ b = Len(old) + 1)
      BY <1>2, <2>3, <2>5
    <3>2. CASE b \in 1 .. Len(old)
      BY <1>2, <2>2, <2>5, <3>1, <3>2
    <3>3. CASE b = Len(old) + 1
      <4>1. old[a] \in Variables
        BY <1>2, <3>1, ElementOfSeq
      <4>2. PICK j \in 1 .. i - 1 : Order[j] = old[a]
        BY <1>2, <3>1, <4>1
      <4>3. j \in 1 .. Len(Order) /\ j < i
        BY <1>1
      <4>4. OrderIndex(old[a]) = j
        BY <4>2, <4>3, OrderFacts
      <4> QED
        BY <1>1, <2>2, <3>1, <3>3, <4>3, <4>4
    <3> QED
      BY <3>1, <3>2, <3>3
  <2> QED
    BY <2>2, <2>4, <2>5 DEF GivenUpTo, given
<1>6. CASE p \notin Watch(v)
  <2>1. given = old
    BY <1>3, <1>6
  <2>2. ASSUME NEW w \in Variables
        PROVE  (\E k \in 1 .. Len(given) : given[k] = w)
                 <=> p \in Watch(w) /\ \E j \in 1 .. i : Order[j] = w
    BY <1>2, <1>4, <1>6, <2>1
  <2> QED
    BY <1>2, <2>1, <2>2 DEF GivenUpTo, given
<1> QED
  BY <1>5, <1>6

\* defineOrder gives every status a lookup order of its permutation.
LEMMA LookupOfIsLookup == \A p \in Statuses : IsLookup(LookupOf(p), Inverses[p])
<1> SUFFICES ASSUME NEW p \in Statuses PROVE IsLookup(LookupOf(p), Inverses[p])
  OBVIOUS
<1> DEFINE Bad == {n \in 0 .. Len(Order) : ~GivenUpTo(n, p)}
<1>1. Bad = {}
  <2>1. SUFFICES ASSUME Bad # {} PROVE FALSE
    OBVIOUS
  <2>2. PICK n \in Bad : \A m \in Bad : n <= m
    <3>1. Bad \subseteq Nat
      BY OrderFacts
    <3> QED
      BY <2>1, <3>1, MinProperties
  <2>3. n # 0
    <3>1. LookupsUpTo[0] = [q \in Statuses |-> << >>]
      <4>1. 0 \in 0 .. Len(Order)
        BY OrderFacts
      <4> QED
        BY <4>1, LookupsUpToRecursion
    <3>2. LookupsUpTo[0][p] = << >>
      BY <3>1
    <3>3. /\ << >> \in Seq(Variables) /\ Len(<< >>) = 0
          /\ \A j : j \notin 1 .. 0
      BY EmptySeq
    <3>4. GivenUpTo(0, p)
      BY <3>2, <3>3 DEF GivenUpTo
    <3> QED
      BY <2>2, <3>4
  <2>4. n \in 1 .. Len(Order) /\ n - 1 \in 0 .. Len(Order) /\ ~(n <= n - 1)
    <3>1. n \in 0 .. Len(Order)
      BY <2>2
    <3> HIDE DEF Bad
    <3> QED
      BY <2>3, <3>1, OrderFacts
  <2>5. GivenUpTo(n - 1, p)
    <3>1. n - 1 \notin Bad
      BY <2>2, <2>4
    <3> QED
      BY <2>4, <3>1
  <2> QED
    BY <2>2, <2>4, <2>5, GivenUpToStep
<1>2. GivenUpTo(Len(Order), p)
  <2>1. Len(Order) \in 0 .. Len(Order)
    BY OrderFacts
  <2> QED
    BY <1>1, <2>1
<1>3. LookupOf(p) = LookupsUpTo[Len(Order)][p]
  BY DEF LookupOf, Lookups
<1>4. \A v \in Variables : p \in Watch(v) <=> Inverses[p][v] # v
  BY DEF Watch
<1>5. DOMAIN LookupOf(p) = 1 .. Len(LookupOf(p))
  BY <1>2, <1>3, LenProperties DEF GivenUpTo
<1> QED
  BY <1>2, <1>3, <1>4, <1>5, OrderFacts DEF IsLookup, GivenUpTo

\* The loop of generateUnits is a function of how many statuses it has seen.
LEMMA UnitsUpToRecursion ==
    \A n \in 0 .. Len(Inverses) :
        UnitsUpTo[n] = IF n = 0 THEN << >>
                       ELSE UnitsUpTo[n - 1] \o UnitClauses(LookupOf(n), Inverses[n], 1)
<1> DEFINE Step(f, n) == IF n = 0 THEN << >>
                         ELSE f[n - 1] \o UnitClauses(LookupOf(n), Inverses[n], 1)
           Bad == {n \in 0 .. Len(Inverses) : ~ \E f : f = [i \in 0 .. n |-> Step(f, i)]}
<1>1. Bad = {}
  <2>1. SUFFICES ASSUME Bad # {} PROVE FALSE
    OBVIOUS
  <2>2. Bad \subseteq Nat
    <3> HIDE DEF Step
    <3> QED
      BY InversesFacts
  <2>3. PICK n \in Bad : \A m \in Bad : n <= m
    BY <2>1, <2>2, MinProperties
  <2>4. n # 0
    <3>1. LET f == [i \in 0 .. 0 |-> Step(<< >>, i)] IN f = [i \in 0 .. 0 |-> Step(f, i)]
      OBVIOUS
    <3> QED
      BY <3>1, InversesFacts
  <2>5. n - 1 \in 0 .. Len(Inverses) /\ n - 1 \notin Bad
    <3>1. n \in 0 .. Len(Inverses)
      BY <2>3
    <3> HIDE DEF Bad, Step
    <3>2. n - 1 \in 0 .. Len(Inverses) /\ ~(n <= n - 1)
      BY <2>4, <3>1, InversesFacts
    <3> QED
      BY <2>3, <3>2
  <2>6. PICK g : g = [i \in 0 .. n - 1 |-> Step(g, i)]
    BY <2>5
  <2> DEFINE f == [i \in 0 .. n |-> IF i = n THEN Step(g, n) ELSE g[i]]
  <2>7. ASSUME NEW i \in 0 .. n PROVE f[i] = Step(f, i)
    <3>1. CASE i = 0
      <4>1. 0 \in 0 .. n - 1 /\ f[0] = g[0] /\ g[0] = Step(g, 0)
        BY <2>4, <2>5, <2>6
      <4> QED
        BY <3>1, <4>1
    <3>2. CASE i # 0
      <4>1. i - 1 \in 0 .. n - 1 /\ i - 1 \in 0 .. n /\ i - 1 # n
        BY <2>5, <3>2
      <4>2. f[i - 1] = g[i - 1]
        BY <4>1
      <4>3. Step(f, i) = Step(g, i)
        <5> HIDE DEF f
        <5> QED
          BY <3>2, <4>2
      <4>4. f[i] = Step(g, i)
        <5>1. CASE i = n
          BY <5>1
        <5>2. CASE i # n
          <6>1. i \in 0 .. n - 1
            BY <2>5, <5>2
          <6> QED
            BY <2>6, <5>2, <6>1
        <5> QED
          BY <5>1, <5>2
      <4> QED
        BY <4>3, <4>4
    <3> QED
      BY <3>1, <3>2
  <2>8. f = [i \in 0 .. n |-> Step(f, i)]
    BY <2>7
  <2> QED
    BY <2>3, <2>8
<1>2. \E f : f = [i \in 0 .. Len(Inverses) |-> Step(f, i)]
  <2>1. Len(Inverses) \in 0 .. Len(Inverses)
    BY InversesFacts
  <2> HIDE DEF Step
  <2> QED
    BY <1>1, <2>1
<1>3. UnitsUpTo = [i \in 0 .. Len(Inverses) |-> Step(UnitsUpTo, i)]
  <2>1. UnitsUpTo = CHOOSE f : f = [i \in 0 .. Len(Inverses) |-> Step(f, i)]
    BY DEF UnitsUpTo
  <2> HIDE DEF Step
  <2> QED
    BY <1>2, <2>1
<1> QED
  BY <1>3

\* The unit clauses of the manager are those of its statuses.
LEMMA UnitsFacts ==
    /\ Units \in Seq(Clause)
    /\ \A i \in DOMAIN Units : \E p \in Statuses :
          \E j \in DOMAIN UnitClauses(LookupOf(p), Inverses[p], 1) :
             Units[i] = UnitClauses(LookupOf(p), Inverses[p], 1)[j]
    /\ \A p \in Statuses : \A j \in DOMAIN UnitClauses(LookupOf(p), Inverses[p], 1) :
          \E i \in DOMAIN Units : Units[i] = UnitClauses(LookupOf(p), Inverses[p], 1)[j]
<1> DEFINE Of(p) == UnitClauses(LookupOf(p), Inverses[p], 1)
           Good(n) == /\ UnitsUpTo[n] \in Seq(Clause)
                      /\ \A i \in 1 .. Len(UnitsUpTo[n]) : \E p \in Statuses :
                            \E j \in DOMAIN Of(p) : UnitsUpTo[n][i] = Of(p)[j]
                      /\ \A p \in 1 .. n : \A j \in DOMAIN Of(p) :
                            \E i \in 1 .. Len(UnitsUpTo[n]) : UnitsUpTo[n][i] = Of(p)[j]
           Bad == {n \in 0 .. Len(Inverses) : ~Good(n)}
<1>1. Bad = {}
  <2>1. SUFFICES ASSUME Bad # {} PROVE FALSE
    OBVIOUS
  <2>2. PICK n \in Bad : \A m \in Bad : n <= m
    <3>1. Bad \subseteq Nat
      BY InversesFacts
    <3> QED
      BY <2>1, <3>1, MinProperties
  <2>3. n # 0
    <3>1. UnitsUpTo[0] = << >>
      BY InversesFacts, UnitsUpToRecursion
    <3>2. Good(0)
      BY <3>1, EmptySeq
    <3> QED
      BY <2>2, <3>2
  <2>4. n \in 1 .. Len(Inverses) /\ n - 1 \in 0 .. Len(Inverses) /\ ~(n <= n - 1)
        /\ n \in Statuses
    <3>1. n \in 0 .. Len(Inverses)
      BY <2>2
    <3> HIDE DEF Bad, Good
    <3> QED
      BY <2>3, <3>1, InversesFacts
  <2>5. Good(n - 1)
    <3>1. n - 1 \notin Bad
      BY <2>2, <2>4
    <3> HIDE DEF Good
    <3> QED
      BY <2>4, <3>1
  <2> DEFINE old == UnitsUpTo[n - 1]
             new == Of(n)
  <2>6. UnitsUpTo[n] = old \o new
    <3>1. n \in 0 .. Len(Inverses)
      BY <2>4
    <3> QED
      BY <2>3, <3>1, UnitsUpToRecursion
  <2>7. new \in Seq(Clause)
    <3>1. \A j \in DOMAIN new : new[j] \in Clause
      BY <2>4, LookupOfIsLookup, InversesFacts, UnitClauseKeepsLeaders DEF Clause
    <3>2. new = << >> \/ \E c : new = << c >>
      BY DEF UnitClauses
    <3> HIDE DEF new
    <3>3. CASE new = << >>
      BY <3>3, EmptySeq
    <3>4. ASSUME NEW c, new = << c >> PROVE new \in Seq(Clause)
      <4>1. new[1] = c /\ 1 \in DOMAIN new
        BY <3>4
      <4>2. c \in Clause
        BY <3>1, <4>1
      <4> QED
        BY <3>4, <4>2
    <3> QED
      BY <3>2, <3>3, <3>4
  <2>8. old \in Seq(Clause) /\ Len(old) \in Nat /\ Len(new) \in Nat
        /\ DOMAIN new = 1 .. Len(new)
    BY <2>5, <2>7, LenProperties
  <2>13. /\ Len(UnitsUpTo[n]) = Len(old) + Len(new)
         /\ \A k \in 1 .. Len(old) : UnitsUpTo[n][k] = old[k]
         /\ \A k \in Len(old) + 1 .. Len(old) + Len(new) : UnitsUpTo[n][k] = new[k - Len(old)]
    <3> HIDE DEF old, new
    <3>1. /\ Len(old \o new) = Len(old) + Len(new)
          /\ \A k \in 1 .. Len(old) + Len(new) : (old \o new)[k] =
                 IF k <= Len(old) THEN old[k] ELSE new[k - Len(old)]
      BY <2>7, <2>8, ConcatProperties
    <3>2. ASSUME NEW k \in 1 .. Len(old)
          PROVE  k \in 1 .. Len(old) + Len(new) /\ k <= Len(old)
      BY <2>8
    <3>3. ASSUME NEW k \in Len(old) + 1 .. Len(old) + Len(new)
          PROVE  k \in 1 .. Len(old) + Len(new) /\ ~(k <= Len(old))
      BY <2>8
    <3> QED
      BY <2>6, <3>1, <3>2, <3>3
  <2>9. ASSUME NEW i \in 1 .. Len(UnitsUpTo[n])
        PROVE  \E p \in Statuses : \E j \in DOMAIN Of(p) : UnitsUpTo[n][i] = Of(p)[j]
    <3>2. CASE i \in 1 .. Len(old)
      <4>1. \E p \in Statuses : \E j \in DOMAIN Of(p) : old[i] = Of(p)[j]
        <5> HIDE DEF Of
        <5> QED
          BY <2>5, <3>2
      <4>2. UnitsUpTo[n][i] = old[i]
        BY <2>13, <3>2
      <4> QED
        BY <4>1, <4>2
    <3>3. CASE i \notin 1 .. Len(old)
      <4>1. i - Len(old) \in DOMAIN new /\ i \in Len(old) + 1 .. Len(old) + Len(new)
        <5> HIDE DEF old, new
        <5> QED
          BY <2>8, <2>13, <3>3
      <4>2. UnitsUpTo[n][i] = Of(n)[i - Len(old)]
        BY <2>13, <4>1
      <4> QED
        BY <2>4, <4>1, <4>2
    <3> QED
      BY <3>2, <3>3
  <2>10. UnitsUpTo[n] \in Seq(Clause)
    <3> HIDE DEF old, new
    <3> QED
      BY <2>6, <2>7, <2>8, ConcatProperties
  <2>11. ASSUME NEW p \in 1 .. n, NEW j \in DOMAIN Of(p)
         PROVE  \E i \in 1 .. Len(UnitsUpTo[n]) : UnitsUpTo[n][i] = Of(p)[j]
    <3> HIDE DEF old, new
    <3>1. /\ Len(UnitsUpTo[n]) = Len(old) + Len(new)
          /\ \A k \in 1 .. Len(old) : UnitsUpTo[n][k] = old[k]
          /\ \A k \in 1 .. Len(new) : UnitsUpTo[n][Len(old) + k] = new[k]
      <4>1. ASSUME NEW k \in 1 .. Len(new)
            PROVE  /\ Len(old) + k \in Len(old) + 1 .. Len(old) + Len(new)
                   /\ Len(old) + k - Len(old) = k
        BY <2>8
      <4> QED
        BY <2>13, <4>1
    <3> USE DEF old, new
    <3>2. CASE p = n
      <4>1. j \in 1 .. Len(new)
        BY <2>8, <2>11, <3>2
      <4>2. Len(old) + j \in 1 .. Len(UnitsUpTo[n])
        <5> HIDE DEF old, new
        <5> QED
          BY <2>8, <3>1, <4>1
      <4> QED
        BY <3>1, <3>2, <4>1, <4>2
    <3>3. CASE p # n
      <4>1. p \in 1 .. n - 1
        BY <2>4, <3>3, InversesFacts
      <4>2. PICK i \in 1 .. Len(old) : old[i] = Of(p)[j]
        BY <2>5, <2>11, <4>1
      <4>3. i \in 1 .. Len(UnitsUpTo[n])
        <5> HIDE DEF old, new
        <5> QED
          BY <2>8, <3>1
      <4> QED
        BY <3>1, <4>2, <4>3
    <3> QED
      BY <3>2, <3>3
  <2>12. Good(n)
    BY <2>9, <2>10, <2>11
  <2> HIDE DEF Good
  <2> QED
    BY <2>2, <2>12
<1>2. Good(Len(Inverses))
  <2>1. Len(Inverses) \in 0 .. Len(Inverses)
    BY InversesFacts
  <2> HIDE DEF Good
  <2> QED
    BY <1>1, <2>1
<1>3. Units = UnitsUpTo[Len(Inverses)]
  BY DEF Units
<1>4. DOMAIN Units = 1 .. Len(Units) /\ Statuses = 1 .. Len(Inverses)
  BY <1>2, <1>3, LenProperties, InversesFacts DEF Statuses
<1> HIDE DEF Of
<1>5. /\ Units \in Seq(Clause)
      /\ \A i \in DOMAIN Units : \E p \in Statuses : \E j \in DOMAIN Of(p) : Units[i] = Of(p)[j]
      /\ \A p \in Statuses : \A j \in DOMAIN Of(p) : \E i \in DOMAIN Units : Units[i] = Of(p)[j]
  <2> DEFINE L == UnitsUpTo[Len(Inverses)]
  <2>1. Units = L
    BY <1>3
  <2>2. /\ L \in Seq(Clause)
        /\ \A i \in 1 .. Len(L) : \E p \in Statuses : \E j \in DOMAIN Of(p) : L[i] = Of(p)[j]
        /\ \A p \in 1 .. Len(Inverses) : \A j \in DOMAIN Of(p) :
              \E i \in 1 .. Len(L) : L[i] = Of(p)[j]
    BY <1>2
  <2> HIDE DEF L
  <2>3. DOMAIN Units = 1 .. Len(L)
    BY <1>4, <2>1
  <2>4. Units \in Seq(Clause)
    BY <2>1, <2>2
  <2>5. \A i \in DOMAIN Units : \E p \in Statuses : \E j \in DOMAIN Of(p) : Units[i] = Of(p)[j]
    BY <2>1, <2>2, <2>3
  <2>6. ASSUME NEW p \in Statuses, NEW j \in DOMAIN Of(p)
        PROVE  \E i \in DOMAIN Units : Units[i] = Of(p)[j]
    <3>1. p \in 1 .. Len(Inverses)
      BY <1>4
    <3>2. \E i \in 1 .. Len(L) : L[i] = Of(p)[j]
      BY <2>2, <3>1
    <3> QED
      BY <2>1, <2>3, <3>2
  <2> QED
    BY <2>4, <2>5, <2>6
<1> QED
  BY <1>5 DEF Of

-----------------------------------------------------------------------------
\* The injector.

InjectorTypeOK(store) ==
    /\ store \in [ClauseType -> [Cause -> Seq(Clause)]]
    /\ \A type \in ClauseType, v \in Variables : Len(store[type][v]) <= 1

\* The clause is a conflict since the literal of variable v was notified.
IsConflictSince(history, v, clause) ==
    \E i \in DOMAIN history :
        /\ Variable(history[i]) = v
        /\ Negated(history[i]) \in clause
        /\ \A l \in clause : \E j \in 1 .. i : history[j] = Negated(l)

\* The clause was unit when the literal of variable v was notified.
WasUnit(history, v, clause) ==
    \E i \in DOMAIN history :
        /\ Variable(history[i]) = v
        /\ \E l \in clause :
              /\ ~LiteralIsAssigned(AssignedBy(history, i), l)
              /\ \A m \in clause \ {l} : LiteralIsFalse(AssignedBy(history, i), m)

InjectorMatches(history, store) ==
    \A v \in Variables :
        /\ HasClause(store, "ESBP", v)
             => IsConflictSince(history, v, TakenClause(store, "ESBP", v))
        /\ HasClause(store, "ESBP_FORCING", v)
             => WasUnit(history, v, TakenClause(store, "ESBP_FORCING", v))

\* PendingKeepsLeaders of a store.
StoreKeepsLeaders(store) ==
    \A type \in {"ESBP", "UNITS"}, cause \in Cause :
        \A i \in DOMAIN store[type][cause] : KeepsLeaders(store[type][cause][i])

LEMMA CauseFacts == NoVariable \notin Variables /\ NoVariable \in Cause /\ Variables \subseteq Cause
  BY DEF NoVariable, Variables, Cause

\* The injector never holds a second clause of a type for one variable.
LEMMA AddClauseFacts ==
    ASSUME NEW store, InjectorTypeOK(store), NEW type \in ClauseType,
           NEW v \in Variables, NEW clause \in Clause
    PROVE  /\ InjectorTypeOK(AddClause(store, type, v, clause))
           /\ \A t \in ClauseType, c \in Cause :
                 \/ AddClause(store, type, v, clause)[t][c] = store[t][c]
                 \/ /\ t = type /\ c = v
                    /\ AddClause(store, type, v, clause)[t][c] = << clause >>
<1> DEFINE store2 == AddClause(store, type, v, clause)
<1>1. CASE store[type][v] # << >>
  <2>1. store2 = store
    BY <1>1, CauseFacts DEF AddClause
  <2> QED
    BY <2>1
<1>2. CASE store[type][v] = << >>
  <2>1. v \in Cause /\ store \in [ClauseType -> [Cause -> Seq(Clause)]]
    BY CauseFacts DEF InjectorTypeOK
  <2>2. store2 = [store EXCEPT ![type][v] = Append(@, clause)]
    BY <1>2 DEF AddClause
  <2>3. Append(store[type][v], clause) = << clause >>
    BY <1>2
  <2>4. \A t \in ClauseType, c \in Cause :
            store2[t][c] = IF t = type /\ c = v THEN << clause >> ELSE store[t][c]
    BY <2>1, <2>2, <2>3
  <2>5. << clause >> \in Seq(Clause) /\ Len(<< clause >>) = 1
    OBVIOUS
  <2>6. store2 \in [ClauseType -> [Cause -> Seq(Clause)]]
    BY <2>1, <2>2, <2>3, <2>5
  <2> HIDE DEF store2
  <2>7. \A t \in ClauseType, w \in Variables : Len(store2[t][w]) <= 1
    <3> SUFFICES ASSUME NEW t \in ClauseType, NEW w \in Variables
                 PROVE  Len(store2[t][w]) <= 1
      OBVIOUS
    <3>1. w \in Cause /\ Len(store[t][w]) <= 1
      BY CauseFacts DEF InjectorTypeOK
    <3>2. CASE t = type /\ w = v
      <4>1. store2[t][w] = << clause >>
        BY <2>4, <3>1, <3>2
      <4> QED
        BY <2>5, <4>1
    <3>3. CASE ~(t = type /\ w = v)
      <4>1. store2[t][w] = store[t][w]
        BY <2>4, <3>1, <3>3
      <4> QED
        BY <3>1, <4>1
    <3> QED
      BY <3>2, <3>3
  <2> QED
    BY <2>4, <2>6, <2>7 DEF InjectorTypeOK, store2
<1> QED
  BY <1>1, <1>2

LEMMA AddUnitsFacts ==
    ASSUME NEW store, InjectorTypeOK(store)
    PROVE  /\ InjectorTypeOK(AddUnits(store, Units))
           /\ \A t \in ClauseType, c \in Cause :
                 AddUnits(store, Units)[t][c] = IF t = "UNITS" /\ c = NoVariable
                                                THEN store[t][c] \o Units
                                                ELSE store[t][c]
<1>1. /\ NoVariable \in Cause /\ "UNITS" \in ClauseType
      /\ store \in [ClauseType -> [Cause -> Seq(Clause)]]
  BY CauseFacts DEF InjectorTypeOK, ClauseType
<1>2. store["UNITS"][NoVariable] \o Units \in Seq(Clause)
  BY <1>1, UnitsFacts, ConcatProperties
<1> DEFINE store2 == AddUnits(store, Units)
<1>3. \A t \in ClauseType, c \in Cause :
          store2[t][c] = IF t = "UNITS" /\ c = NoVariable THEN store[t][c] \o Units
                                                          ELSE store[t][c]
  BY <1>1 DEF AddUnits
<1>4. store2 \in [ClauseType -> [Cause -> Seq(Clause)]]
  BY <1>1, <1>2 DEF AddUnits
<1>5. \A t \in ClauseType, w \in Variables : Len(store2[t][w]) <= 1
  BY <1>3, CauseFacts DEF InjectorTypeOK
<1> QED
  BY <1>3, <1>4, <1>5 DEF InjectorTypeOK

LEMMA RemoveClausesFacts ==
    ASSUME NEW store, InjectorTypeOK(store), NEW v \in Variables
    PROVE  /\ InjectorTypeOK(RemoveClauses(store, v))
           /\ \A t \in ClauseType, c \in Cause :
                 RemoveClauses(store, v)[t][c] = IF c = v THEN << >> ELSE store[t][c]
<1>1. v \in Cause /\ store \in [ClauseType -> [Cause -> Seq(Clause)]]
  BY CauseFacts DEF InjectorTypeOK
<1> DEFINE store2 == RemoveClauses(store, v)
<1>2. \A t \in ClauseType, c \in Cause :
          store2[t][c] = IF c = v THEN << >> ELSE store[t][c]
  BY <1>1 DEF RemoveClauses
<1>3. << >> \in Seq(Clause) /\ Len(<< >>) = 0
  BY EmptySeq
<1>4. store2 \in [ClauseType -> [Cause -> Seq(Clause)]]
  BY <1>1, <1>3 DEF RemoveClauses
<1>5. \A t \in ClauseType, w \in Variables : Len(store2[t][w]) <= 1
  BY <1>2, <1>3, CauseFacts DEF InjectorTypeOK
<1> QED
  BY <1>2, <1>4, <1>5 DEF InjectorTypeOK

LEMMA WithoutTakenFacts ==
    ASSUME NEW store, InjectorTypeOK(store), NEW type \in ClauseType,
           NEW cause \in Cause, HasClause(store, type, cause)
    PROVE  /\ InjectorTypeOK(WithoutTaken(store, type, cause))
           /\ \A t \in ClauseType, c \in Cause :
                 WithoutTaken(store, type, cause)[t][c] =
                     IF t = type /\ c = cause THEN Front(store[t][c]) ELSE store[t][c]
           /\ cause \in Variables => Front(store[type][cause]) = << >>
<1>1. store \in [ClauseType -> [Cause -> Seq(Clause)]]
  BY DEF InjectorTypeOK
<1> DEFINE store2 == WithoutTaken(store, type, cause)
           old == store[type][cause]
<1>2. old \in Seq(Clause) /\ old # << >>
  BY <1>1 DEF HasClause
<1>3. Front(old) \in Seq(Clause) /\ Len(Front(old)) = Len(old) - 1 /\ Len(old) \in Nat
  <2> HIDE DEF old
  <2> QED
    BY <1>2, FrontLastProperties
<1>4. \A t \in ClauseType, c \in Cause :
          store2[t][c] = IF t = type /\ c = cause THEN Front(store[t][c])
                                                  ELSE store[t][c]
  BY <1>1 DEF WithoutTaken
<1>5. store2 \in [ClauseType -> [Cause -> Seq(Clause)]]
  BY <1>1, <1>3 DEF WithoutTaken
<1>6. \A t \in ClauseType, w \in Variables : Len(store2[t][w]) <= 1
  <2> SUFFICES ASSUME NEW t \in ClauseType, NEW w \in Variables
               PROVE  Len(store2[t][w]) <= 1
    OBVIOUS
  <2>1. Len(store[t][w]) <= 1
    BY DEF InjectorTypeOK
  <2>2. CASE t = type /\ w = cause
    <3>1. store2[t][w] = Front(old)
      BY <1>4, <2>2, CauseFacts
    <3> HIDE DEF store2
    <3> QED
      BY <1>3, <2>1, <2>2, <3>1
  <2>3. CASE ~(t = type /\ w = cause)
    BY <1>4, <2>1, <2>3, CauseFacts
  <2> QED
    BY <2>2, <2>3
<1>7. ASSUME cause \in Variables PROVE Front(old) = << >>
  <2>1. Len(old) <= 1
    BY <1>7 DEF InjectorTypeOK
  <2> HIDE DEF old
  <2>2. Len(Front(old)) \in Nat
    BY <1>3, LenProperties
  <2>3. Len(Front(old)) = 0
    BY <1>3, <2>1, <2>2
  <2> QED
    BY <1>3, <2>3, EmptySeq
<1> QED
  BY <1>4, <1>5, <1>6, <1>7 DEF InjectorTypeOK

\* A store that loses clauses of variables, and no other change to them.
LEMMA FewerClausesMatch ==
    ASSUME NEW history, NEW store, NEW store2, InjectorMatches(history, store),
           \A t \in ClauseType, v \in Variables :
               store2[t][v] = store[t][v] \/ store2[t][v] = << >>
    PROVE  InjectorMatches(history, store2)
<1>1. "ESBP" \in ClauseType /\ "ESBP_FORCING" \in ClauseType
  BY DEF ClauseType
<1> QED
  BY <1>1 DEF InjectorMatches, HasClause, TakenClause

\* A conflict clause is added.
LEMMA AddEsbpMatches ==
    ASSUME NEW history, NEW store, InjectorTypeOK(store),
           InjectorMatches(history, store),
           NEW v \in Variables, NEW clause \in Clause,
           IsConflictSince(history, v, clause)
    PROVE  InjectorMatches(history, AddClause(store, "ESBP", v, clause))
<1> DEFINE store2 == AddClause(store, "ESBP", v, clause)
<1>1. "ESBP" \in ClauseType /\ "ESBP_FORCING" \in ClauseType /\ Variables \subseteq Cause
  BY CauseFacts DEF ClauseType
<1>2. \A t \in ClauseType, w \in Variables :
          \/ store2[t][w] = store[t][w]
          \/ t = "ESBP" /\ w = v /\ store2[t][w] = << clause >>
  BY <1>1, AddClauseFacts
<1>3. Last(<< clause >>) = clause
  BY DEF Last
<1> HIDE DEF store2
<1>4. ASSUME NEW w \in Variables, HasClause(store2, "ESBP", w)
      PROVE  IsConflictSince(history, w, TakenClause(store2, "ESBP", w))
  BY <1>1, <1>2, <1>3, <1>4 DEF InjectorMatches, HasClause, TakenClause
<1>5. ASSUME NEW w \in Variables, HasClause(store2, "ESBP_FORCING", w)
      PROVE  WasUnit(history, w, TakenClause(store2, "ESBP_FORCING", w))
  BY <1>1, <1>2, <1>5 DEF InjectorMatches, HasClause, TakenClause
<1> QED
  BY <1>4, <1>5 DEF InjectorMatches, store2

\* A clause that is unit is added.
LEMMA AddForcingMatches ==
    ASSUME NEW history, NEW store, InjectorTypeOK(store),
           InjectorMatches(history, store),
           NEW v \in Variables, NEW clause \in Clause,
           WasUnit(history, v, clause)
    PROVE  InjectorMatches(history, AddClause(store, "ESBP_FORCING", v, clause))
<1> DEFINE store2 == AddClause(store, "ESBP_FORCING", v, clause)
<1>1. "ESBP" \in ClauseType /\ "ESBP_FORCING" \in ClauseType /\ Variables \subseteq Cause
  BY CauseFacts DEF ClauseType
<1>2. \A t \in ClauseType, w \in Variables :
          \/ store2[t][w] = store[t][w]
          \/ t = "ESBP_FORCING" /\ w = v /\ store2[t][w] = << clause >>
  BY <1>1, AddClauseFacts
<1>3. Last(<< clause >>) = clause
  BY DEF Last
<1> HIDE DEF store2
<1>4. ASSUME NEW w \in Variables, HasClause(store2, "ESBP", w)
      PROVE  IsConflictSince(history, w, TakenClause(store2, "ESBP", w))
  BY <1>1, <1>2, <1>4 DEF InjectorMatches, HasClause, TakenClause
<1>5. ASSUME NEW w \in Variables, HasClause(store2, "ESBP_FORCING", w)
      PROVE  WasUnit(history, w, TakenClause(store2, "ESBP_FORCING", w))
  BY <1>1, <1>2, <1>3, <1>5 DEF InjectorMatches, HasClause, TakenClause
<1> QED
  BY <1>4, <1>5 DEF InjectorMatches, store2

\* What was said of a history up to a literal stays true of every history that
\* agrees up to that literal.
LEMMA HistoryPrefix ==
    ASSUME NEW history \in Seq(Literal), NEW history2 \in Seq(Literal),
           NEW v, NEW clause,
           \A i \in DOMAIN history : Variable(history[i]) = v =>
               /\ i \in DOMAIN history2
               /\ \A j \in 1 .. i : history2[j] = history[j]
    PROVE  /\ IsConflictSince(history, v, clause) => IsConflictSince(history2, v, clause)
           /\ WasUnit(history, v, clause) => WasUnit(history2, v, clause)
<1>1. DOMAIN history = 1 .. Len(history) /\ Len(history) \in Nat
  BY SeqFacts
<1>2. ASSUME NEW i \in DOMAIN history, Variable(history[i]) = v
      PROVE  /\ i \in DOMAIN history2
             /\ i \in 1 .. i /\ i \in Nat
             /\ \A j \in 1 .. i : history2[j] = history[j]
  BY <1>1, <1>2
<1>3. ASSUME IsConflictSince(history, v, clause) PROVE IsConflictSince(history2, v, clause)
  <2>1. PICK i \in DOMAIN history :
            /\ Variable(history[i]) = v
            /\ Negated(history[i]) \in clause
            /\ \A l \in clause : \E j \in 1 .. i : history[j] = Negated(l)
    BY <1>3 DEF IsConflictSince
  <2>2. \A l \in clause : \E j \in 1 .. i : history2[j] = Negated(l)
    BY <1>2, <2>1
  <2> QED
    BY <1>2, <2>1, <2>2 DEF IsConflictSince
<1>4. ASSUME WasUnit(history, v, clause) PROVE WasUnit(history2, v, clause)
  <2>1. PICK i \in DOMAIN history :
            /\ Variable(history[i]) = v
            /\ \E l \in clause :
                  /\ ~LiteralIsAssigned(AssignedBy(history, i), l)
                  /\ \A m \in clause \ {l} : LiteralIsFalse(AssignedBy(history, i), m)
    BY <1>4 DEF WasUnit
  <2>2. AssignedBy(history2, i) = AssignedBy(history, i)
    BY <1>2, <2>1, AssignedByPrefix
  <2> QED
    BY <1>2, <2>1, <2>2 DEF WasUnit
<1> QED
  BY <1>3, <1>4

\* More literals are notified.
LEMMA AppendMatches ==
    ASSUME NEW history \in Seq(Literal), NEW l \in Literal, NEW store,
           InjectorMatches(history, store),
           NEW history2, history2 = Append(history, l)
    PROVE  InjectorMatches(history2, store)
<1>1. /\ history2 \in Seq(Literal)
      /\ \A i \in DOMAIN history : /\ i \in DOMAIN history2
                                   /\ \A j \in 1 .. i : history2[j] = history[j]
  BY AppendFacts, SeqFacts
<1>2. ASSUME NEW v, NEW clause
      PROVE  /\ IsConflictSince(history, v, clause) => IsConflictSince(history2, v, clause)
             /\ WasUnit(history, v, clause) => WasUnit(history2, v, clause)
  BY <1>1, HistoryPrefix
<1> QED
  BY <1>2 DEF InjectorMatches

\* The literal notified last goes, and the clauses of its variable with it.
LEMMA CancelMatches ==
    ASSUME NEW history \in Seq(Literal), history # << >>, NEW store,
           InjectorTypeOK(store), InjectorMatches(history, store),
           NEW history2, history2 = Front(history)
    PROVE  InjectorMatches(history2, RemoveClauses(store, Variable(Last(history))))
<1> DEFINE w == Variable(Last(history))
           store2 == RemoveClauses(store, w)
<1>1. /\ history2 \in Seq(Literal) /\ DOMAIN history = 1 .. Len(history)
      /\ Len(history) \in Nat
      /\ Last(history) = history[Len(history)] /\ Last(history) \in Literal
      /\ DOMAIN history2 = 1 .. Len(history) - 1
      /\ \A i \in 1 .. Len(history) - 1 : history2[i] = history[i]
  BY FrontFacts, SeqFacts
<1>2. ASSUME NEW v, v # w, NEW clause
      PROVE  /\ IsConflictSince(history, v, clause) => IsConflictSince(history2, v, clause)
             /\ WasUnit(history, v, clause) => WasUnit(history2, v, clause)
  <2>1. ASSUME NEW i \in DOMAIN history, Variable(history[i]) = v
        PROVE  /\ i \in DOMAIN history2
               /\ \A j \in 1 .. i : history2[j] = history[j]
    <3>1. i # Len(history)
      BY <1>1, <1>2, <2>1
    <3> QED
      BY <1>1, <3>1
  <2> QED
    BY <1>1, <2>1, HistoryPrefix
<1>3. w \in Variables
  BY <1>1, LiteralFacts
<1>4. \A t \in ClauseType, v \in Variables :
          store2[t][v] = IF v = w THEN << >> ELSE store[t][v]
  BY <1>3, RemoveClausesFacts, CauseFacts
<1>5. "ESBP" \in ClauseType /\ "ESBP_FORCING" \in ClauseType
  BY DEF ClauseType
<1> HIDE DEF w, store2
<1>6. ASSUME NEW v \in Variables, HasClause(store2, "ESBP", v)
      PROVE  IsConflictSince(history2, v, TakenClause(store2, "ESBP", v))
  BY <1>2, <1>4, <1>5, <1>6 DEF InjectorMatches, HasClause, TakenClause
<1>7. ASSUME NEW v \in Variables, HasClause(store2, "ESBP_FORCING", v)
      PROVE  WasUnit(history2, v, TakenClause(store2, "ESBP_FORCING", v))
  BY <1>2, <1>4, <1>5, <1>7 DEF InjectorMatches, HasClause, TakenClause
<1> QED
  BY <1>6, <1>7 DEF InjectorMatches, store2, w

-----------------------------------------------------------------------------
(***************************************************************************)
(* The invariant.  To ControllerTypeOK it adds that the undo stack of      *)
(* every status is in step with the trail (an entry whose literal is gone  *)
(* would put the cursor at a pair that is not assigned), and it says of a  *)
(* forcing clause when it was unit, not only that it is when its literal   *)
(* is on top: the literals above it are unassigned before it is.           *)
(***************************************************************************)
StacksMatch ==
    \A p \in Statuses : UndoMatches(notified, LookupOf(p), Inverses[p],
                                    lookupIndex[p], lookupInfos[p])

IsFunctionOn(f, S) == f = [x \in S |-> f[x]]

ControllerIInv ==
    /\ ControllerTypeOK
    /\ IsFunctionOn(lookupInfos, Statuses)
    /\ StacksMatch
    /\ InjectorMatches(notified, clauses)

\* The type invariant in the parts the lemmas are about.
LEMMA TypeParts ==
    ControllerTypeOK <=>
        /\ enables \in 0 .. MaxEnables
        /\ IsHistory(asg, notified)
        /\ lookupIndex \in [Statuses -> Nat]
        /\ DOMAIN lookupInfos = Statuses
        /\ \A p \in Statuses : IsCursor(LookupOf(p), lookupIndex[p], lookupInfos[p])
        /\ state \in [Statuses -> CosyState]
        /\ InjectorTypeOK(clauses)
  BY DEF ControllerTypeOK, InjectorTypeOK

\* The status of permutation p.
LEMMA StatusFacts ==
    ASSUME ControllerIInv, NEW p \in Statuses
    PROVE  /\ IsLiteralMap(Inverses[p])
           /\ IsLookup(LookupOf(p), Inverses[p])
           /\ LookupOf(p) \in Seq(Variables)
           /\ IsCursor(LookupOf(p), lookupIndex[p], lookupInfos[p])
           /\ UndoMatches(notified, LookupOf(p), Inverses[p],
                          lookupIndex[p], lookupInfos[p])
           /\ PrefixEqual(asg, LookupOf(p), Inverses[p], lookupIndex[p])
<1>1. IsLiteralMap(Inverses[p]) /\ IsLookup(LookupOf(p), Inverses[p])
  BY InversesFacts, LookupOfIsLookup
<1>2. LookupOf(p) \in Seq(Variables)
  BY <1>1, LookupFacts
<1>3. IsCursor(LookupOf(p), lookupIndex[p], lookupInfos[p])
  BY DEF ControllerIInv, ControllerTypeOK
<1>4. UndoMatches(notified, LookupOf(p), Inverses[p], lookupIndex[p], lookupInfos[p])
  BY DEF ControllerIInv, StacksMatch
<1>5. IsHistory(asg, notified)
  BY DEF ControllerIInv, ControllerTypeOK
<1>6. PrefixEqual(asg, LookupOf(p), Inverses[p], lookupIndex[p])
  BY <1>1, <1>3, <1>4, <1>5, UndoImpliesPrefix
<1> QED
  BY <1>1, <1>2, <1>3, <1>4, <1>6

\* Where a status that is told of the new literal stops.
LEMMA ToldStops ==
    ASSUME ControllerIInv, NEW l \in Literal, Assign(l), NEW p \in Statuses
    PROVE  /\ StopsAt(asg', LookupOf(p), Inverses[p], NextIndex(p))
           /\ NextIndex(p) \in Nat
           /\ NextState(p) \in CosyState
<1>1. /\ IsHistory(asg, notified)
      /\ ~LiteralIsAssigned(asg, l)
      /\ asg' = AssignFromTrueLiteral(asg, l)
      /\ notified' = Append(notified, l)
  BY DEF ControllerIInv, ControllerTypeOK, Assign
<1>2. IsHistory(asg', notified')
  BY <1>1, AssignKeepsHistory
<1>3. asg \subseteq asg' /\ asg' \subseteq Literal /\ Consistent(asg')
  BY <1>1, <1>2 DEF AssignFromTrueLiteral, IsHistory
<1>4. /\ IsLiteralMap(Inverses[p]) /\ IsLookup(LookupOf(p), Inverses[p])
      /\ LookupOf(p) \in Seq(Variables) /\ Len(LookupOf(p)) \in Nat
      /\ lookupIndex[p] \in 1 .. Len(LookupOf(p)) + 1
      /\ PrefixEqual(asg, LookupOf(p), Inverses[p], lookupIndex[p])
  BY StatusFacts, CursorFacts, LookupFacts
<1>5. PrefixEqual(asg', LookupOf(p), Inverses[p], lookupIndex[p])
  <2>1. \A k \in 1 .. lookupIndex[p] - 1 : k \in 1 .. Len(LookupOf(p))
    BY <1>4
  <2> QED
    BY <1>3, <1>4, <2>1, SameAtMonotone DEF PrefixEqual
<1>6. StopsAt(asg', LookupOf(p), Inverses[p], NextIndex(p))
  BY <1>4, <1>5, AdvanceStops DEF NextIndex
<1>7. NextIndex(p) \in Nat
  BY <1>4, <1>6 DEF StopsAt
<1>8. NextState(p) \in CosyState
  BY DEF NextState, StateAt, CosyState
<1> QED
  BY <1>6, <1>7, <1>8

\* The new literal is on top of what it was assigned on.
LEMMA AssignedOnTop ==
    ASSUME ControllerIInv, NEW l \in Literal, Assign(l)
    PROVE  /\ IsHistory(asg', notified')
           /\ notified' \in Seq(Literal)
           /\ Len(notified') \in DOMAIN notified'
           /\ notified'[Len(notified')] = l
           /\ AssignedBy(notified', Len(notified')) = asg'
           /\ l \in asg'
           /\ InjectorMatches(notified', clauses)
<1>1. /\ IsHistory(asg, notified)
      /\ ~LiteralIsAssigned(asg, l)
      /\ asg' = AssignFromTrueLiteral(asg, l)
      /\ notified' = Append(notified, l)
      /\ notified \in Seq(Literal)
  BY DEF ControllerIInv, ControllerTypeOK, Assign, IsHistory
<1>2. IsHistory(asg', notified')
  BY <1>1, AssignKeepsHistory
<1>3. /\ Len(notified) \in Nat
      /\ Len(notified') = Len(notified) + 1
      /\ DOMAIN notified' = 1 .. Len(notified) + 1
      /\ notified'[Len(notified) + 1] = l
      /\ notified' \in Seq(Literal)
  BY <1>1, AppendFacts, SeqFacts
<1>4. AssignedBy(notified', Len(notified')) = asg'
  BY <1>2, AssignedByFacts
<1>5. InjectorMatches(notified', clauses)
  BY <1>1, AppendMatches DEF ControllerIInv
<1> QED
  BY <1>1, <1>2, <1>3, <1>4, <1>5 DEF AssignFromTrueLiteral

\* Telling some of the statuses that watch the variable.
LEMMA TellKeepsStatuses ==
    ASSUME ControllerIInv, NEW l \in Literal, Assign(l),
           NEW told, told \subseteq Watch(Variable(l)),
           TellStatuses(told, Variable(l))
    PROVE  /\ lookupIndex' \in [Statuses -> Nat]
           /\ DOMAIN lookupInfos' = Statuses
           /\ IsFunctionOn(lookupInfos', Statuses)
           /\ \A p \in Statuses : IsCursor(LookupOf(p), lookupIndex'[p], lookupInfos'[p])
           /\ state' \in [Statuses -> CosyState]
           /\ StacksMatch'
<1>1. /\ IsHistory(asg, notified)
      /\ lookupIndex \in [Statuses -> Nat]
      /\ state \in [Statuses -> CosyState]
      /\ ~LiteralIsAssigned(asg, l)
      /\ asg' = AssignFromTrueLiteral(asg, l)
      /\ notified' = Append(notified, l)
  BY DEF ControllerIInv, ControllerTypeOK, Assign
<1>2. /\ lookupIndex' \in [Statuses -> Nat]
      /\ DOMAIN lookupInfos' = Statuses
      /\ IsFunctionOn(lookupInfos', Statuses)
      /\ state' \in [Statuses -> CosyState]
  BY <1>1, ToldStops DEF TellStatuses, IsFunctionOn
<1>3. ASSUME NEW p \in Statuses
      PROVE  /\ IsCursor(LookupOf(p), lookupIndex'[p], lookupInfos'[p])
             /\ UndoMatches(notified', LookupOf(p), Inverses[p],
                            lookupIndex'[p], lookupInfos'[p])
  <2> DEFINE entry == [variable |-> Variable(l), backIndex |-> lookupIndex[p]]
  <2>1. CASE p \in told
    <3>1. /\ lookupIndex'[p] = NextIndex(p)
          /\ lookupInfos'[p] = IF NextIndex(p) # lookupIndex[p]
                               THEN Append(lookupInfos[p], entry) ELSE lookupInfos[p]
      BY <2>1 DEF TellStatuses
    <3>2. Inverses[p][Variable(l)] # Variable(l)
      BY <2>1 DEF Watch
    <3>3. IsTold(asg, notified, LookupOf(p), Inverses[p], lookupIndex[p], lookupInfos[p],
                 l, asg', notified', lookupIndex'[p], lookupInfos'[p])
      BY <1>1, <3>1, <3>2 DEF IsTold, NextIndex
    <3> QED
      BY <1>1, <3>3, StatusFacts, TellKeepsUndo
  <2>2. CASE p \notin told
    <3>1. lookupIndex'[p] = lookupIndex[p] /\ lookupInfos'[p] = lookupInfos[p]
      BY <2>2 DEF TellStatuses
    <3>2. UndoMatches(notified', LookupOf(p), Inverses[p], lookupIndex[p], lookupInfos[p])
      BY <1>1, StatusFacts, MissKeepsUndo
    <3> QED
      BY <3>1, <3>2, StatusFacts
  <2> QED
    BY <2>1, <2>2
<1> QED
  BY <1>2, <1>3 DEF StacksMatch

\* The forcing clauses of the statuses told.
LEMMA AfterForcingMatches ==
    ASSUME ControllerIInv, NEW l \in Literal, Assign(l),
           NEW told, told \subseteq Watch(Variable(l)),
           NEW store \in AfterForcing(told, Variable(l))
    PROVE  /\ InjectorTypeOK(store)
           /\ InjectorMatches(notified', store)
<1>1. InjectorTypeOK(clauses) /\ InjectorMatches(notified', clauses)
  BY AssignedOnTop, TypeParts DEF ControllerIInv
<1>2. SUFFICES ASSUME NEW p \in told, NextState(p) = ForceLexLeader,
                      store = AddClause(clauses, "ESBP_FORCING", Variable(l),
                                  ForcingClause(asg', LookupOf(p), Inverses[p],
                                                NextIndex(p), Variable(l)))
               PROVE  InjectorTypeOK(store) /\ InjectorMatches(notified', store)
  BY <1>1 DEF AfterForcing
<1> DEFINE clause == ForcingClause(asg', LookupOf(p), Inverses[p],
                                   NextIndex(p), Variable(l))
           forced == ForcedLiteral(asg', LookupOf(p), Inverses[p], NextIndex(p))
<1>3. p \in Statuses
  BY DEF Watch
<1>4. /\ asg' \subseteq Literal /\ Consistent(asg') /\ l \in asg'
      /\ IsLiteralMap(Inverses[p]) /\ IsLookup(LookupOf(p), Inverses[p])
      /\ StopsAt(asg', LookupOf(p), Inverses[p], NextIndex(p))
      /\ StateAt(asg', LookupOf(p), Inverses[p], NextIndex(p)) = ForceLexLeader
  BY <1>2, <1>3, AssignedOnTop, ToldStops, StatusFacts DEF IsHistory, NextState
<1>5. /\ forced \in clause /\ forced \in Literal
      /\ ~LiteralIsAssigned(asg', forced)
      /\ \A m \in clause \ {forced} : m \in Literal /\ LiteralIsFalse(asg', m)
  BY <1>4, ForcingClauseIsUnit
<1> HIDE DEF clause, forced
<1>6. clause \in Clause
  BY <1>5 DEF Clause
<1>7. WasUnit(notified', Variable(l), clause)
  BY <1>5, AssignedOnTop DEF WasUnit
<1>8. Variable(l) \in Variables /\ "ESBP_FORCING" \in ClauseType
  BY LiteralFacts DEF ClauseType
<1>9. InjectorTypeOK(store)
  BY <1>1, <1>2, <1>6, <1>8, AddClauseFacts DEF clause
<1>10. InjectorMatches(notified', store)
  BY <1>1, <1>2, <1>6, <1>7, <1>8, AddForcingMatches DEF clause
<1> QED
  BY <1>9, <1>10

\* The clause of the status that became a reducer.
LEMMA ReducerClauseMatches ==
    ASSUME ControllerIInv, NEW l \in Literal, Assign(l),
           NEW r \in Statuses, NextState(r) = Reducer,
           NEW store, InjectorTypeOK(store), InjectorMatches(notified', store),
           NEW store2,
           store2 = AddClause(store, "ESBP", Variable(l),
                        EsbpClause(asg', LookupOf(r), Inverses[r], NextIndex(r),
                                   Variable(l)))
    PROVE  /\ InjectorTypeOK(store2)
           /\ InjectorMatches(notified', store2)
<1> DEFINE clause == EsbpClause(asg', LookupOf(r), Inverses[r], NextIndex(r), Variable(l))
<1>1. /\ asg' \subseteq Literal /\ Consistent(asg') /\ l \in asg'
      /\ IsLiteralMap(Inverses[r]) /\ IsLookup(LookupOf(r), Inverses[r])
      /\ StopsAt(asg', LookupOf(r), Inverses[r], NextIndex(r))
      /\ StateAt(asg', LookupOf(r), Inverses[r], NextIndex(r)) = Reducer
  BY AssignedOnTop, ToldStops, StatusFacts DEF IsHistory, NextState
<1>2. \A m \in clause : m \in Literal /\ LiteralIsFalse(asg', m)
  BY <1>1, EsbpClauseIsFalse
<1>3. Negated(l) \in clause
  <2>1. LiteralIsAssigned(asg', l)
    BY <1>1 DEF LiteralIsAssigned, LiteralIsTrue
  <2>2. FalseLiteralOf(asg', Variable(l)) = Negated(l)
    BY <1>1, <2>1, FalseLiteralFacts
  <2> QED
    BY <2>2 DEF EsbpClause
<1> HIDE DEF clause
<1>4. clause \in Clause
  BY <1>2 DEF Clause
<1>5. IsConflictSince(notified', Variable(l), clause)
  <2>1. \A m \in clause : \E j \in 1 .. Len(notified') : notified'[j] = Negated(m)
    BY <1>2, AssignedOnTop DEF AssignedBy, LiteralIsFalse
  <2> QED
    BY <1>3, <2>1, AssignedOnTop DEF IsConflictSince
<1>6. Variable(l) \in Variables /\ "ESBP" \in ClauseType
  BY LiteralFacts DEF ClauseType
<1>7. InjectorTypeOK(store2)
  BY <1>4, <1>6, AddClauseFacts DEF clause
<1>8. InjectorMatches(notified', store2)
  BY <1>4, <1>5, <1>6, AddEsbpMatches DEF clause
<1> QED
  BY <1>7, <1>8

-----------------------------------------------------------------------------
\* One lemma for each action.

LEMMA ControllerInitIInv == ControllerInit => ControllerIInv
<1> SUFFICES ASSUME ControllerInit PROVE ControllerIInv
  OBVIOUS
<1>1. /\ enables = 0 /\ asg = {} /\ notified = << >>
      /\ lookupIndex = [p \in Statuses |-> 1]
      /\ lookupInfos = [p \in Statuses |-> << >>]
      /\ state = [p \in Statuses |-> Active]
      /\ clauses = NoClauses
  BY DEF ControllerInit
<1>2. IsHistory(asg, notified)
  <2>1. << >> \in Seq(Literal) /\ DOMAIN << >> = {}
    BY EmptySeq
  <2> QED
    BY <1>1, <2>1 DEF IsHistory, Consistent
<1>3. \A p \in Statuses : LookupOf(p) \in Seq(Variables)
  BY LookupOfIsLookup, LookupFacts
<1>4. /\ \A p \in Statuses : IsCursor(LookupOf(p), lookupIndex[p], lookupInfos[p])
      /\ StacksMatch
  BY <1>1, <1>3, NewStatus DEF StacksMatch
<1>5. InjectorTypeOK(clauses) /\ InjectorMatches(notified, clauses)
  <2>1. \A t \in ClauseType, c \in Cause : clauses[t][c] = << >>
    BY <1>1 DEF NoClauses
  <2>2. << >> \in Seq(Clause) /\ Len(<< >>) = 0
    BY EmptySeq
  <2>3. clauses \in [ClauseType -> [Cause -> Seq(Clause)]]
    BY <1>1, <2>2 DEF NoClauses
  <2>4. "ESBP" \in ClauseType /\ "ESBP_FORCING" \in ClauseType
    BY DEF ClauseType
  <2> QED
    BY <2>1, <2>2, <2>3, <2>4, CauseFacts DEF InjectorTypeOK, InjectorMatches, HasClause
<1>6. enables \in 0 .. MaxEnables
  BY <1>1, MaxEnablesAssumption
<1> QED
  BY <1>1, <1>2, <1>4, <1>5, <1>6 DEF ControllerIInv, ControllerTypeOK, InjectorTypeOK, CosyState,
         IsFunctionOn

LEMMA EnableCosyKeepsIInv == ASSUME ControllerIInv, EnableCosy PROVE ControllerIInv'
<1>1. /\ enables < MaxEnables /\ enables' = enables + 1
      /\ lookupIndex' = [p \in Statuses |-> 1]
      /\ lookupInfos' = [p \in Statuses |-> << >>]
      /\ state' = [p \in Statuses |-> Active]
      /\ clauses' = AddUnits(clauses, Units)
      /\ asg' = asg /\ notified' = notified
  BY DEF EnableCosy
<1>2. /\ enables \in 0 .. MaxEnables
      /\ IsHistory(asg, notified)
      /\ InjectorTypeOK(clauses)
      /\ InjectorMatches(notified, clauses)
  BY TypeParts DEF ControllerIInv
<1>3. \A p \in Statuses : LookupOf(p) \in Seq(Variables)
  BY LookupOfIsLookup, LookupFacts
<1>4. /\ \A p \in Statuses : IsCursor(LookupOf(p), lookupIndex'[p], lookupInfos'[p])
      /\ StacksMatch'
  BY <1>1, <1>3, NewStatus DEF StacksMatch
<1>5. InjectorTypeOK(clauses')
  BY <1>1, <1>2, AddUnitsFacts
<1>6. InjectorMatches(notified', clauses')
  <2>1. \A t \in ClauseType, v \in Variables : clauses'[t][v] = clauses[t][v]
    BY <1>1, <1>2, AddUnitsFacts, CauseFacts
  <2> QED
    BY <1>1, <1>2, <2>1, FewerClausesMatch
<1>7. enables' \in 0 .. MaxEnables
  BY <1>1, <1>2, MaxEnablesAssumption
<1> QED
  BY <1>1, <1>2, <1>4, <1>5, <1>6, <1>7 DEF ControllerIInv, ControllerTypeOK, InjectorTypeOK, CosyState,
         IsFunctionOn

LEMMA NotifyDisabledKeepsIInv ==
    ASSUME ControllerIInv, NEW l \in Literal, NotifyDisabled(l) PROVE ControllerIInv'
<1>1. /\ Assign(l)
      /\ lookupIndex' = lookupIndex /\ lookupInfos' = lookupInfos
      /\ state' = state /\ clauses' = clauses
  BY DEF NotifyDisabled, statusVars
<1>2. enables' = enables /\ IsHistory(asg, notified) /\ ~LiteralIsAssigned(asg, l)
      /\ notified' = Append(notified, l)
  BY <1>1, TypeParts DEF Assign, ControllerIInv
<1>3. IsHistory(asg', notified') /\ InjectorMatches(notified', clauses')
  BY <1>1, AssignedOnTop
<1>4. StacksMatch'
  BY <1>1, <1>2, StatusFacts, MissKeepsUndo DEF StacksMatch
<1> QED
  BY <1>1, <1>2, <1>3, <1>4 DEF ControllerIInv, ControllerTypeOK, InjectorTypeOK

LEMMA NotifyAllKeepsIInv ==
    ASSUME ControllerIInv, NEW l \in Literal, NotifyAll(l) PROVE ControllerIInv'
<1>1. /\ Assign(l)
      /\ TellStatuses(Watch(Variable(l)), Variable(l))
      /\ clauses' \in AfterForcing(Watch(Variable(l)), Variable(l))
  BY DEF NotifyAll
<1>2. enables' = enables /\ enables \in 0 .. MaxEnables
  BY <1>1, TypeParts DEF Assign, ControllerIInv
<1>3. IsHistory(asg', notified')
  BY <1>1, AssignedOnTop
<1>4. /\ lookupIndex' \in [Statuses -> Nat]
      /\ DOMAIN lookupInfos' = Statuses
      /\ IsFunctionOn(lookupInfos', Statuses)
      /\ \A p \in Statuses : IsCursor(LookupOf(p), lookupIndex'[p], lookupInfos'[p])
      /\ state' \in [Statuses -> CosyState]
      /\ StacksMatch'
  BY <1>1, TellKeepsStatuses
<1>5. InjectorTypeOK(clauses') /\ InjectorMatches(notified', clauses')
  BY <1>1, AfterForcingMatches
<1> QED
  BY <1>2, <1>3, <1>4, <1>5 DEF ControllerIInv, ControllerTypeOK, InjectorTypeOK

LEMMA NotifyReducerKeepsIInv ==
    ASSUME ControllerIInv, NEW l \in Literal, NEW r \in Watch(Variable(l)),
           NotifyReducer(l, r)
    PROVE  ControllerIInv'
<1>1. Assign(l) /\ NextState(r) = Reducer /\ r \in Statuses
  BY DEF NotifyReducer, Watch
<1>2. PICK before \in SUBSET {p \in Watch(Variable(l)) : NextState(p) # Reducer} :
          /\ TellStatuses(before \cup {r}, Variable(l))
          /\ \E store \in AfterForcing(before, Variable(l)) :
                clauses' = AddClause(store, "ESBP", Variable(l),
                               EsbpClause(asg', LookupOf(r), Inverses[r],
                                          NextIndex(r), Variable(l)))
  BY DEF NotifyReducer
<1>3. before \subseteq Watch(Variable(l)) /\ before \cup {r} \subseteq Watch(Variable(l))
  OBVIOUS
<1>4. enables' = enables /\ enables \in 0 .. MaxEnables
  BY <1>1, TypeParts DEF Assign, ControllerIInv
<1>5. IsHistory(asg', notified')
  BY <1>1, AssignedOnTop
<1>6. /\ lookupIndex' \in [Statuses -> Nat]
      /\ DOMAIN lookupInfos' = Statuses
      /\ IsFunctionOn(lookupInfos', Statuses)
      /\ \A p \in Statuses : IsCursor(LookupOf(p), lookupIndex'[p], lookupInfos'[p])
      /\ state' \in [Statuses -> CosyState]
      /\ StacksMatch'
  BY <1>1, <1>2, <1>3, TellKeepsStatuses
<1>7. InjectorTypeOK(clauses') /\ InjectorMatches(notified', clauses')
  <2>1. PICK store \in AfterForcing(before, Variable(l)) :
            clauses' = AddClause(store, "ESBP", Variable(l),
                           EsbpClause(asg', LookupOf(r), Inverses[r],
                                      NextIndex(r), Variable(l)))
    BY <1>2
  <2>2. InjectorTypeOK(store) /\ InjectorMatches(notified', store)
    BY <1>1, <1>3, AfterForcingMatches
  <2> QED
    BY <1>1, <2>1, <2>2, ReducerClauseMatches
<1> QED
  BY <1>4, <1>5, <1>6, <1>7 DEF ControllerIInv, ControllerTypeOK, InjectorTypeOK

\* An entry of an undo stack names a variable that its permutation moves and
\* that is assigned.
LEMMA EntryIsAssigned ==
    ASSUME ControllerIInv, NEW p \in Statuses, lookupInfos[p] # << >>
    PROVE  /\ p \in Watch(Last(lookupInfos[p]).variable)
           /\ \E l \in asg : Variable(l) = Last(lookupInfos[p]).variable
<1> DEFINE infos == lookupInfos[p]
           k == Len(infos)
<1>1. /\ IsLookup(LookupOf(p), Inverses[p])
      /\ IsCursor(LookupOf(p), lookupIndex[p], infos)
      /\ UndoMatches(notified, LookupOf(p), Inverses[p], lookupIndex[p], infos)
      /\ IsHistory(asg, notified)
  BY StatusFacts, TypeParts DEF ControllerIInv
<1>2. /\ k \in DOMAIN infos /\ Last(infos) = infos[k]
      /\ infos[k].variable \in Range(LookupOf(p))
  <2>1. infos \in Seq(LookupInfo(LookupOf(p)))
    BY <1>1 DEF IsCursor
  <2>2. k \in Nat \ {0} /\ Last(infos) = infos[k]
    BY <2>1, FrontLastProperties
  <2> QED
    BY <1>1, <2>2, CursorFacts
<1>3. PICK i \in DOMAIN notified : Variable(notified[i]) = infos[k].variable
  BY <1>1, <1>2 DEF UndoMatches, PushedAt
<1>4. notified[i] \in asg
  BY <1>1, HistoryFacts
<1>5. PICK j \in DOMAIN LookupOf(p) : LookupOf(p)[j] = infos[k].variable
  BY <1>2 DEF Range
<1>6. infos[k].variable \in Variables
  BY <1>1, <1>5, LookupFacts
<1>7. p \in Watch(infos[k].variable)
  BY <1>1, <1>5, <1>6 DEF IsLookup, Watch
<1> QED
  BY <1>2, <1>3, <1>4, <1>7

\* The solver cancels the literal it notified last.
LEMMA CancelLastKeepsIInv ==
    ASSUME ControllerIInv, NEW l \in Literal, UpdateCancel(l),
           LiteralIsAssigned(asg, l)
    PROVE  ControllerIInv' /\ notified # << >> /\ l = Last(notified)
<1>1. /\ l = Last(notified) /\ notified' = Front(notified)
      /\ asg' = UnassignLiteral(asg, l)
      /\ lookupIndex' = [p \in Statuses |->
             IF Pops(p, l) THEN Last(lookupInfos[p]).backIndex ELSE lookupIndex[p]]
      /\ lookupInfos' = [p \in Statuses |->
             IF Pops(p, l) THEN Front(lookupInfos[p]) ELSE lookupInfos[p]]
      /\ clauses' = RemoveClauses(clauses, Variable(l))
      /\ enables' = enables /\ state' = state
  BY DEF UpdateCancel
<1>2. /\ IsHistory(asg, notified)
      /\ InjectorTypeOK(clauses) /\ InjectorMatches(notified, clauses)
  BY TypeParts DEF ControllerIInv
<1>3. notified # << >>
  <2>1. PICK m \in Literal : m \in asg
    BY LiteralFacts DEF LiteralIsAssigned, LiteralIsTrue, LiteralIsFalse
  <2>2. DOMAIN notified # {}
    BY <1>2, <2>1 DEF IsHistory
  <2> QED
    BY <2>2, EmptySeq
<1>4. IsHistory(asg', notified')
  BY <1>1, <1>2, <1>3, UnassignKeepsHistory
<1>5. ASSUME NEW p \in Statuses
      PROVE  /\ IsCursor(LookupOf(p), lookupIndex'[p], lookupInfos'[p])
             /\ UndoMatches(notified', LookupOf(p), Inverses[p],
                            lookupIndex'[p], lookupInfos'[p])
             /\ lookupIndex'[p] \in Nat
  <2>1. \/ /\ lookupInfos[p] # << >>
           /\ Last(lookupInfos[p]).variable = Variable(Last(notified))
           /\ lookupIndex'[p] = Last(lookupInfos[p]).backIndex
           /\ lookupInfos'[p] = Front(lookupInfos[p])
        \/ /\ \/ lookupInfos[p] = << >>
              \/ Last(lookupInfos[p]).variable # Variable(Last(notified))
           /\ lookupIndex'[p] = lookupIndex[p]
           /\ lookupInfos'[p] = lookupInfos[p]
    BY <1>1, EntryIsAssigned DEF Pops
  <2>2. /\ IsCursor(LookupOf(p), lookupIndex'[p], lookupInfos'[p])
        /\ UndoMatches(notified', LookupOf(p), Inverses[p],
                       lookupIndex'[p], lookupInfos'[p])
    BY <1>1, <1>2, <1>3, <2>1, StatusFacts, PopKeepsUndo
  <2>3. lookupIndex'[p] \in Nat
    BY <2>2, StatusFacts, LookupFacts DEF IsCursor
  <2> QED
    BY <2>2, <2>3
<1>6. lookupIndex' \in [Statuses -> Nat] /\ DOMAIN lookupInfos' = Statuses
  BY <1>1, <1>5
<1>7. InjectorTypeOK(clauses')
  BY <1>1, <1>2, LiteralFacts, RemoveClausesFacts
<1>8. InjectorMatches(notified', clauses')
  BY <1>1, <1>2, <1>3, CancelMatches DEF IsHistory
<1>9. ControllerIInv'
  BY <1>1, <1>4, <1>5, <1>6, <1>7, <1>8
     DEF ControllerIInv, ControllerTypeOK, InjectorTypeOK, StacksMatch, IsFunctionOn
<1> QED
  BY <1>1, <1>3, <1>9

\* The solver cancels a literal that it never notified: no status moves.
LEMMA CancelUnknownKeepsIInv ==
    ASSUME ControllerIInv, NEW l \in Literal, UpdateCancel(l),
           ~LiteralIsAssigned(asg, l)
    PROVE  /\ ControllerIInv'
           /\ UNCHANGED <<enables, asg, notified, statusVars>>
<1>1. /\ notified' = notified
      /\ asg' = UnassignLiteral(asg, l)
      /\ lookupIndex' = [p \in Statuses |->
             IF Pops(p, l) THEN Last(lookupInfos[p]).backIndex ELSE lookupIndex[p]]
      /\ lookupInfos' = [p \in Statuses |->
             IF Pops(p, l) THEN Front(lookupInfos[p]) ELSE lookupInfos[p]]
      /\ clauses' = RemoveClauses(clauses, Variable(l))
      /\ enables' = enables /\ state' = state
  BY DEF UpdateCancel
<1>2. /\ IsHistory(asg, notified)
      /\ lookupIndex \in [Statuses -> Nat] /\ DOMAIN lookupInfos = Statuses
      /\ InjectorTypeOK(clauses) /\ InjectorMatches(notified, clauses)
  BY TypeParts DEF ControllerIInv
<1>3. asg' = asg
  BY <1>1 DEF UnassignLiteral, LiteralIsAssigned, LiteralIsTrue, LiteralIsFalse
<1>4. ASSUME NEW p \in Statuses PROVE ~Pops(p, l)
  <2>1. SUFFICES ASSUME Pops(p, l) PROVE FALSE
    OBVIOUS
  <2>2. PICK m \in asg : Variable(m) = Variable(l)
    BY <2>1, EntryIsAssigned DEF Pops
  <2>3. m \in Literal
    BY <1>2 DEF IsHistory
  <2> QED
    BY <2>2, <2>3, LiteralFacts DEF LiteralIsAssigned, LiteralIsTrue, LiteralIsFalse
<1>5. lookupIndex' = lookupIndex
  BY <1>1, <1>2, <1>4
<1>6. lookupInfos' = lookupInfos
  <2>1. \A p \in Statuses : lookupInfos'[p] = lookupInfos[p]
    BY <1>1, <1>4
  <2>2. lookupInfos = [p \in Statuses |-> lookupInfos[p]]
    BY DEF ControllerIInv, IsFunctionOn
  <2> QED
    BY <1>1, <1>4, <2>2
<1>7. InjectorTypeOK(clauses') /\ InjectorMatches(notified', clauses')
  <2>1. Variable(l) \in Variables
    BY LiteralFacts
  <2>2. InjectorTypeOK(clauses')
    BY <1>1, <1>2, <2>1, RemoveClausesFacts
  <2>3. \A t \in ClauseType, v \in Variables :
            clauses'[t][v] = clauses[t][v] \/ clauses'[t][v] = << >>
    BY <1>1, <1>2, <2>1, RemoveClausesFacts, CauseFacts
  <2> QED
    BY <1>1, <1>2, <2>2, <2>3, FewerClausesMatch
<1> QED
  BY <1>1, <1>3, <1>5, <1>6, <1>7
     DEF ControllerIInv, ControllerTypeOK, InjectorTypeOK, StacksMatch, statusVars

LEMMA ClauseToInjectKeepsIInv ==
    ASSUME ControllerIInv, NEW type \in ClauseType, NEW cause \in Cause,
           ClauseToInject(type, cause)
    PROVE  ControllerIInv'
<1>1. /\ HasClause(clauses, type, cause)
      /\ clauses' = WithoutTaken(clauses, type, cause)
      /\ enables' = enables /\ asg' = asg /\ notified' = notified
      /\ lookupIndex' = lookupIndex /\ lookupInfos' = lookupInfos /\ state' = state
  BY DEF ClauseToInject, statusVars
<1>2. InjectorTypeOK(clauses) /\ InjectorMatches(notified, clauses)
  BY TypeParts DEF ControllerIInv
<1>3. InjectorTypeOK(clauses')
  BY <1>1, <1>2, WithoutTakenFacts
<1>4. \A t \in ClauseType, v \in Variables :
          clauses'[t][v] = clauses[t][v] \/ clauses'[t][v] = << >>
  BY <1>1, <1>2, WithoutTakenFacts, CauseFacts
<1>5. InjectorMatches(notified', clauses')
  BY <1>1, <1>2, <1>4, FewerClausesMatch
<1> QED
  BY <1>1, <1>3, <1>5 DEF ControllerIInv, ControllerTypeOK, InjectorTypeOK, StacksMatch

LEMMA ControllerNextKeepsIInv ==
    ASSUME ControllerIInv, [ControllerNext]_controllerVars PROVE ControllerIInv'
<1>1. CASE EnableCosy
  BY <1>1, EnableCosyKeepsIInv
<1>2. ASSUME NEW l \in Literal, UpdateNotify(l) PROVE ControllerIInv'
  BY <1>2, NotifyDisabledKeepsIInv, NotifyAllKeepsIInv, NotifyReducerKeepsIInv
     DEF UpdateNotify
<1>3. ASSUME NEW l \in Literal, UpdateCancel(l) PROVE ControllerIInv'
  BY <1>3, CancelLastKeepsIInv, CancelUnknownKeepsIInv
<1>4. ASSUME NEW type \in ClauseType, NEW cause \in Cause, ClauseToInject(type, cause)
      PROVE  ControllerIInv'
  BY <1>4, ClauseToInjectKeepsIInv
<1>5. CASE UNCHANGED controllerVars
  BY <1>5 DEF controllerVars, statusVars, ControllerIInv, ControllerTypeOK, StacksMatch
<1> QED
  BY <1>1, <1>2, <1>3, <1>4, <1>5 DEF ControllerNext

LEMMA ControllerIInvCorrect == ControllerSpec => []ControllerIInv
  BY ControllerInitIInv, ControllerNextKeepsIInv, PTL DEF ControllerSpec

\* Whatever solver makes the calls, the assignment stays consistent and is what
\* was notified and not cancelled since, every cursor and undo stack keeps its
\* type, and the injector never holds two clauses of a type for one variable.
THEOREM ControllerTypeCorrect == ControllerSpec => []ControllerTypeOK
<1>1. ControllerIInv => ControllerTypeOK
  BY DEF ControllerIInv
<1> QED
  BY <1>1, ControllerIInvCorrect, PTL

LEMMA IInvImpliesConflict == ControllerIInv => PendingClauseIsConflict
<1> SUFFICES ASSUME ControllerIInv PROVE PendingClauseIsConflict
  OBVIOUS
<1>1. InjectorMatches(notified, clauses) /\ IsHistory(asg, notified)
  BY TypeParts DEF ControllerIInv
<1>2. EsbpIsConflict
  BY <1>1 DEF InjectorMatches, EsbpIsConflict, IsConflictSince
<1>3. ASSUME NEW v \in Variables, notified # << >>, Variable(Last(notified)) = v,
             HasClause(clauses, "ESBP_FORCING", v)
      PROVE  \E l \in TakenClause(clauses, "ESBP_FORCING", v) :
                /\ ~LiteralIsAssigned(asg, l)
                /\ \A m \in TakenClause(clauses, "ESBP_FORCING", v) \ {l} :
                       LiteralIsFalse(asg, m)
  <2> DEFINE clause == TakenClause(clauses, "ESBP_FORCING", v)
  <2>1. PICK i \in DOMAIN notified :
            /\ Variable(notified[i]) = v
            /\ \E l \in clause :
                  /\ ~LiteralIsAssigned(AssignedBy(notified, i), l)
                  /\ \A m \in clause \ {l} : LiteralIsFalse(AssignedBy(notified, i), m)
    BY <1>1, <1>3 DEF InjectorMatches, WasUnit
  <2>2. Len(notified) \in DOMAIN notified /\ Last(notified) = notified[Len(notified)]
    <3>1. notified \in Seq(Literal)
      BY <1>1 DEF IsHistory
    <3>2. Len(notified) \in Nat \ {0} /\ Last(notified) = notified[Len(notified)]
      BY <1>3, <3>1, FrontLastProperties
    <3> QED
      BY <3>1, <3>2, SeqFacts
  <2>3. i = Len(notified)
    BY <1>1, <1>3, <2>1, <2>2 DEF IsHistory
  <2>4. AssignedBy(notified, i) = asg
    BY <1>1, <2>3, AssignedByFacts
  <2> QED
    BY <2>1, <2>4
<1>4. ForcingIsUnit
  BY <1>3 DEF ForcingIsUnit
<1> QED
  BY <1>2, <1>4 DEF PendingClauseIsConflict

\* A clause that waits for a literal is of use when the solver asks for it with
\* that literal: an ESBP clause has been a conflict since the literal was
\* notified, and a forcing clause is unit while the literal is on top.
THEOREM ClausesAreConflicts == ControllerSpec => []PendingClauseIsConflict
  BY IInvImpliesConflict, ControllerIInvCorrect, PTL

-----------------------------------------------------------------------------
\* What the clauses say of the lex leaders.

LEMMA FrontKeepsLeaders ==
    ASSUME NEW s \in Seq(Clause), s # << >>,
           \A i \in DOMAIN s : KeepsLeaders(s[i])
    PROVE  \A i \in DOMAIN Front(s) : KeepsLeaders(Front(s)[i])
<1>1. /\ Len(s) \in Nat
      /\ DOMAIN s = 1 .. Len(s)
      /\ DOMAIN Front(s) = 1 .. Len(s) - 1
      /\ \A i \in 1 .. Len(s) - 1 : Front(s)[i] = s[i]
  BY FrontLastProperties, SeqFacts
<1> QED
  BY <1>1

LEMMA UnitsKeepLeaders ==
    ASSUME \A p \in Statuses : IsInvolution(Inverses[p])
    PROVE  \A i \in DOMAIN Units : KeepsLeaders(Units[i])
<1> SUFFICES ASSUME NEW i \in DOMAIN Units PROVE KeepsLeaders(Units[i])
  OBVIOUS
<1>1. PICK p \in Statuses : \E j \in DOMAIN UnitClauses(LookupOf(p), Inverses[p], 1) :
          Units[i] = UnitClauses(LookupOf(p), Inverses[p], 1)[j]
  BY UnitsFacts
<1>2. PICK j \in DOMAIN UnitClauses(LookupOf(p), Inverses[p], 1) :
          Units[i] = UnitClauses(LookupOf(p), Inverses[p], 1)[j]
  BY <1>1
<1>3. IsLiteralMap(Inverses[p]) /\ IsLookup(LookupOf(p), Inverses[p])
  BY InversesFacts, LookupOfIsLookup
<1>4. \A total \in TotalAssignments : Units[i] \cap total = {}
          => LexLess(Image(Inverses[p], total), total)
  BY <1>2, <1>3, UnitClauseKeepsLeaders
<1> QED
  BY <1>4 DEF KeepsLeaders, Reducible

LEMMA ReducerClauseKeepsLeaders ==
    ASSUME ControllerIInv, \A p \in Statuses : IsInvolution(Inverses[p]),
           NEW l \in Literal, Assign(l), NEW r \in Statuses, NextState(r) = Reducer
    PROVE  KeepsLeaders(EsbpClause(asg', LookupOf(r), Inverses[r], NextIndex(r),
                                   Variable(l)))
<1>1. /\ asg' \subseteq Literal /\ Consistent(asg') /\ l \in asg'
      /\ IsLiteralMap(Inverses[r]) /\ IsLookup(LookupOf(r), Inverses[r])
      /\ StopsAt(asg', LookupOf(r), Inverses[r], NextIndex(r))
      /\ StateAt(asg', LookupOf(r), Inverses[r], NextIndex(r)) = Reducer
  BY AssignedOnTop, ToldStops, StatusFacts DEF IsHistory, NextState
<1>2. ASSUME NEW total \in TotalAssignments,
             EsbpClause(asg', LookupOf(r), Inverses[r], NextIndex(r), Variable(l))
               \cap total = {}
      PROVE  LexLess(Image(Inverses[r], total), total)
  BY <1>1, <1>2, EsbpClauseKeepsLeaders
<1> QED
  BY <1>2 DEF KeepsLeaders, Reducible

\* The forcing clauses are not among those PendingKeepsLeaders is about.
LEMMA AfterForcingKeepsLeaders ==
    ASSUME ControllerIInv, StoreKeepsLeaders(clauses), NEW l \in Literal, Assign(l),
           NEW told, told \subseteq Watch(Variable(l)),
           NEW store \in AfterForcing(told, Variable(l))
    PROVE  StoreKeepsLeaders(store)
<1>1. ASSUME NEW t \in {"ESBP", "UNITS"}, NEW c \in Cause
      PROVE  store[t][c] = clauses[t][c]
  <2>1. CASE store = clauses
    BY <2>1
  <2>2. ASSUME NEW clause,
               store = AddClause(clauses, "ESBP_FORCING", Variable(l), clause)
        PROVE  store[t][c] = clauses[t][c]
    <3>1. clauses \in [ClauseType -> [Cause -> Seq(Clause)]]
      BY DEF ControllerIInv, ControllerTypeOK
    <3>2. t \in ClauseType /\ t # "ESBP_FORCING"
      BY DEF ClauseType
    <3> QED
      BY <2>2, <3>1, <3>2 DEF AddClause
  <2> QED
    BY <2>1, <2>2 DEF AfterForcing
<1> QED
  BY <1>1 DEF StoreKeepsLeaders

LEMMA NotifyKeepsLeaders ==
    ASSUME ControllerIInv, \A p \in Statuses : IsInvolution(Inverses[p]),
           StoreKeepsLeaders(clauses), NEW l \in Literal, UpdateNotify(l)
    PROVE  StoreKeepsLeaders(clauses')
<1>1. CASE NotifyDisabled(l)
  BY <1>1 DEF NotifyDisabled
<1>2. CASE NotifyAll(l)
  <2>1. Assign(l) /\ clauses' \in AfterForcing(Watch(Variable(l)), Variable(l))
    BY <1>2 DEF NotifyAll
  <2> QED
    BY <2>1, AfterForcingKeepsLeaders
<1>3. ASSUME NEW r \in Watch(Variable(l)), NotifyReducer(l, r)
      PROVE  StoreKeepsLeaders(clauses')
  <2> DEFINE clause == EsbpClause(asg', LookupOf(r), Inverses[r], NextIndex(r),
                                  Variable(l))
  <2>1. Assign(l) /\ NextState(r) = Reducer /\ r \in Statuses
    BY <1>3 DEF NotifyReducer, Watch
  <2>2. PICK before \in SUBSET {p \in Watch(Variable(l)) : NextState(p) # Reducer} :
            \E store \in AfterForcing(before, Variable(l)) :
                clauses' = AddClause(store, "ESBP", Variable(l), clause)
    BY <1>3 DEF NotifyReducer
  <2>3. PICK store \in AfterForcing(before, Variable(l)) :
            clauses' = AddClause(store, "ESBP", Variable(l), clause)
    BY <2>2
  <2>4. StoreKeepsLeaders(store) /\ InjectorTypeOK(store)
    BY <2>1, AfterForcingKeepsLeaders, AfterForcingMatches
  <2>5. KeepsLeaders(clause)
    BY <2>1, ReducerClauseKeepsLeaders
  <2>6. clause \in Clause
    <3>1. /\ asg' \subseteq Literal /\ Consistent(asg') /\ l \in asg'
          /\ IsLiteralMap(Inverses[r]) /\ IsLookup(LookupOf(r), Inverses[r])
          /\ StopsAt(asg', LookupOf(r), Inverses[r], NextIndex(r))
          /\ StateAt(asg', LookupOf(r), Inverses[r], NextIndex(r)) = Reducer
      BY <2>1, AssignedOnTop, ToldStops, StatusFacts DEF IsHistory, NextState
    <3>2. \A m \in clause : m \in Literal
      BY <3>1, EsbpClauseIsFalse
    <3> HIDE DEF clause
    <3> QED
      BY <3>2 DEF Clause
  <2> HIDE DEF clause
  <2>7. Variable(l) \in Variables /\ "ESBP" \in ClauseType /\ "UNITS" \in ClauseType
    BY LiteralFacts DEF ClauseType
  <2>8. \A t \in {"ESBP", "UNITS"}, c \in Cause :
            clauses'[t][c] = store[t][c] \/ clauses'[t][c] = << clause >>
    BY <2>3, <2>4, <2>6, <2>7, AddClauseFacts
  <2>9. \A i \in DOMAIN << clause >> : << clause >>[i] = clause
    OBVIOUS
  <2> QED
    BY <2>4, <2>5, <2>8, <2>9 DEF StoreKeepsLeaders
<1> QED
  BY <1>1, <1>2, <1>3 DEF UpdateNotify

LEMMA ControllerNextKeepsLeaders ==
    ASSUME ControllerIInv, \A p \in Statuses : IsInvolution(Inverses[p]),
           StoreKeepsLeaders(clauses), [ControllerNext]_controllerVars
    PROVE  StoreKeepsLeaders(clauses')
<1>0. /\ InjectorTypeOK(clauses)
      /\ "ESBP" \in ClauseType /\ "UNITS" \in ClauseType
  BY TypeParts DEF ControllerIInv, ClauseType
<1>1. CASE EnableCosy
  <2>1. clauses' = AddUnits(clauses, Units)
    BY <1>1 DEF EnableCosy
  <2>2. ASSUME NEW t \in {"ESBP", "UNITS"}, NEW c \in Cause, NEW i \in DOMAIN clauses'[t][c]
        PROVE  KeepsLeaders(clauses'[t][c][i])
    <3>1. CASE t = "UNITS" /\ c = NoVariable
      <4> DEFINE old == clauses[t][c]
      <4>1. clauses'[t][c] = old \o Units
        BY <1>0, <2>1, <3>1, AddUnitsFacts
      <4>2. old \in Seq(Clause) /\ Units \in Seq(Clause)
        BY <1>0, <3>1, UnitsFacts DEF InjectorTypeOK
      <4>3. \A j \in DOMAIN old : KeepsLeaders(old[j])
        BY DEF StoreKeepsLeaders
      <4>4. \A j \in DOMAIN Units : KeepsLeaders(Units[j])
        BY UnitsKeepLeaders
      <4>5. PICK w : w = old \o Units
        OBVIOUS
      <4>6. /\ Len(old) \in Nat /\ Len(Units) \in Nat
            /\ DOMAIN old = 1 .. Len(old) /\ DOMAIN Units = 1 .. Len(Units)
            /\ w \in Seq(Clause)
            /\ Len(w) = Len(old) + Len(Units)
            /\ \A k \in 1 .. Len(old) : w[k] = old[k]
            /\ \A k \in Len(old) + 1 .. Len(old) + Len(Units) : w[k] = Units[k - Len(old)]
        <5> HIDE DEF old
        <5> QED
          BY <4>2, <4>5, SeqFacts, ConcatProperties
      <4>7. DOMAIN w = 1 .. Len(w)
        BY <4>6, SeqFacts
      <4>8. i \in 1 .. Len(w) /\ clauses'[t][c][i] = w[i]
        BY <4>1, <4>5, <4>7
      <4> HIDE DEF old
      <4>9. CASE i \in 1 .. Len(old)
        BY <4>3, <4>6, <4>8, <4>9
      <4>10. CASE i \notin 1 .. Len(old)
        <5>1. i \in Len(old) + 1 .. Len(old) + Len(Units) /\ i - Len(old) \in DOMAIN Units
          BY <4>6, <4>8, <4>10
        <5> QED
          BY <4>4, <4>6, <4>8, <5>1
      <4> QED
        BY <4>9, <4>10
    <3>2. CASE ~(t = "UNITS" /\ c = NoVariable)
      <4>1. clauses'[t][c] = clauses[t][c]
        BY <1>0, <2>1, <3>2, AddUnitsFacts
      <4> QED
        BY <2>2, <4>1 DEF StoreKeepsLeaders
    <3> QED
      BY <3>1, <3>2
  <2> QED
    BY <2>2 DEF StoreKeepsLeaders
<1>2. ASSUME NEW l \in Literal, UpdateNotify(l) PROVE StoreKeepsLeaders(clauses')
  BY <1>2, NotifyKeepsLeaders
<1>3. ASSUME NEW l \in Literal, UpdateCancel(l) PROVE StoreKeepsLeaders(clauses')
  <2>1. clauses' = RemoveClauses(clauses, Variable(l))
    BY <1>3 DEF UpdateCancel
  <2>2. \A t \in {"ESBP", "UNITS"}, c \in Cause :
            clauses'[t][c] = clauses[t][c] \/ clauses'[t][c] = << >>
    BY <1>0, <2>1, LiteralFacts, RemoveClausesFacts
  <2>3. DOMAIN << >> = {}
    OBVIOUS
  <2> QED
    BY <2>2, <2>3 DEF StoreKeepsLeaders
<1>4. ASSUME NEW type \in ClauseType, NEW cause \in Cause, ClauseToInject(type, cause)
      PROVE  StoreKeepsLeaders(clauses')
  <2>1. HasClause(clauses, type, cause) /\ clauses' = WithoutTaken(clauses, type, cause)
    BY <1>4 DEF ClauseToInject
  <2>2. ASSUME NEW t \in {"ESBP", "UNITS"}, NEW c \in Cause
        PROVE  \A i \in DOMAIN clauses'[t][c] : KeepsLeaders(clauses'[t][c][i])
    <3>1. CASE t = type /\ c = cause
      <4>1. clauses'[t][c] = Front(clauses[t][c])
        BY <1>0, <2>1, <3>1, WithoutTakenFacts
      <4>2. clauses[t][c] \in Seq(Clause) /\ clauses[t][c] # << >>
        BY <1>0, <2>1, <3>1 DEF InjectorTypeOK, HasClause
      <4>3. \A i \in DOMAIN clauses[t][c] : KeepsLeaders(clauses[t][c][i])
        BY DEF StoreKeepsLeaders
      <4> QED
        BY <4>1, <4>2, <4>3, FrontKeepsLeaders
    <3>2. CASE ~(t = type /\ c = cause)
      <4>1. clauses'[t][c] = clauses[t][c]
        BY <1>0, <2>1, <3>2, WithoutTakenFacts
      <4> QED
        BY <4>1 DEF StoreKeepsLeaders
    <3> QED
      BY <3>1, <3>2
  <2> QED
    BY <2>2 DEF StoreKeepsLeaders
<1>5. CASE UNCHANGED controllerVars
  BY <1>5 DEF controllerVars
<1> QED
  BY <1>1, <1>2, <1>3, <1>4, <1>5 DEF ControllerNext

\* When every permutation is an involution, no clause that waits for the solver
\* excludes a total assignment, unless some permutation maps that one to a
\* smaller one: with any solver, after any backtracking, the clauses together
\* leave the lex leader of every orbit.
THEOREM ClausesKeepLeaders ==
    ASSUME \A p \in Statuses : IsInvolution(Inverses[p])
    PROVE  ControllerSpec => []PendingKeepsLeaders
<1> DEFINE LInv == ControllerIInv /\ StoreKeepsLeaders(clauses)
<1>1. ControllerInit => StoreKeepsLeaders(clauses)
  <2>1. ASSUME ControllerInit, NEW t \in {"ESBP", "UNITS"}, NEW c \in Cause
        PROVE  clauses[t][c] = << >>
    BY <2>1 DEF ControllerInit, NoClauses, ClauseType
  <2>2. DOMAIN << >> = {}
    OBVIOUS
  <2> QED
    BY <2>1, <2>2 DEF StoreKeepsLeaders
<1>2. ControllerInit => LInv
  BY <1>1, ControllerInitIInv
<1>3. LInv /\ [ControllerNext]_controllerVars => LInv'
  BY ControllerNextKeepsIInv, ControllerNextKeepsLeaders
<1>4. LInv => PendingKeepsLeaders
  BY DEF StoreKeepsLeaders, PendingKeepsLeaders
<1> QED
  BY <1>2, <1>3, <1>4, PTL DEF ControllerSpec

-----------------------------------------------------------------------------
\* Each status of the manager implements CosyStatus: a notification it is told
\* of is Status!Notify, one it is not told of is Status!NotTold, and cancelling
\* a literal that was never notified is a stutter.

\* The rules of StatusRules are the same ones in the instance.
LEMMA SameRules ==
    /\ \A A, k : Status!Advance(A, LookupOf(Watched), Inverses[Watched], k)
                   = Advance(A, LookupOf(Watched), Inverses[Watched], k)
    /\ \A A, k : Status!StateAt(A, LookupOf(Watched), Inverses[Watched], k)
                   = StateAt(A, LookupOf(Watched), Inverses[Watched], k)
<1> USE DEF Status!Min, Min, Status!IsLookupEnd, IsLookupEnd, Status!SameAt, SameAt,
            Status!HasSameAssignmentValue, HasSameAssignmentValue,
            Status!BothLiteralsAreAssigned, BothLiteralsAreAssigned,
            Status!LiteralIsAssigned, LiteralIsAssigned,
            Status!LiteralIsTrue, LiteralIsTrue, Status!LiteralIsFalse, LiteralIsFalse,
            Status!Negated, Negated
<1>1. \A A, k : Status!Advance(A, LookupOf(Watched), Inverses[Watched], k)
                   = Advance(A, LookupOf(Watched), Inverses[Watched], k)
  BY DEF Status!Advance, Advance
<1>2. \A A, k : Status!StateAt(A, LookupOf(Watched), Inverses[Watched], k)
                   = StateAt(A, LookupOf(Watched), Inverses[Watched], k)
  BY DEF Status!StateAt, StateAt, Status!Minimal, Minimal, Status!Maximal, Maximal,
         Status!Leq, Leq, Status!OrderIndex, OrderIndex, Status!Variable, Variable,
         Status!ForcesOther, ForcesOther, Status!IsMinimalValue, IsMinimalValue,
         Status!IsMaximalValue, IsMaximalValue, Status!Active, Active,
         Status!Inactive, Inactive, Status!Reducer, Reducer,
         Status!ForceLexLeader, ForceLexLeader
<1> QED
  BY <1>1, <1>2

\* An instance has operators of its own for literals and sequences too.
LEMMA SameSteps ==
    /\ Status!Literal = Literal
    /\ \A l \in Literal : Status!Variable(l) = Variable(l)
    /\ \A l : l \in Literal /\ Variable(l) \in Status!Support
                <=> l \in Literal /\ Watched \in Watch(Variable(l))
    /\ \A l : Status!LiteralIsAssigned(asg, l) <=> LiteralIsAssigned(asg, l)
    /\ \A l : Status!AssignFromTrueLiteral(asg, l) = AssignFromTrueLiteral(asg, l)
    /\ \A l : Status!UnassignLiteral(asg, l) = UnassignLiteral(asg, l)
<1>1. Status!Literal = Literal /\ \A l : Status!Variable(l) = Variable(l)
  BY DEF Status!Literal, Literal, Status!Variable, Variable
<1>2. Status!Support = {v \in Variables : Inverses[Watched][v] # v}
  BY DEF Status!Support, Status!Variables, Variables
<1>3. \A l \in Literal : Variable(l) \in Status!Support <=> Watched \in Watch(Variable(l))
  BY <1>2, LiteralFacts, WatchedAssumption DEF Watch
<1>4. \A l : Status!LiteralIsAssigned(asg, l) <=> LiteralIsAssigned(asg, l)
  BY DEF Status!LiteralIsAssigned, LiteralIsAssigned, Status!LiteralIsTrue, LiteralIsTrue,
         Status!LiteralIsFalse, LiteralIsFalse, Status!Negated, Negated
<1>5. \A l : Status!AssignFromTrueLiteral(asg, l) = AssignFromTrueLiteral(asg, l)
  BY DEF Status!AssignFromTrueLiteral, AssignFromTrueLiteral
<1>6. \A l : Status!UnassignLiteral(asg, l) = UnassignLiteral(asg, l)
  BY DEF Status!UnassignLiteral, UnassignLiteral, Status!Negated, Negated
<1> QED
  BY <1>1, <1>3, <1>4, <1>5, <1>6

LEMMA NotToldImplements ==
    ASSUME NEW l \in Literal, Assign(l),
           lookupIndex'[Watched] = lookupIndex[Watched],
           lookupInfos'[Watched] = lookupInfos[Watched],
           state'[Watched] = state[Watched]
    PROVE  Status!Next
<1>1. Status!NotTold(l)
  BY SameSteps DEF Status!NotTold, Status!Assign, Assign
<1> QED
  BY <1>1, SameSteps DEF Status!Next

LEMMA TellImplements ==
    ASSUME NEW l \in Literal, Assign(l),
           NEW told, told \subseteq Watch(Variable(l)),
           TellStatuses(told, Variable(l))
    PROVE  Status!Next
<1>0. Watched \in Statuses
  BY WatchedAssumption
<1>1. CASE Watched \in told
  <2>1. /\ lookupIndex'[Watched] = NextIndex(Watched)
        /\ lookupInfos'[Watched] =
               IF NextIndex(Watched) # lookupIndex[Watched]
               THEN Append(lookupInfos[Watched],
                           [variable  |-> Variable(l),
                            backIndex |-> lookupIndex[Watched]])
               ELSE lookupInfos[Watched]
        /\ state'[Watched] = NextState(Watched)
    BY <1>0, <1>1 DEF TellStatuses
  <2>2. /\ NextIndex(Watched) = Status!Advance(asg', LookupOf(Watched),
                                               Inverses[Watched], lookupIndex[Watched])
        /\ NextState(Watched) = Status!StateAt(asg', LookupOf(Watched),
                                               Inverses[Watched], NextIndex(Watched))
    BY SameRules DEF NextIndex, NextState
  <2>3. Status!Variable(l) \in Status!Support /\ Status!Variable(l) = Variable(l)
    BY <1>1, SameSteps
  <2>4. Status!Assign(l)
    BY SameSteps DEF Status!Assign, Assign
  <2>5. Status!Notify(l)
    BY <2>1, <2>2, <2>3, <2>4 DEF Status!Notify
  <2> QED
    BY <2>5, SameSteps DEF Status!Next
<1>2. CASE Watched \notin told
  <2>1. /\ lookupIndex'[Watched] = lookupIndex[Watched]
        /\ lookupInfos'[Watched] = lookupInfos[Watched]
        /\ state'[Watched] = state[Watched]
    BY <1>0, <1>2 DEF TellStatuses
  <2> QED
    BY <2>1, NotToldImplements
<1> QED
  BY <1>1, <1>2

LEMMA CancelImplements ==
    ASSUME ControllerIInv, NEW l \in Literal, UpdateCancel(l)
    PROVE  Status!Next \/ UNCHANGED Status!vars
<1>0. Watched \in Statuses
  BY WatchedAssumption
<1>1. CASE LiteralIsAssigned(asg, l)
  <2>1. notified # << >> /\ l = Last(notified) /\ notified' = Front(notified)
    BY <1>1, CancelLastKeepsIInv DEF UpdateCancel
  <2>2. /\ asg' = UnassignLiteral(asg, l)
        /\ lookupIndex'[Watched] = IF Pops(Watched, l)
                                   THEN Last(lookupInfos[Watched]).backIndex
                                   ELSE lookupIndex[Watched]
        /\ lookupInfos'[Watched] = IF Pops(Watched, l) THEN Front(lookupInfos[Watched])
                                                       ELSE lookupInfos[Watched]
        /\ state' = state
    BY <1>0 DEF UpdateCancel
  <2>3. Pops(Watched, l) <=> /\ lookupInfos[Watched] # << >>
                             /\ Last(lookupInfos[Watched]).variable = Variable(l)
    BY <1>0, EntryIsAssigned DEF Pops
  <2>4. /\ \A s : Status!Last(s) = Last(s)
        /\ \A s : Status!Front(s) = Front(s)
    BY DEF Status!Last, Last, Status!Front, Front
  <2>5. Status!Variable(l) = Variable(l)
    BY SameSteps
  <2>6. Status!Cancel
    BY <2>1, <2>2, <2>3, <2>4, <2>5, SameSteps DEF Status!Cancel
  <2> QED
    BY <2>6 DEF Status!Next
<1>2. CASE ~LiteralIsAssigned(asg, l)
  <2>1. UNCHANGED <<enables, asg, notified, statusVars>>
    BY <1>2, CancelUnknownKeepsIInv
  <2> QED
    BY <2>1 DEF statusVars, Status!vars
<1> QED
  BY <1>1, <1>2

LEMMA ControllerNextImplements ==
    ASSUME ControllerIInv, [ControllerNext]_controllerVars
    PROVE  Status!Next \/ UNCHANGED Status!vars
<1>0. Watched \in Statuses
  BY WatchedAssumption
<1>1. CASE EnableCosy
  <2>1. /\ lookupIndex'[Watched] = 1 /\ lookupInfos'[Watched] = << >>
        /\ state'[Watched] = Active /\ asg' = asg /\ notified' = notified
    BY <1>0, <1>1 DEF EnableCosy
  <2>2. Status!Renew
    BY <2>1 DEF Status!Renew, Status!Active, Active
  <2> QED
    BY <2>2 DEF Status!Next
<1>2. ASSUME NEW l \in Literal, UpdateNotify(l) PROVE Status!Next
  <2>1. CASE NotifyDisabled(l)
    BY <2>1, NotToldImplements DEF NotifyDisabled, statusVars
  <2>2. CASE NotifyAll(l)
    BY <2>2, TellImplements DEF NotifyAll
  <2>3. ASSUME NEW r \in Watch(Variable(l)), NotifyReducer(l, r) PROVE Status!Next
    <3>1. PICK before \in SUBSET {p \in Watch(Variable(l)) : NextState(p) # Reducer} :
              TellStatuses(before \cup {r}, Variable(l))
      BY <2>3 DEF NotifyReducer
    <3>2. before \cup {r} \subseteq Watch(Variable(l)) /\ Assign(l)
      BY <2>3 DEF NotifyReducer
    <3> QED
      BY <3>1, <3>2, TellImplements
  <2> QED
    BY <1>2, <2>1, <2>2, <2>3 DEF UpdateNotify
<1>3. ASSUME NEW l \in Literal, UpdateCancel(l)
      PROVE  Status!Next \/ UNCHANGED Status!vars
  BY <1>3, CancelImplements
<1>4. ASSUME NEW type \in ClauseType, NEW cause \in Cause, ClauseToInject(type, cause)
      PROVE  UNCHANGED Status!vars
  BY <1>4 DEF ClauseToInject, statusVars, Status!vars
<1>5. CASE UNCHANGED controllerVars
  BY <1>5 DEF controllerVars, statusVars, Status!vars
<1> QED
  BY <1>1, <1>2, <1>3, <1>4, <1>5 DEF ControllerNext

\* Whichever statuses a reducer keeps from hearing of a literal, and whatever
\* the solver cancels, the manager keeps the protocol of each of its statuses:
\* what is proved of CosyStatus holds of all of them.
THEOREM ManagerKeepsProtocol == ControllerSpec => StatusKeepsProtocol
<1>1. ControllerInit => Status!Init
  <2>1. ASSUME ControllerInit
        PROVE  /\ lookupIndex[Watched] = 1 /\ lookupInfos[Watched] = << >>
               /\ state[Watched] = Active /\ asg = {} /\ notified = << >>
    BY <2>1, WatchedAssumption DEF ControllerInit
  <2> QED
    BY <2>1 DEF Status!Init, Status!Active, Active
<1>2. ControllerIInv /\ [ControllerNext]_controllerVars => [Status!Next]_(Status!vars)
  BY ControllerNextImplements
<1> QED
  BY <1>1, <1>2, ControllerIInvCorrect, PTL
     DEF ControllerSpec, StatusKeepsProtocol, Status!Spec

=============================================================================
